------------------------ MODULE PendingEntryExposure ------------------------
(***************************************************************************)
(* Whose are the order, the position and the fills of a maker entry: the   *)
(* proofs that between handlers a resting order is the one the pending     *)
(* entry names, that an open position is pending or managed, that a filled *)
(* attempt is accounted, and that a position is promoted under its stop.   *)
(*                                                                         *)
(* Each theorem assumes away exactly the faults under which the code loses *)
(* track: a submission accepted while its answer and every lookup are lost *)
(* ("lost"), an account read that lags behind a fill ("lag"), a reprice    *)
(* cut off by a crash (RepricesOwned), a crash after a failed save         *)
(* (Durable), and the taker fallback, whose fill is in locals only.        *)
(***************************************************************************)
EXTENDS PendingEntryOrders

(***************************************************************************)
(* Where the runtime lets go of an entry: at the Ended labels, and where   *)
(* no entry is pending, none of its orders rests.                          *)
(***************************************************************************)
Freezing == {"startcancel", "undo", "flatcancel", "freeze", "pscancel", "rpcancel"}
Released == {"startkeep", "undostop", "undoflatten", "undodrop", "flatrace",
             "flatcheck", "settle", "fallback", "drop", "forget", "pskeep",
             "finalize", "takes", "promote", "fincancel", "finflatten", "clean",
             "account"}

EndInv ==
    /\ pc \in Released \cup {"persist", "post", "rpsubmit"} => Live = {}
    /\ pc \in {"firstfill", "decide"} /\ loc.done => Live = {}
    /\ ~Tracked(mem) => Live = {}

(* An order is let go of only once it is frozen, was read as terminal, or  *)
(* was never accepted.                                                     *)
LEMMA ReleaseMove ==
    ASSUME TypeInv, Next, pc' \in Released
    PROVE  \/ pc \in Released
           \/ pc \in Freezing /\ Frozen(loc.entry.id)
           \/ pc = "decide" /\ loc.done /\ UNCHANGED orders
           \/ pc = "post" /\ (Lost(loc.entry.id) \/ UNCHANGED orders)
  <1> USE DEF Released, Freezing
  <1>r. pc' \in Released => ~Return
    BY DEF Return, Goto
  <1>0. pc' \in Released
    OBVIOUS
  <1>1. CASE pc \in Released \/ UNCHANGED pc
    BY <1>1
  <1>2. CASE Claim \/ Submission
    <2>1. CASE Claim \/ Persist \/ PostAccepted \/ ReadBack \/ StartStop \/ StartSave
      BY <2>1, <1>0, <1>r
         DEF Claim, Persist, PostAccepted, ReadBack, StartStop, StartSave,
             SaveOr, Goto
    <2>2. CASE PostLost \/ PostRefused
      BY <2>2 DEF PostLost, PostRefused, Refused
    <2>3. CASE StartCancel \/ Undo
      BY <2>3, <1>0, <1>r DEF StartCancel, Undo
    <2>4. CASE StartKeep \/ UndoStop \/ UndoFlatten \/ UndoDrop
      BY <2>4 DEF StartKeep, UndoStop, UndoFlatten, UndoDrop
    <2> QED
      BY <1>2, <2>1, <2>2, <2>3, <2>4 DEF Submission
  <1>3. CASE Progress
    <2>1. CASE SyncBegin \/ ReadOrder \/ Resubmit \/ FirstFill
      BY <2>1, <1>0, <1>r
         DEF SyncBegin, ReadOrder, Resubmit, FirstFill, Observe, SaveOr, Goto
    <2>2. CASE DecideFlat
      BY <2>2, <1>0 DEF DecideFlat, Goto, exchange
    <2>3. CASE Decide
      <3>1. PICK inv \in BOOLEAN :
               LET l == [loc EXCEPT !.inv = inv, !.due = late] IN
               IF Concludes(l)
               THEN Goto(IF loc.done THEN "settle" ELSE "freeze", l)
               ELSE IF loc.exec > 0
               THEN Goto(IF loc.entry.stop THEN "tail" ELSE "provstop", l)
               ELSE \/ Goto("tail", l)
                    \/ loc.entry.tries < MaxReprices /\ Goto("rpcancel", l)
        BY <2>3, Zenon DEF Decide
      <3>2. pc = "decide" /\ UNCHANGED orders
        BY <2>3 DEF Decide, exchange
      <3> QED
        BY <3>1, <3>2, <1>0 DEF Goto
    <2>4. CASE FlatCancel \/ Freeze \/ PsCancel \/ RpCancel
      BY <2>4, <1>0, <1>r DEF FlatCancel, Freeze, PsCancel, RpCancel, Goto
    <2>5. CASE FlatRace \/ FlatCheck \/ SettleFallback \/ Settle \/ Fallback
               \/ Drop \/ Forget \/ PsKeep
      BY <2>5
         DEF FlatRace, FlatCheck, SettleFallback, Settle, Fallback, Drop,
             Forget, PsKeep
    <2>6. CASE ProvStop \/ Halt \/ RpSubmit \/ Tail
      BY <2>6, <1>0, <1>r DEF ProvStop, Halt, RpSubmit, Tail, Goto
    <2> QED
      BY <1>3, <2>1, <2>2, <2>3, <2>4, <2>5, <2>6 DEF Progress
  <1>4. CASE Conclusion
    BY <1>4, <1>1
       DEF Conclusion, Finalize, Takes, Promote, FinCancel, FinFlatten, Clean,
           Account, AccountLate
  <1>5. CASE Environment
    BY <1>5, <1>0, <1>1, <1>r
       DEF Environment, Fill, ExchangeEnds, StopTriggers, OperatorCloses,
           Deadline, Crash
  <1> QED
    BY <1>2, <1>3, <1>4, <1>5 DEF Next

(* The entry stops pending where its handler promotes it, accounts it,     *)
(* forgets it or undoes it, and nowhere else; a crash finds it on disk.    *)
LEMMA UntrackMove ==
    ASSUME Durable, TypeInv, SavedInv, Next, Tracked(mem), ~Tracked(mem)'
    PROVE  /\ UNCHANGED <<orders, bought>>
           /\ \/ pc = "undodrop" /\ UndoDrop
              \/ pc = "forget"
              \/ pc = "promote" /\ mem'.managed
              \/ pc = "account" /\ UNCHANGED pos /\ mem'.outcome # "none"
  <1>t. /\ loc \in LocType /\ mem \in StateType
        /\ pc # "idle" => loc.entry.id \in Ids
    BY DEF TypeInv, HandlerType, StatesType
  <1>0. mem'.entry.id = NoId /\ mem.entry.id # NoId /\ NoId \notin Ids
    BY IdFacts DEF Tracked
  <1>1. mem' # mem
    BY <1>0
  <1>2. ASSUME pc # "idle", mem' = [mem EXCEPT !.entry = loc.entry] PROVE FALSE
    BY <1>2, <1>0, <1>t DEF StateType
  <1>3. CASE Claim \/ AccountLate
    <2>1. mem'.entry = mem.entry
      BY <1>3, <1>t DEF Claim, AccountLate, SaveOk, StateType
    <2> QED
      BY <2>1, <1>0
  <1>4. CASE Persist \/ StartKeep \/ StartSave \/ FirstFill \/ PsKeep \/ Tail
    BY <1>4, <1>2
       DEF Persist, StartKeep, StartSave, FirstFill, PsKeep, Tail, SaveOk,
           SaveOr
  <1>5. CASE UndoDrop \/ Forget
    BY <1>5 DEF UndoDrop, Forget, exchange
  <1>6. CASE Halt
    <2>1. /\ mem' = [mem EXCEPT !.halted = TRUE,
                                !.entry = IF loc.halting THEN @ ELSE loc.entry]
          /\ pc = "halt"
      BY <1>6 DEF Halt, SaveOk
    <2> QED
      BY <2>1, <1>0, <1>t DEF StateType
  <1>7. CASE Promote
    BY <1>7, <1>t DEF Promote, SaveOk, StateType, exchange
  <1>8. CASE Account
    BY <1>8, <1>t DEF Account, StateType, exchange
  <1>9. CASE Crash
    BY <1>9, <1>1, NoCrash DEF Crash
  <1> QED
    BY <1>1, <1>3, <1>4, <1>5, <1>6, <1>7, <1>8, <1>9
       DEF Next, Submission, Progress, Conclusion, Environment, state,
           PostAccepted, PostLost, PostRefused, ReadBack, StartStop,
           StartCancel, Undo, UndoStop, UndoFlatten, SyncBegin, ReadOrder,
           Resubmit, DecideFlat, Decide, FlatCancel, FlatRace, FlatCheck,
           Freeze, SettleFallback, Settle, Fallback, Drop, ProvStop, PsCancel,
           RpCancel, RpSubmit, Finalize, Takes, FinCancel, FinFlatten, Clean,
           Fill, ExchangeEnds, StopTriggers, OperatorCloses, Deadline

(* The order in hand is the only one that may rest.                        *)
LEMMA LiveInHand ==
    ASSUME TypeInv, WorkInv, IdInv, OwnInv,
           pc \in Freezing \cup {"read", "resubmit"}
    PROVE  Live \subseteq {loc.entry.id} /\ Tracked(mem)
  <1>1. mem.entry.id = loc.entry.id /\ loc.entry.id \in Ids
    BY DEF OwnInv, TypeInv, HandlerType, Freezing
  <1>2. Tracked(mem)
    BY <1>1, IdFacts DEF Tracked
  <1>3. Live \subseteq Active /\ FallbackId \notin Live
    BY IdFacts DEF Live, Active, IdInv
  <1> QED
    BY <1>1, <1>2, <1>3 DEF OwnInv, Named, Freezing

(* EndInv is preserved: only post, resubmit and rpsubmit add a resting     *)
(* order, and they name it.                                                *)
LEMMA EndStep ==
    ASSUME Durable, RepricesOwned, "lost" \notin Faults
    PROVE  QInv /\ EndInv /\ Next => EndInv'
  <1> SUFFICES ASSUME QInv, EndInv, Next PROVE EndInv'
    OBVIOUS
  <1>q. TypeInv /\ SavedInv /\ LiveInv /\ WorkInv /\ IdInv /\ ActiveInv /\ OwnInv
    BY DEF QInv, IInv
  <1>1. Flow /\ OrdersMove
    BY <1>q, FlowStep, MoveOfOrders
  <1>2. \/ Live' \subseteq Live
        \/ pc \in {"post", "resubmit", "rpsubmit"}
    BY <1>q, <1>1, LiveMove
  <1>3. UNCHANGED orders => Live' = Live
    BY DEF Live
  <1>4. Live \subseteq Active
    BY DEF Live, Active
  <1>a. ASSUME pc' \in {"persist", "post", "rpsubmit"} PROVE Live' = {}
    <2>1. ActiveInv'
      BY <1>q, ActiveStep DEF QInv, IInv
    <2> QED
      BY <2>1, <1>a DEF ActiveInv, Active, Live
  <1>b. ASSUME pc' \in Released PROVE Live' = {}
    <2>1. CASE pc \in Released
      BY <2>1, <1>2 DEF EndInv, Released
    <2>2. CASE pc \in Freezing /\ Frozen(loc.entry.id)
      <3>1. Live \subseteq {loc.entry.id} /\ loc.entry.id \in Ids
        BY <2>2, <1>q, LiveInHand DEF TypeInv, HandlerType, Freezing
      <3>2. orders'[loc.entry.id].status = "done"
        BY <2>2, <3>1, <1>q, CanceledFinal DEF Frozen
      <3> QED
        BY <2>2, <3>1, <3>2, <1>2 DEF Live, Freezing
    <2>3. CASE pc = "decide" /\ loc.done /\ UNCHANGED orders
      BY <2>3, <1>3 DEF EndInv
    <2>4. CASE pc = "post" /\ (Lost(loc.entry.id) \/ UNCHANGED orders)
      <3>1. UNCHANGED orders
        BY <2>4 DEF Lost, Known
      <3> QED
        BY <2>4, <3>1, <1>3, <1>4, <1>q DEF ActiveInv
    <2> QED
      BY <1>b, <1>q, <2>1, <2>2, <2>3, <2>4, ReleaseMove
  <1>c. ASSUME pc' \in {"firstfill", "decide"}, loc'.done PROVE Live' = {}
    <2>1. CASE pc \in {"read", "resubmit"}
      <3>1. Live \subseteq {loc.entry.id}
        BY <2>1, <1>q, LiveInHand
      <3>2. CASE UNCHANGED orders /\ loc'.done = (orders[loc.entry.id].status = "done")
        BY <3>1, <3>2, <1>3, <1>c DEF Live
      <3>3. CASE UNCHANGED loc
        BY <2>1, <3>3, <1>c, <1>q DEF QInv, TermInv
      <3> QED
        BY <2>1, <3>2, <3>3, <1>1, <1>c DEF Flow, Steady
    <2>2. CASE pc \in {"firstfill", "decide"}
      <3>1. UNCHANGED loc
        BY <2>2, <1>1, <1>c DEF Flow, Steady
      <3> QED
        BY <2>2, <3>1, <1>2, <1>c DEF EndInv
    <2>3. CASE pc \notin {"read", "resubmit", "firstfill", "decide"}
      BY <2>3, <1>1, <1>c DEF Flow, Steady
    <2> QED
      BY <2>1, <2>2, <2>3
  <1>d. ASSUME ~Tracked(mem)' PROVE Live' = {}
    <2>1. CASE Tracked(mem)
      <3>1. UNCHANGED orders /\ pc \in Released
        BY <2>1, <1>d, <1>q, UntrackMove DEF Released
      <3> QED
        BY <3>1, <1>3 DEF EndInv
    <2>2. CASE ~Tracked(mem)
      <3>1. pc \notin {"post", "resubmit", "rpsubmit"}
        BY <2>2, <1>q, IdFacts
           DEF WorkInv, Tracked, TypeInv, HandlerType, Unplaced
      <3> QED
        BY <2>2, <3>1, <1>2 DEF EndInv
    <2> QED
      BY <2>1, <2>2
  <1> QED
    BY <1>a, <1>b, <1>c, <1>d DEF EndInv, Tracked

(* The inductive invariant behind RestingOrderOwned.                       *)
OwnedInv == QInv /\ EndInv

(* It holds initially,                                                     *)
LEMMA OwnedInit == Init => OwnedInv
  <1> SUFFICES ASSUME Init PROVE OwnedInv
    OBVIOUS
  <1>1. Live = {}
    BY DEF Init, Live
  <1> QED
    BY <1>1, QInvInit DEF OwnedInv, EndInv

(* and every step preserves it.                                            *)
LEMMA OwnedStep ==
    ASSUME Durable, RepricesOwned, "lost" \notin Faults
    PROVE  OwnedInv /\ [Next]_vars => OwnedInv'
  <1> SUFFICES ASSUME OwnedInv, [Next]_vars PROVE OwnedInv'
    OBVIOUS
  <1>1. QInv'
    BY QInvStep DEF OwnedInv
  <1>2. CASE Next
    BY <1>1, <1>2, EndStep DEF OwnedInv
  <1>3. CASE UNCHANGED vars
    BY <1>1, <1>3 DEF vars, OwnedInv, EndInv, Live, Tracked
  <1> QED
    BY <1>2, <1>3

(* Between handlers a resting entry order is the one the pending entry     *)
(* names, so every sync, and every restart, finds it again                 *)
(* (start_pending_entry, progress_pending_entries, 4361-4365).  Assumed:   *)
(* no accepted submission is lost, a crash does not cut a reprice in two,  *)
(* and save() succeeds or no process dies.                                 *)
THEOREM RestingOrderOwned ==
    ASSUME Durable, RepricesOwned, "lost" \notin Faults
    PROVE  Spec => []LiveOrderOwned
  <1>1. Init => OwnedInv
    BY OwnedInit
  <1>2. OwnedInv /\ [Next]_vars => OwnedInv'
    BY OwnedStep
  <1>3. OwnedInv => LiveOrderOwned
    <2> SUFFICES ASSUME OwnedInv, pc = "idle" PROVE Live \subseteq {mem.entry.id}
      BY DEF LiveOrderOwned
    <2>1. CASE Tracked(mem)
      <3>1. Live \subseteq Active /\ FallbackId \notin Live
        BY IdFacts DEF OwnedInv, QInv, IdInv, Live, Active
      <3> QED
        BY <2>1, <3>1 DEF OwnedInv, QInv, OwnInv, Named
    <2>2. CASE ~Tracked(mem)
      BY <2>2 DEF OwnedInv, EndInv
    <2> QED
      BY <2>1, <2>2
  <1> QED
    BY <1>1, <1>2, <1>3, PTL DEF Spec

-----------------------------------------------------------------------------
(* Without the fallback, what was bought is what the order in hand         *)
(* executed.                                                               *)
LEMMA WholeFill ==
    ASSUME QInv, OwnInv, ~TakerFallback,
           pc \notin {"idle", "persist", "rpsubmit", "tail", "halt"}, Tracked(mem)
    PROVE  orders[loc.entry.id].executed = bought
  <1>1. mem.entry.id = loc.entry.id /\ loc.entry.id \in Ids /\ pc # "tail"
    BY DEF OwnInv, QInv, IInv, TypeInv, HandlerType
  <1>2. /\ orders[FallbackId].status = "none" /\ orders[FallbackId].executed = 0
        /\ orders[loc.entry.id].executed \in Nat
    BY <1>1, IdFacts, QAssumption DEF QInv, IInv, IdInv, TypeInv, ExchangeType
  <1>3. Active \subseteq {loc.entry.id}
    BY <1>1, <1>2 DEF OwnInv, Named, Active
  <1>4. CASE loc.entry.id \in Active
    BY <1>4 DEF QInv, SumInv
  <1>5. CASE loc.entry.id \notin Active
    BY <1>1, <1>2, <1>3, <1>5 DEF QInv, SumInv, Active
  <1> QED
    BY <1>4, <1>5

(* What was bought grows only by the fill of a resting order or by the     *)
(* fallback.                                                               *)
LEMMA BoughtMove ==
    ASSUME TypeInv, IdInv, ~TakerFallback, Next, Live = {}
    PROVE  bought' = bought
  <1>1. OrdersMove
    BY MoveOfOrders
  <1>2. \A i \in Ids : ~OrderFills(i)
    BY DEF Live, OrderFills
  <1>3. \A e \in 0..Q : ~FallbackFills(e)
    BY DEF FallbackFills, IdInv
  <1> QED
    BY <1>1, <1>2, <1>3 DEF OrdersMove, OrdersEnd

(* Nothing was bought under an entry that is about to be forgotten, or     *)
(* about to be submitted.                                                  *)
EmptyInv == pc \in {"drop", "forget", "persist", "post"} => bought = 0

(* EmptyInv is preserved: an entry is dropped only once its terminal order *)
(* is read to have executed nothing.                                       *)
LEMMA EmptyStep ==
    ASSUME Durable, RepricesOwned, "lost" \notin Faults, ~TakerFallback
    PROVE  OwnedInv /\ EmptyInv /\ Next => EmptyInv'
  <1> SUFFICES ASSUME OwnedInv, EmptyInv, Next, pc' \in {"drop", "forget", "persist", "post"}
               PROVE  bought' = 0
    BY DEF EmptyInv
  <1>q. /\ TypeInv /\ SavedInv /\ IdInv /\ WorkInv /\ OwnInv /\ TermInv /\ ActiveInv
        /\ QInv /\ QInv'
    BY QInvStep DEF OwnedInv, QInv, IInv
  <1>1. CASE pc' \in {"persist", "post"}
    BY <1>1, <1>q DEF QInv, ActiveInv, SumInv
  <1>2. CASE pc \in {"drop", "forget", "post"} /\ pc' \in {"drop", "forget"}
    <2>1. Live = {}
      BY <1>2 DEF OwnedInv, EndInv, Released
    <2> QED
      BY <1>2, <1>q, <2>1, BoughtMove DEF EmptyInv
  <1>3. CASE pc \notin {"drop", "forget", "post"} /\ pc' \in {"drop", "forget"}
    <2>1. pc = "settle" /\ loc.exec = 0
      <3>r. ~Return
        BY <1>3 DEF Return, Goto
      <3>l. loc.exec \in 0..Q
        BY <1>q DEF TypeInv, HandlerType, LocType
      <3>1. ~(Claim \/ Submission)
        BY <1>3, <3>r
           DEF Claim, Submission, Persist, PostAccepted, PostLost, PostRefused,
               ReadBack, StartStop, StartCancel, StartKeep, StartSave, Undo,
               UndoStop, UndoFlatten, UndoDrop, SaveOr, Goto
      <3>2. ~Conclusion
        BY <1>3, <3>r
           DEF Conclusion, Finalize, Takes, Promote, FinCancel, FinFlatten,
               FinishErr, Clean, Account, AccountLate, Goto
      <3>3. ~Environment
        BY <1>3, <3>r
           DEF Environment, Fill, ExchangeEnds, StopTriggers, OperatorCloses,
               Deadline, Crash
      <3>4. ~Decide
        <4> SUFFICES ASSUME Decide PROVE FALSE
          OBVIOUS
        <4>1. PICK inv \in BOOLEAN :
               LET l == [loc EXCEPT !.inv = inv, !.due = late] IN
               IF Concludes(l)
               THEN Goto(IF loc.done THEN "settle" ELSE "freeze", l)
               ELSE IF loc.exec > 0
               THEN Goto(IF loc.entry.stop THEN "tail" ELSE "provstop", l)
               ELSE \/ Goto("tail", l)
                    \/ loc.entry.tries < MaxReprices /\ Goto("rpcancel", l)
          BY Zenon DEF Decide
        <4> QED
          BY <1>3, <4>1 DEF Goto
      <3>5. ~Fallback
        BY <1>q DEF IdInv, Fallback
      <3>6. ~(SyncBegin \/ ReadOrder \/ Resubmit \/ FirstFill \/ DecideFlat)
        BY <1>3, <3>r
           DEF SyncBegin, ReadOrder, Resubmit, Observe, FirstFill, DecideFlat,
               SaveOr, Goto
      <3>7. ~(FlatCancel \/ FlatRace \/ FlatCheck \/ Freeze \/ SettleFallback)
        BY <1>3, <3>r
           DEF FlatCancel, FlatRace, FlatCheck, Freeze, SettleFallback, Goto
      <3>8. ~(Drop \/ Forget \/ ProvStop \/ PsCancel \/ PsKeep \/ Halt \/ RpCancel \/ RpSubmit \/ Tail)
        BY <1>3, <3>r
           DEF Drop, Forget, ProvStop, PsCancel, PsKeep, Halt, RpCancel,
               RpSubmit, Tail, SaveOr, Conclude, Goto
      <3>9. Settle
        BY <3>1, <3>2, <3>3, <3>4, <3>5, <3>6, <3>7, <3>8 DEF Next, Progress
      <3> QED
        BY <3>9, <1>3 DEF Settle, Conclude, Goto
    <2>2. Tracked(mem)
      BY <2>1, <1>q DEF WorkInv, Unplaced
    <2>3. orders[loc.entry.id].executed = bought
      BY <2>1, <2>2, <1>q, WholeFill
    <2>4. bought = 0
      BY <2>1, <2>3, <1>q DEF TermInv, Final
    <2>5. Live = {}
      BY <2>1 DEF OwnedInv, EndInv, Released
    <2> QED
      BY <2>4, <2>5, <1>q, BoughtMove
  <1> QED
    BY <1>1, <1>2, <1>3

(***************************************************************************)
(* An open position has an owner, and where the handler is done with an    *)
(* entry that no longer owns one the position is flat.                     *)
(***************************************************************************)
ExposedInv ==
    /\ pos > 0 => Tracked(mem) \/ mem.managed
    /\ pc \in {"undodrop", "clean", "account"} => pos = 0

(* The position only grows by a fill of a resting order.                   *)
LEMMA PosMove ==
    ASSUME TypeInv, IdInv, ~TakerFallback, Next
    PROVE  \/ pos' \in 0..pos
           \/ UNCHANGED mem /\ Live # {}
  <1>t. bought \in Nat /\ pos \in Nat /\ loc.exec \in Nat /\ loc.out \in Nat
    BY QAssumption DEF TypeInv, ExchangeType, HandlerType, LocType
  <1>1. CASE UNCHANGED pos
    BY <1>1, <1>t
  <1>2. CASE UndoFlatten \/ FlatRace \/ FinFlatten
    <2>1. pc = "flatrace" => loc.out < loc.exec
      BY DEF TypeInv, HandlerType
    <2> QED
      BY <1>2, <1>t, <2>1 DEF UndoFlatten, FlatRace, FinFlatten, Less
  <1>3. ~Fallback
    BY DEF Fallback, IdInv
  <1>4. ASSUME NEW i \in Ids, Fill(i) PROVE UNCHANGED mem /\ Live # {}
    BY <1>4 DEF Fill, Live, state
  <1>5. CASE Claim \/ Submission
    BY <1>5, <1>1, <1>2
       DEF Claim, Submission, exchange, Persist, PostAccepted, PostLost,
           PostRefused, ReadBack, StartStop, StartCancel, StartKeep, StartSave,
           Undo, UndoStop, UndoDrop
  <1>6. CASE Progress
    BY <1>6, <1>1, <1>2, <1>3
       DEF Progress, exchange, SyncBegin, ReadOrder, Resubmit, FirstFill,
           DecideFlat, Decide, FlatCancel, FlatCheck, Freeze, SettleFallback,
           Settle, Drop, Forget, ProvStop, PsCancel, PsKeep, Halt, RpCancel,
           RpSubmit, Tail
  <1>7. CASE Conclusion
    BY <1>7, <1>1, <1>2
       DEF Conclusion, exchange, Finalize, Takes, Promote, FinCancel, Clean,
           Account, AccountLate
  <1>8. CASE Environment
    BY <1>8, <1>1, <1>4, <1>t
       DEF Environment, exchange, ExchangeEnds, StopTriggers,
           OperatorCloses, Deadline, Crash
  <1> QED
    BY <1>5, <1>6, <1>7, <1>8 DEF Next

(* Nothing ends the management of a position here, and no outcome is       *)
(* forgotten.                                                              *)
LEMMA MemMove ==
    ASSUME Durable, TypeInv, SavedInv, Next
    PROVE  /\ mem.managed => mem'.managed
           /\ mem.outcome # "none" => mem'.outcome # "none"
  <1>t. mem \in StateType
    BY DEF TypeInv, StatesType
  <1>1. CASE mem' = mem
    BY <1>1
  <1>2. CASE Claim \/ AccountLate
    BY <1>2, <1>t DEF Claim, AccountLate, SaveOk, StateType
  <1>3. CASE Persist \/ StartKeep \/ StartSave \/ FirstFill \/ PsKeep \/ Tail
    <2>1. mem' = [mem EXCEPT !.entry = loc.entry]
      BY <1>3
         DEF Persist, StartKeep, StartSave, FirstFill, PsKeep, Tail, SaveOk,
             SaveOr
    <2> QED
      BY <2>1, <1>t DEF StateType
  <1>4. CASE UndoDrop \/ Forget
    BY <1>4, <1>t DEF UndoDrop, Forget, SaveOk, StateType
  <1>5. CASE Halt
    BY <1>5, <1>t DEF Halt, SaveOk, StateType
  <1>6. CASE Promote
    BY <1>6, <1>t DEF Promote, SaveOk, StateType
  <1>7. CASE Account
    BY <1>7, <1>t DEF Account, StateType
  <1>8. CASE Crash
    BY <1>8, <1>1, NoCrash DEF Crash
  <1> QED
    BY <1>1, <1>2, <1>3, <1>4, <1>5, <1>6, <1>7, <1>8
       DEF Next, Submission, Progress, Conclusion, Environment, state,
           PostAccepted, PostLost, PostRefused, ReadBack, StartStop,
           StartCancel, Undo, UndoStop, UndoFlatten, SyncBegin, ReadOrder,
           Resubmit, DecideFlat, Decide, FlatCancel, FlatRace, FlatCheck,
           Freeze, SettleFallback, Settle, Fallback, Drop, ProvStop, PsCancel,
           RpCancel, RpSubmit, Finalize, Takes, FinCancel, FinFlatten, Clean,
           Fill, ExchangeEnds, StopTriggers, OperatorCloses, Deadline

(* The runtime takes the entry for flat only when it is: every unit its    *)
(* order executed was closed.                                              *)
LEMMA FlatMove ==
    ASSUME Durable, RepricesOwned, "lost" \notin Faults, "lag" \notin Faults,
           ~TakerFallback, OwnedInv, EmptyInv, ExposedInv, Next,
           pc' \in {"undodrop", "clean", "account"}
    PROVE  pos' = 0
  <1>q. /\ TypeInv /\ IdInv /\ WorkInv /\ OwnInv /\ TermInv /\ QInv
        /\ TypeInv'
    BY TypeStep DEF OwnedInv, QInv, IInv
  <1>t. /\ pos \in Nat /\ bought \in Nat /\ pos <= bought /\ pos' \in Nat
        /\ loc \in LocType /\ loc.exec \in Nat
    BY <1>q, QAssumption DEF TypeInv, ExchangeType, HandlerType, LocType
  <1>r. ~Return
    BY DEF Return, Goto
  <1>w. pc \in {"undo", "undoflatten", "decide", "flatcheck"} =>
            orders[loc.entry.id].executed = bought
    BY <1>q, WholeFill DEF WorkInv, Unplaced
  <1>f. pc \in {"undoflatten", "flatcheck"} => loc.exec = bought
    BY <1>w, <1>q DEF TermInv, Final, Concluding
  <1>1. CASE UNCHANGED <<pc, pos>>
    BY <1>1 DEF ExposedInv
  <1>2. CASE Undo
    <2>1. pc = "undo" /\ UNCHANGED pos
      BY <1>2 DEF Undo
    <2>2. orders[loc.entry.id].executed = 0
      BY <1>2, <1>r DEF Undo, Goto
    <2> QED
      BY <2>1, <2>2, <1>w, <1>t
  <1>3. CASE UndoFlatten
    <2>1. pc = "undoflatten" /\ pos' = Less(pos, loc.exec)
      BY <1>3, <1>r DEF UndoFlatten
    <2> QED
      BY <2>1, <1>f, <1>t DEF Less
  <1>4. CASE DecideFlat
    <2>1. /\ pc = "decide" /\ bought - pos >= loc.exec /\ UNCHANGED pos
          /\ loc.done
      BY <1>4 DEF DecideFlat, RoundTrip, Goto, exchange
    <2>2. loc.exec = bought
      BY <2>1, <1>w, <1>q DEF TermInv, Final
    <2> QED
      BY <2>1, <2>2, <1>t
  <1>5. CASE FlatCheck
    <2>1. pc = "flatcheck" /\ bought - pos >= loc.exec /\ UNCHANGED pos
      BY <1>5, <1>r DEF FlatCheck, RoundTrip, exchange
    <2> QED
      BY <2>1, <1>f, <1>t
  <1>6. CASE FinFlatten
    BY <1>6, <1>r DEF FinFlatten, FinishErr, Goto
  <1>7. CASE Clean
    BY <1>7 DEF Clean, ExposedInv
  <1>8. CASE Claim \/ Submission
    BY <1>8, <1>r, <1>2, <1>3
       DEF Claim, Submission, Persist, PostAccepted, PostLost, PostRefused,
           ReadBack, StartStop, StartCancel, StartKeep, StartSave, UndoStop,
           UndoDrop, SaveOr, Goto
  <1>9. ~Decide
    <2> SUFFICES ASSUME Decide PROVE FALSE
      OBVIOUS
    <2>1. PICK inv \in BOOLEAN :
               LET l == [loc EXCEPT !.inv = inv, !.due = late] IN
               IF Concludes(l)
               THEN Goto(IF loc.done THEN "settle" ELSE "freeze", l)
               ELSE IF loc.exec > 0
               THEN Goto(IF loc.entry.stop THEN "tail" ELSE "provstop", l)
               ELSE \/ Goto("tail", l)
                    \/ loc.entry.tries < MaxReprices /\ Goto("rpcancel", l)
      BY Zenon DEF Decide
    <2> QED
      BY <2>1 DEF Goto
  <1>10. CASE SyncBegin \/ ReadOrder \/ Resubmit \/ FirstFill \/ FlatCancel
              \/ FlatRace \/ Freeze \/ SettleFallback \/ Settle \/ Fallback
    BY <1>10, <1>r
       DEF SyncBegin, ReadOrder, Resubmit, Observe, FirstFill, FlatCancel,
           FlatRace, Freeze, SettleFallback, Settle, Conclude, Fallback,
           FallbackDone, SaveOr, Goto
  <1>11. CASE Drop \/ Forget \/ ProvStop \/ PsCancel \/ PsKeep \/ Halt
              \/ RpCancel \/ RpSubmit \/ Tail
    BY <1>11, <1>r
       DEF Drop, Forget, ProvStop, PsCancel, PsKeep, Halt, RpCancel, RpSubmit,
           Tail, SaveOr, Conclude, Goto
  <1>12. CASE Conclusion
    BY <1>12, <1>r, <1>1, <1>6, <1>7
       DEF Conclusion, exchange, Finalize, Takes, Promote, FinCancel,
           FinishErr, Account, AccountLate, Goto
  <1>13. CASE Environment
    <2>1. ASSUME NEW i \in Ids, Fill(i) PROVE pos' = 0
      BY <2>1 DEF Fill, Live, OwnedInv, EndInv, Released
    <2> QED
      BY <1>13, <1>r, <1>1, <2>1
         DEF Environment, exchange, ExchangeEnds, StopTriggers,
             OperatorCloses, Deadline, Crash
  <1> QED
    BY <1>4, <1>5, <1>8, <1>9, <1>10, <1>11, <1>12, <1>13 DEF Next, Progress

(* ExposedInv is preserved: an entry stops pending only when it is         *)
(* promoted, empty or flat.                                                *)
LEMMA ExposedStep ==
    ASSUME Durable, RepricesOwned, "lost" \notin Faults, "lag" \notin Faults,
           ~TakerFallback
    PROVE  OwnedInv /\ EmptyInv /\ ExposedInv /\ Next => ExposedInv'
  <1> SUFFICES ASSUME OwnedInv, EmptyInv, ExposedInv, Next PROVE ExposedInv'
    OBVIOUS
  <1>q. TypeInv /\ SavedInv /\ IdInv
    BY DEF OwnedInv, QInv, IInv
  <1>1. pc' \in {"undodrop", "clean", "account"} => pos' = 0
    BY FlatMove
  <1>2. ASSUME pos' > 0 PROVE Tracked(mem)' \/ mem'.managed
    <2>t. pos \in Nat /\ bought \in Nat /\ pos <= bought /\ pos' \in Nat
      BY <1>q, TypeStep DEF TypeInv, ExchangeType
    <2>1. CASE Tracked(mem)
      <3> SUFFICES ASSUME ~Tracked(mem)' PROVE mem'.managed
        OBVIOUS
      <3>1. \/ pc = "promote" /\ mem'.managed
            \/ pc \in {"undodrop", "account"} /\ pos = 0
            \/ pc = "forget" /\ bought = 0
        BY <2>1, <1>q, UntrackMove DEF ExposedInv, EmptyInv
      <3>2. CASE pos = 0
        <4>1. pos' \in 0..pos \/ UNCHANGED mem
          BY <1>q, PosMove
        <4> QED
          BY <4>1, <3>2, <1>2, <2>1, <2>t DEF Tracked
      <3> QED
        BY <3>1, <3>2, <2>t
    <2>2. CASE ~Tracked(mem)
      <3>1. Live = {}
        BY <2>2 DEF OwnedInv, EndInv
      <3>2. pos > 0
        BY <3>1, <1>2, <2>t, <1>q, PosMove
      <3> QED
        BY <3>2, <2>2, <1>q, MemMove DEF ExposedInv
    <2> QED
      BY <2>1, <2>2
  <1> QED
    BY <1>1, <1>2 DEF ExposedInv, Tracked

(* The inductive invariant behind ExposureAlwaysOwned.                     *)
OpenInv == OwnedInv /\ EmptyInv /\ ExposedInv

(* It holds initially,                                                     *)
LEMMA OpenInit == Init => OpenInv
  <1> SUFFICES ASSUME Init PROVE OpenInv
    OBVIOUS
  <1>1. EmptyInv /\ ExposedInv
    BY DEF Init, EmptyInv, ExposedInv
  <1> QED
    BY <1>1, OwnedInit DEF OpenInv

(* and every step preserves it.                                            *)
LEMMA OpenStep ==
    ASSUME Durable, RepricesOwned, "lost" \notin Faults, "lag" \notin Faults,
           ~TakerFallback
    PROVE  OpenInv /\ [Next]_vars => OpenInv'
  <1> SUFFICES ASSUME OpenInv, [Next]_vars PROVE OpenInv'
    OBVIOUS
  <1>1. OwnedInv'
    BY OwnedStep DEF OpenInv
  <1>2. CASE Next
    BY <1>1, <1>2, EmptyStep, ExposedStep DEF OpenInv
  <1>3. CASE UNCHANGED vars
    BY <1>1, <1>3 DEF vars, OpenInv, EmptyInv, ExposedInv, Tracked
  <1> QED
    BY <1>2, <1>3

(* Between handlers an open position belongs to a pending entry or to a    *)
(* managed position, so sync never meets its own fill as a foreign         *)
(* position (811-822).  Assumed besides RestingOrderOwned: the account     *)
(* read does not lag behind a fill, and the plan has no taker fallback.    *)
THEOREM ExposureAlwaysOwned ==
    ASSUME Durable, RepricesOwned, "lost" \notin Faults, "lag" \notin Faults,
           ~TakerFallback
    PROVE  Spec => []ExposureOwned
  <1>1. Init => OpenInv
    BY OpenInit
  <1>2. OpenInv /\ [Next]_vars => OpenInv'
    BY OpenStep
  <1>3. OpenInv => ExposureOwned
    BY DEF OpenInv, ExposedInv, ExposureOwned
  <1> QED
    BY <1>1, <1>2, <1>3, PTL DEF Spec

-----------------------------------------------------------------------------
(* What was bought is pending, managed, or accounted.                      *)
AccountedInv ==
    bought > 0 => Tracked(mem) \/ mem.managed \/ mem.outcome # "none"

(* AccountedInv is preserved: only promotion and accounting end a filled   *)
(* entry.                                                                  *)
LEMMA AccountedStep ==
    ASSUME "save" \notin Faults, RepricesOwned, "lost" \notin Faults,
           ~TakerFallback
    PROVE  OwnedInv /\ EmptyInv /\ AccountedInv /\ Next => AccountedInv'
  <1> SUFFICES ASSUME OwnedInv, EmptyInv, AccountedInv, Next, bought' > 0, ~Tracked(mem)'
               PROVE  mem'.managed \/ mem'.outcome # "none"
    BY DEF AccountedInv, Tracked
  <1>q. /\ TypeInv /\ SavedInv /\ IdInv /\ Durable
        /\ pc # "undodrop"
    BY DEF OwnedInv, QInv, IInv, Durable, SavedInv, UndoLabels
  <1>1. CASE Tracked(mem)
    <2>1. \/ pc = "promote" /\ mem'.managed
          \/ pc = "account" /\ mem'.outcome # "none"
          \/ pc = "forget" /\ bought' = 0
      BY <1>1, <1>q, UntrackMove DEF EmptyInv
    <2> QED
      BY <2>1
  <1>2. CASE ~Tracked(mem)
    <2>1. bought' = bought
      BY <1>2, <1>q, BoughtMove DEF OwnedInv, EndInv
    <2> QED
      BY <2>1, <1>2, <1>q, MemMove DEF AccountedInv
  <1> QED
    BY <1>1, <1>2

(* A filled attempt that is neither pending nor managed any more has its   *)
(* outcome recorded or owed (finish_failed_pending_entry,                  *)
(* record_outcome_once, 3809), whatever fills race its end.  Assumed: as   *)
(* for RestingOrderOwned, save() succeeds (the roll-back of a failed last  *)
(* save flattens without accounting), and the plan has no taker fallback.  *)
THEOREM FillsAccounted ==
    ASSUME "save" \notin Faults, RepricesOwned, "lost" \notin Faults,
           ~TakerFallback
    PROVE  Spec => []FilledIsAccounted
  <1> DEFINE I == OwnedInv /\ EmptyInv /\ AccountedInv
  <1>0. Durable
    BY DEF Durable
  <1>1. Init => I
    BY OwnedInit DEF Init, EmptyInv, AccountedInv
  <1>2. I /\ [Next]_vars => I'
    <2>1. CASE Next
      BY <2>1, <1>0, OwnedStep, EmptyStep, AccountedStep
    <2>2. CASE UNCHANGED vars
      BY <2>2, <1>0, OwnedStep DEF vars, EmptyInv, AccountedInv, Tracked
    <2> QED
      BY <2>1, <2>2
  <1>3. I => FilledIsAccounted
    BY DEF AccountedInv, FilledIsAccounted
  <1> QED
    BY <1>1, <1>2, <1>3, PTL DEF Spec

-----------------------------------------------------------------------------
(***************************************************************************)
(* The stop: an entry that records a provisional stop has a fill under it, *)
(* and the stop rests unless part of the fill has been closed since        *)
(* (Covered).  A handler past the first fill holds a positive quantity     *)
(* (FillInv), so it never drops a stop that covers something (StopInv).    *)
(***************************************************************************)
FilledLabels ==
    {"startstop", "startcancel", "startkeep", "undostop", "undoflatten",
     "firstfill", "flatcancel", "flatrace", "flatcheck",
     "provstop", "pscancel", "pskeep", "finalize", "takes", "promote",
     "fincancel", "finflatten", "clean", "account"}
FreshLabels ==
    {"startstop", "startcancel", "undostop", "firstfill", "decide", "provstop"}

BoughtInv == \A i \in Ids : orders[i].executed > 0 => bought > 0

FillInv ==
    /\ loc.exec > 0 => bought > 0
    /\ pc \in {"read", "resubmit"} => loc.exec = 0
    /\ pc \in FilledLabels => loc.exec > 0
    /\ pc \in FreshLabels /\ loc.exec > 0 => orders[loc.entry.id].executed > 0

Covered == "pendingstop" \in stops \/ pos < bought
Cover(e) == e.stop => e.id \in Ids /\ orders[e.id].executed > 0 /\ Covered

CoverInv == Cover(mem.entry) /\ Cover(disk.entry) /\ Cover(loc.entry)

StopInv ==
    /\ pc \in {"persist", "post", "rpcancel", "fallback", "drop"} => ~loc.entry.stop
    /\ pc \in {"decide", "freeze", "settle"} /\ loc.exec = 0 => ~loc.entry.stop
    /\ pc \in {"takes", "promote"} => stops # {} \/ pos < bought
    /\ pc = "undodrop" /\ loc.entry.stop => pos < bought
    /\ pc = "clean" => pos < bought

ManagedInv == disk.managed => mem.managed

SInv == TypeInv /\ BoughtInv /\ FillInv /\ CoverInv /\ StopInv /\ ManagedInv

Grows ==
    /\ \A i \in Ids : orders[i].executed <= orders'[i].executed
    /\ bought <= bought'
    /\ bought + pos' <= bought' + pos

(* What fills is bought.                                                   *)
LEMMA FillsAreBought == TypeInv /\ OrdersMove =>
    \A i \in Ids : orders'[i].executed > orders[i].executed => bought' > bought
  <1> SUFFICES ASSUME TypeInv, OrdersMove, NEW i \in Ids,
                      orders'[i].executed > orders[i].executed
               PROVE  bought' > bought
    OBVIOUS
  <1>t. /\ orders \in [Ids -> [status : {"none", "live", "done"}, executed : 0..Q]]
        /\ orders[i].executed \in Nat /\ bought \in Nat
        /\ \A j \in Ids : orders[j].status = "none" => orders[j].executed = 0
    BY QAssumption DEF TypeInv, ExchangeType
  <1>1. ~UNCHANGED orders
    BY <1>t
  <1>2. ~Accepted(loc.entry.id) /\ ~OrdersEnd
    BY <1>t DEF Accepted, OrdersEnd
  <1>3. ASSUME NEW j \in Ids, OrderFills(j) PROVE bought' > bought
    BY <1>3, <1>t DEF OrderFills
  <1>4. ASSUME NEW e \in 0..Q, FallbackFills(e) PROVE bought' > bought
    BY <1>4, <1>t, IdFacts, QAssumption DEF FallbackFills
  <1> QED
    BY <1>1, <1>2, <1>3, <1>4 DEF OrdersMove

(* Arithmetic.                                                             *)
LEMMA Sums ==
    /\ \A b \in Nat, p \in Nat, c \in Nat, q \in Nat :
          b + q <= c + p /\ p < b => q < c
    /\ \A b \in Nat, p \in Nat : \A q \in 0..p : b + q <= b + p /\ q \in Nat
    /\ \A b \in Nat, p \in Nat, e \in Nat : b + (p + e) <= (b + e) + p
OBVIOUS

(* What was bought never shrinks, and of it what was closed never does.    *)
LEMMA BooksGrow ==
    TypeInv /\ Next => bought <= bought' /\ bought + pos' <= bought' + pos
  <1> SUFFICES ASSUME TypeInv, Next
      PROVE  bought <= bought' /\ bought + pos' <= bought' + pos
    OBVIOUS
  <1>t. bought \in Nat /\ pos \in Nat /\ loc.exec \in Nat /\ loc.out \in Nat
    BY QAssumption DEF TypeInv, ExchangeType, HandlerType, LocType
  <1>1. CASE UNCHANGED <<bought, pos>>
    BY <1>1, <1>t
  <1>2. CASE UndoFlatten \/ FlatRace \/ FinFlatten
    <2>1. pc = "flatrace" => loc.out < loc.exec
      BY DEF TypeInv, HandlerType
    <2>2. bought' = bought
      BY <1>2 DEF UndoFlatten, FlatRace, FinFlatten
    <2>3. pos' \in 0..pos
      BY <1>2, <1>t, <2>1 DEF UndoFlatten, FlatRace, FinFlatten, Less
    <2>4. \A q \in 0..pos : bought <= bought /\ bought + q <= bought + pos
      BY <1>t, Sums
    <2> QED
      BY <2>2, <2>3, <2>4
  <1>3. CASE Fallback
    <2>1. \/ UNCHANGED <<bought, pos>>
          \/ \E e \in 0..Q : bought' = bought + e /\ pos' = pos + e
      BY <1>3 DEF Fallback
    <2> QED
      BY <2>1, <1>t, <1>1, QAssumption
  <1>4. CASE Claim \/ Submission
    BY <1>4, <1>1, <1>2
       DEF Claim, Submission, exchange, Persist, PostAccepted, PostLost,
           PostRefused, ReadBack, StartStop, StartCancel, StartKeep, StartSave,
           Undo, UndoStop, UndoDrop
  <1>5. CASE Progress
    BY <1>5, <1>1, <1>2, <1>3
       DEF Progress, exchange, SyncBegin, ReadOrder, Resubmit, FirstFill,
           DecideFlat, Decide, FlatCancel, FlatCheck, Freeze, SettleFallback,
           Settle, Drop, Forget, ProvStop, PsCancel, PsKeep, Halt, RpCancel,
           RpSubmit, Tail
  <1>6. CASE Conclusion
    BY <1>6, <1>1, <1>2
       DEF Conclusion, exchange, Finalize, Takes, Promote, FinCancel, Clean,
           Account, AccountLate
  <1>7. CASE Environment
    BY <1>7, <1>1, <1>t
       DEF Environment, exchange, Fill, ExchangeEnds, StopTriggers,
           OperatorCloses, Deadline, Crash
  <1> QED
    BY <1>4, <1>5, <1>6, <1>7 DEF Next

(* Every step grows, and an executed quantity was bought.                  *)
LEMMA GrowStep == TypeInv /\ BoughtInv /\ Next => Grows /\ BoughtInv'
  <1> SUFFICES ASSUME TypeInv, BoughtInv, Next PROVE Grows /\ BoughtInv'
    OBVIOUS
  <1>1. /\ \A i \in Ids : orders[i].executed \in Nat
        /\ bought \in Nat
    BY QAssumption DEF TypeInv, ExchangeType
  <1>2. /\ \A i \in Ids : orders'[i].executed \in Nat
        /\ bought' \in Nat
    BY TypeStep, QAssumption DEF TypeInv, ExchangeType
  <1>0. OrdersMove
    BY MoveOfOrders
  <1>3. Grows
    BY <1>0, OrdersGrow, BooksGrow DEF Grows
  <1>4. ASSUME NEW i \in Ids, orders'[i].executed > 0 PROVE bought' > 0
    BY <1>0, <1>1, <1>2, <1>3, <1>4, FillsAreBought DEF BoughtInv, Grows
  <1> QED
    BY <1>3, <1>4 DEF BoughtInv

(* A provisional stop goes only with the position, with a part of it, or   *)
(* for an entry that bought nothing under it.                              *)
LEMMA StopStays ==
    ASSUME "lag" \notin Faults
    PROVE  TypeInv /\ FillInv /\ StopInv /\ Next /\ Covered => Covered'
  <1> SUFFICES ASSUME TypeInv, FillInv, StopInv, Next, Covered PROVE Covered'
    OBVIOUS
  <1>t. bought \in Nat /\ pos \in Nat /\ bought' \in Nat /\ pos' \in Nat /\ pos <= bought
    BY TypeStep DEF TypeInv, ExchangeType
  <1>1. CASE pos < bought
    BY <1>1, <1>t, BooksGrow, Sums DEF Covered
  <1>2. CASE stops \subseteq stops'
    BY <1>1, <1>2 DEF Covered
  <1>3. CASE Drop
    BY <1>2, <1>3 DEF Drop, StopInv
  <1>4. CASE UndoDrop
    BY <1>1, <1>2, <1>4 DEF UndoDrop, StopInv
  <1>5. CASE Clean
    BY <1>1, <1>5 DEF Clean, StopInv
  <1>6. ASSUME NEW s \in stops, StopTriggers(s) PROVE Covered'
    BY <1>6, <1>t DEF StopTriggers, Covered
  <1>7. CASE Claim \/ Submission
    BY <1>7, <1>2, <1>4
       DEF Claim, Submission, exchange, Persist, PostAccepted, PostLost,
           PostRefused, ReadBack, StartStop, StartCancel, StartKeep, StartSave,
           Undo, UndoStop, UndoFlatten, StopPlaced, StopFailed
  <1>8. CASE Progress
    BY <1>8, <1>2, <1>3
       DEF Progress, exchange, SyncBegin, ReadOrder, Resubmit, FirstFill,
           DecideFlat, Decide, FlatCancel, FlatRace, FlatCheck, Freeze,
           SettleFallback, Settle, Fallback, Forget, ProvStop, PsCancel,
           PsKeep, Halt, RpCancel, RpSubmit, Tail, StopPlaced, StopFailed
  <1>9. CASE Conclusion
    BY <1>9, <1>2, <1>5
       DEF Conclusion, exchange, Finalize, Takes, Promote, FinCancel,
           FinFlatten, Account, AccountLate, StopPlaced, StopFailed
  <1>10. CASE Environment
    BY <1>10, <1>2, <1>6
       DEF Environment, exchange, Fill, ExchangeEnds, OperatorCloses, Deadline,
           Crash
  <1> QED
    BY <1>7, <1>8, <1>9, <1>10 DEF Next

(* Every step leaves in memory and on disk an entry that was there before, *)
(* the one in hand, or none; a position becomes managed where its handler  *)
(* promotes it, or by a restart that finds it managed on disk.             *)
LEMMA StatesMove == TypeInv /\ Next =>
    /\ mem'.entry \in {mem.entry, loc.entry, disk.entry, NoEntry}
    /\ disk'.entry \in {mem.entry, loc.entry, disk.entry, NoEntry}
    /\ ManagedInv => ManagedInv'
    /\ mem.managed # mem'.managed => pc = "promote" \/ mem'.managed = disk.managed
  <1> SUFFICES ASSUME TypeInv, Next
      PROVE  /\ mem'.entry \in {mem.entry, loc.entry, disk.entry, NoEntry}
             /\ disk'.entry \in {mem.entry, loc.entry, disk.entry, NoEntry}
             /\ ManagedInv => ManagedInv'
             /\ mem.managed # mem'.managed => pc = "promote" \/ mem'.managed = disk.managed
    OBVIOUS
  <1> USE DEF ManagedInv
  <1>t. mem \in StateType /\ disk \in StateType
    BY DEF TypeInv, StatesType
  <1>1. CASE disk' = disk /\ mem' \in {mem, disk}
    BY <1>1
  <1>2. ASSUME mem'.entry \in {mem.entry, loc.entry, NoEntry},
               disk' \in {disk, mem'},
               mem'.managed = mem.managed \/ (pc = "promote" /\ mem'.managed)
        PROVE  /\ mem'.entry \in {mem.entry, loc.entry, disk.entry, NoEntry}
               /\ disk'.entry \in {mem.entry, loc.entry, disk.entry, NoEntry}
               /\ ManagedInv => ManagedInv'
               /\ mem.managed # mem'.managed => pc = "promote" \/ mem'.managed = disk.managed
    BY <1>2, Zenon
  <1>3. CASE Claim \/ AccountLate
    BY <1>3, <1>2, <1>t DEF Claim, AccountLate, SaveOk, StateType
  <1>4. CASE Persist \/ StartKeep \/ StartSave \/ FirstFill \/ PsKeep \/ Tail
    <2>1. mem' = [mem EXCEPT !.entry = loc.entry] /\ disk' \in {disk, mem'}
      BY <1>4
         DEF Persist, StartKeep, StartSave, FirstFill, PsKeep, Tail, SaveOk,
             SaveOr
    <2> QED
      BY <2>1, <1>2, <1>t DEF StateType
  <1>5. CASE UndoDrop \/ Forget
    <2>1. mem' = [mem EXCEPT !.entry = NoEntry] /\ disk' \in {disk, mem'}
      BY <1>5 DEF UndoDrop, Forget, SaveOk
    <2> QED
      BY <2>1, <1>2, <1>t DEF StateType
  <1>6. CASE Halt
    <2>1. /\ mem' = [mem EXCEPT !.halted = TRUE,
                                !.entry = IF loc.halting THEN @ ELSE loc.entry]
          /\ disk' \in {disk, mem'}
      BY <1>6 DEF Halt, SaveOk
    <2> QED
      BY <2>1, <1>2, <1>t DEF StateType
  <1>7. CASE Promote
    BY <1>7, <1>2, <1>t DEF Promote, SaveOk, StateType
  <1>8. CASE Account
    BY <1>8, <1>2, <1>t DEF Account, StateType
  <1>9. CASE Crash
    BY <1>9, <1>1 DEF Crash
  <1> QED
    BY <1>1, <1>3, <1>4, <1>5, <1>6, <1>7, <1>8, <1>9
       DEF Next, Submission, Progress, Conclusion, Environment, state,
           PostAccepted, PostLost, PostRefused, ReadBack, StartStop,
           StartCancel, Undo, UndoStop, UndoFlatten, SyncBegin, ReadOrder,
           Resubmit, DecideFlat, Decide, FlatCancel, FlatRace, FlatCheck,
           Freeze, SettleFallback, Settle, Fallback, Drop, ProvStop, PsCancel,
           RpCancel, RpSubmit, Finalize, Takes, FinCancel, FinFlatten, Clean,
           Fill, ExchangeEnds, StopTriggers, OperatorCloses, Deadline

LocMove ==
    loc'.entry.stop =>
       \/ loc'.entry = mem.entry
       \/ loc'.entry.id = loc.entry.id /\ loc.entry.stop
       \/ /\ loc'.entry.id = loc.entry.id /\ "pendingstop" \in stops'
          /\ pc \in {"startstop", "undostop", "provstop"}

(* What the handler holds of the fill and of the stop stays true, and it   *)
(* learns of a stop only from memory or by placing it.                     *)
LEMMA FillStep ==
    ASSUME "lag" \notin Faults
    PROVE  SInv /\ Next => FillInv' /\ StopInv' /\ LocMove
  <1> SUFFICES ASSUME SInv, Next PROVE FillInv' /\ StopInv' /\ LocMove
    BY DEF SInv
  <1> USE DEF FilledLabels, FreshLabels
  <1>t. /\ loc \in LocType /\ loc.exec \in Nat /\ (pc # "idle" => loc.entry.id \in Ids)
        /\ bought \in Nat /\ pos \in Nat /\ pos <= bought
        /\ \A i \in Ids : orders[i].executed \in Nat
    BY QAssumption DEF SInv, TypeInv, HandlerType, LocType, ExchangeType
  <1>p. /\ bought' \in Nat /\ pos' \in Nat /\ pos' <= bought'
        /\ \A i \in Ids : orders'[i].executed \in Nat
    BY TypeStep, QAssumption DEF SInv, TypeInv, ExchangeType
  <1>i. FillInv /\ StopInv /\ Cover(loc.entry)
    BY DEF SInv, CoverInv
  <1>g. /\ bought > 0 => bought' > 0
        /\ pos < bought => pos' < bought'
        /\ \A i \in Ids : orders[i].executed > 0 => orders'[i].executed > 0 /\ bought > 0
    <2>1. Grows
      BY GrowStep DEF SInv
    <2>2. pos < bought => pos' < bought'
      BY <2>1, <1>t, <1>p, Sums DEF Grows
    <2>3. bought > 0 => bought' > 0
      BY <2>1, <1>t, <1>p DEF Grows
    <2>4. ASSUME NEW i \in Ids, orders[i].executed > 0
          PROVE  orders'[i].executed > 0 /\ bought > 0
      <3>1. orders[i].executed <= orders'[i].executed
        BY <2>1 DEF Grows
      <3> QED
        BY <3>1, <2>4, <1>t, <1>p DEF SInv, BoughtInv
    <2> QED
      BY <2>2, <2>3, <2>4
  <1>0. Return => FillInv' /\ StopInv' /\ LocMove
    BY DEF Return, Goto, NoLoc, NoEntry, FillInv, StopInv, LocMove
  <1>1. CASE Claim
    BY <1>1, <1>0 DEF Claim, Goto, NoLoc, NoEntry, FillInv, StopInv, LocMove
  <1>2. CASE Persist \/ PostAccepted \/ PostLost
    BY <1>2, <1>0, <1>t, <1>p, <1>i, <1>g
       DEF Persist, PostAccepted, PostLost, SaveOr, Goto, FillInv, StopInv, LocMove
  <1>3. CASE PostRefused
    <2> DEFINE retry == [loc EXCEPT !.entry.id = MarginId, !.retried = TRUE]
               next == [loc EXCEPT !.entry.tries = @ + 1,
                                   !.entry.id = RepriceId(loc.entry.tries + 1)]
    <2>1. retry.entry.stop = loc.entry.stop /\ next.entry.stop = loc.entry.stop
          /\ retry.exec = loc.exec /\ next.exec = loc.exec
      BY <1>t DEF LocType, EntryType
    <2>2. /\ pc = "post"
          /\ \/ Goto("forget", loc) \/ Return
             \/ Goto("persist", retry) \/ Goto("persist", next)
      BY <1>3 DEF PostRefused
    <2> HIDE DEF retry, next
    <2> QED
      BY <2>1, <2>2, <1>0, <1>t, <1>i, <1>g DEF Goto, FillInv, StopInv, LocMove
  <1>4. CASE ReadBack
    BY <1>4, <1>0, <1>t, <1>p, <1>i, <1>g
       DEF ReadBack, Goto, FillInv, StopInv, LocMove, LocType, EntryType
  <1>5. CASE StartStop \/ UndoStop \/ ProvStop
    BY <1>5, <1>0, <1>t, <1>p, <1>i, <1>g
       DEF StartStop, UndoStop, ProvStop, StopPlaced, Goto, FillInv, StopInv, LocMove, LocType, EntryType
  <1>6. CASE StartCancel
    <2> DEFINE e == orders[loc.entry.id].executed
               l == [WithFill(loc) EXCEPT !.exec = e, !.halting = TRUE]
    <2>1. pc = "startcancel" /\ (Goto("startkeep", l) \/ Return)
      BY <1>6 DEF StartCancel
    <2>2. e \in 0..Q
      BY <2>1, <1>t DEF SInv, TypeInv, ExchangeType
    <2> HIDE DEF e
    <2>3. l.exec = e /\ l.entry.id = loc.entry.id /\ l.entry.stop = loc.entry.stop
      BY <2>2, <1>t DEF WithFill, LocType, EntryType
    <2> HIDE DEF l
    <2> QED
      BY <2>1, <2>3, <1>0, <1>t, <1>i, <1>g DEF Goto, FillInv, StopInv, LocMove, e
  <1>7. CASE StartKeep \/ StartSave \/ FirstFill \/ PsKeep
    BY <1>7, <1>0, <1>t, <1>p, <1>i, <1>g
       DEF StartKeep, StartSave, FirstFill, PsKeep, SaveOr, Goto, FillInv, StopInv, LocMove
  <1>8. CASE Undo
    BY <1>8, <1>0, <1>t, <1>p, <1>i, <1>g
       DEF Undo, Goto, FillInv, StopInv, LocMove, LocType, EntryType, Cover
  <1>9. CASE UndoFlatten \/ UndoDrop
    BY <1>9, <1>0, <1>t, <1>p, <1>i, <1>g
       DEF UndoFlatten, UndoDrop, Less, Goto, FillInv, StopInv, LocMove
  <1>10. CASE SyncBegin
    <2>1. pc' = "read" /\ loc'.exec = 0 /\ loc'.entry = mem.entry
      BY <1>10 DEF SyncBegin, Goto, NoLoc
    <2> QED
      BY <2>1 DEF FillInv, StopInv, LocMove
  <1>11. CASE ReadOrder \/ Resubmit
    <2> DEFINE o == orders[loc.entry.id]
               l == [loc EXCEPT !.exec = o.executed, !.done = o.status = "done"]
    <2>1. pc # "idle"
      BY <1>11 DEF ReadOrder, Resubmit
    <2>2. /\ l.exec = o.executed /\ l.entry = loc.entry
          /\ WithFill(l).exec = o.executed
          /\ WithFill(l).entry.id = loc.entry.id
          /\ WithFill(l).entry.stop = loc.entry.stop
      BY <1>t DEF LocType, EntryType, WithFill
    <2>3. \/ Return \/ Goto("resubmit", loc)
          \/ Goto("decide", loc) /\ o.status = "none"
          \/ Goto("firstfill", WithFill(l)) /\ o.executed > 0
          \/ Goto("decide", l)
      BY <1>11 DEF ReadOrder, Resubmit, Observe, Accepted
    <2>4. o.status = "none" => o.executed = 0
      BY <2>1, <1>t DEF SInv, TypeInv, ExchangeType
    <2>5. /\ pc \in {"read", "resubmit"}
      BY <1>11 DEF ReadOrder, Resubmit
    <2>6. loc.entry.stop => o.executed > 0
      BY <1>i DEF Cover
    <2>7. o.executed \in Nat /\ (o.executed > 0 => bought > 0 /\ orders'[loc.entry.id].executed > 0)
      BY <2>1, <1>t, <1>g
    <2> HIDE DEF l, o
    <2> QED
      BY <2>2, <2>3, <2>4, <2>5, <2>6, <2>7, <1>0, <1>t, <1>i, <1>g
         DEF Goto, FillInv, StopInv, LocMove
  <1>12. CASE DecideFlat
    BY <1>12, <1>0, <1>t, <1>p, <1>i, <1>g
       DEF DecideFlat, RoundTrip, Goto, FillInv, StopInv, LocMove, LocType, EntryType
  <1>13. CASE Decide
    <2>0. late \in BOOLEAN
      BY DEF SInv, TypeInv, CountType
    <2>1. PICK inv \in BOOLEAN :
             LET l == [loc EXCEPT !.inv = inv, !.due = late] IN
             IF Concludes(l)
             THEN Goto(IF loc.done THEN "settle" ELSE "freeze", l)
             ELSE IF loc.exec > 0
             THEN Goto(IF loc.entry.stop THEN "tail" ELSE "provstop", l)
             ELSE \/ Goto("tail", l)
                  \/ loc.entry.tries < MaxReprices /\ Goto("rpcancel", l)
      BY <1>13, Zenon DEF Decide
    <2> DEFINE l == [loc EXCEPT !.inv = inv, !.due = late]
    <2>2. l.exec = loc.exec /\ l.entry = loc.entry
      BY <2>0, <1>t DEF LocType
    <2>3. /\ pc = "decide" /\ loc' = l
          /\ \/ pc' \in {"settle", "freeze", "tail"}
             \/ pc' = "provstop" /\ loc.exec > 0
             \/ pc' = "rpcancel" /\ ~(loc.exec > 0)
      BY <1>13, <2>1 DEF Decide, Goto
    <2> HIDE DEF l
    <2> QED
      BY <2>2, <2>3, <1>t, <1>i, <1>g DEF FillInv, StopInv, LocMove
  <1>14. CASE FlatCancel \/ FlatRace \/ FlatCheck
    BY <1>14, <1>0, <1>t, <1>p, <1>i, <1>g
       DEF FlatCancel, FlatRace, FlatCheck, RoundTrip, Larger, Goto, FillInv, StopInv, LocMove, LocType, EntryType
  <1>15. CASE Freeze
    <2> DEFINE e == Larger(loc.exec, orders[loc.entry.id].executed)
               l == [loc EXCEPT !.exec = e, !.entry.filled = @ \/ e > 0]
    <2>1. pc = "freeze" /\ (Goto("settle", l) \/ Return)
      BY <1>15 DEF Freeze
    <2>2. e \in Nat /\ e >= loc.exec /\ (e > 0 => loc.exec > 0 \/ orders[loc.entry.id].executed > 0)
      BY <2>1, <1>t DEF Larger
    <2> HIDE DEF e
    <2>3. l.exec = e /\ l.entry.id = loc.entry.id /\ l.entry.stop = loc.entry.stop
      BY <1>t DEF LocType, EntryType
    <2> HIDE DEF l
    <2> QED
      BY <2>1, <2>2, <2>3, <1>0, <1>t, <1>i, <1>g DEF Goto, FillInv, StopInv, LocMove
  <1>16. CASE SettleFallback \/ Settle
    BY <1>16, <1>0, <1>t, <1>p, <1>i, <1>g
       DEF SettleFallback, Settle, Conclude, Goto, FillInv, StopInv, LocMove
  <1>17. CASE Fallback
    <2>1. PICK e \in 0..Q : (FallbackDone(e) /\ (e > 0 => bought' > 0)) \/ Return
      <3>1. orders[FallbackId].executed \in 0..Q
        BY IdFacts DEF SInv, TypeInv, ExchangeType
      <3>2. \/ Return
            \/ FallbackDone(orders[FallbackId].executed) /\ UNCHANGED bought
            \/ \E e \in 0..Q : FallbackDone(e) /\ bought' = bought + e
        BY <1>17 DEF Fallback
      <3>3. 0 \in 0..Q /\ \A e \in 0..Q : e > 0 => bought + e > 0
        BY <1>t, QAssumption
      <3>4. orders[FallbackId].executed > 0 => bought > 0
        BY <1>g, IdFacts
      <3> QED
        BY <3>1, <3>2, <3>3, <3>4
    <2> DEFINE l == [WithFill(loc) EXCEPT !.exec = e]
    <2>2. l.exec = e /\ l.entry.id = loc.entry.id /\ l.entry.stop = loc.entry.stop
      BY <1>t DEF WithFill, LocType, EntryType
    <2>3. FallbackDone(e) => \/ e = 0 /\ Goto("drop", l)
                             \/ e # 0 /\ (Goto("finalize", l) \/ Goto("fincancel", l))
      BY DEF FallbackDone
    <2>4. pc = "fallback"
      BY <1>17 DEF Fallback
    <2> HIDE DEF l
    <2> QED
      BY <2>1, <2>2, <2>3, <2>4, <1>0, <1>t, <1>i, <1>g DEF Goto, FillInv, StopInv, LocMove
  <1>18. CASE Drop \/ Forget \/ Halt \/ RpSubmit \/ Tail
    BY <1>18, <1>0, <1>t, <1>p, <1>i, <1>g
       DEF Drop, Forget, Halt, RpSubmit, Tail, Goto, FillInv, StopInv, LocMove
  <1>19. CASE PsCancel
    BY <1>19, <1>0, <1>t, <1>p, <1>i, <1>g
       DEF PsCancel, Larger, Goto, FillInv, StopInv, LocMove, LocType, EntryType
  <1>20. CASE RpCancel
    <2> DEFINE e == Larger(loc.exec, orders[loc.entry.id].executed)
               n == loc.entry.tries + 1
               raced == [WithFill(loc) EXCEPT !.exec = e]
               next == [loc EXCEPT !.entry.tries = n, !.entry.id = RepriceId(n)]
    <2>1. /\ pc = "rpcancel"
          /\ \/ Return \/ Goto("rpsubmit", next)
             \/ e > 0 /\ (Goto("finalize", raced) \/ Goto("fincancel", raced))
      BY <1>20 DEF RpCancel, Conclude
    <2>2. e \in 0..Q
      BY <2>1, <1>t, ExecType DEF SInv, TypeInv, LocType
    <2>3. e > 0 => loc.exec > 0 \/ orders[loc.entry.id].executed > 0
      BY <2>1, <1>t DEF Larger
    <2> HIDE DEF e, n
    <2>4. /\ raced.exec = e /\ raced.entry.id = loc.entry.id /\ raced.entry.stop = loc.entry.stop
          /\ next.exec = loc.exec /\ next.entry.stop = loc.entry.stop
      BY <2>2, <1>t DEF WithFill, LocType, EntryType
    <2> HIDE DEF raced, next
    <2> QED
      BY <2>1, <2>2, <2>3, <2>4, <1>0, <1>t, <1>i, <1>g DEF Goto, FillInv, StopInv, LocMove
  <1>21. CASE Finalize
    BY <1>21, <1>0, <1>t, <1>p, <1>i, <1>g
       DEF Finalize, StopPlaced, StopFailed, Goto, FillInv, StopInv, LocMove, Cover, Covered
  <1>22. CASE Takes \/ Promote \/ FinCancel \/ FinFlatten \/ Clean \/ Account
    BY <1>22, <1>0, <1>t, <1>p, <1>i, <1>g
       DEF Takes, Promote, FinCancel, FinFlatten, Clean, Account, FinishErr, Goto, FillInv, StopInv, LocMove, exchange
  <1>23. CASE UNCHANGED <<pc, loc, stops>>
    BY <1>23, <1>t, <1>p, <1>i, <1>g DEF FillInv, StopInv, LocMove
  <1>24. ASSUME NEW s \in stops, StopTriggers(s)
         PROVE  FillInv' /\ StopInv' /\ LocMove
    BY <1>24, <1>t, <1>p, <1>i, <1>g DEF StopTriggers, FillInv, StopInv, LocMove
  <1>25. CASE Environment
    BY <1>25, <1>0, <1>23, <1>24
       DEF Environment, Fill, ExchangeEnds, OperatorCloses, Deadline, Crash, exchange
  <1>26. CASE AccountLate
    BY <1>26, <1>23 DEF AccountLate, exchange
  <1> QED
    BY <1>1, <1>2, <1>3, <1>4, <1>5, <1>6, <1>7, <1>8, <1>9, <1>10, <1>11,
       <1>12, <1>13, <1>14, <1>15, <1>16, <1>17, <1>18, <1>19, <1>20, <1>21,
       <1>22, <1>25, <1>26
       DEF Next, Submission, Progress, Conclusion

(* An entry that records a provisional stop stays covered, in memory, on   *)
(* disk and in hand.                                                       *)
LEMMA CoverStep ==
    ASSUME "lag" \notin Faults
    PROVE  SInv /\ Next => CoverInv'
  <1> SUFFICES ASSUME SInv, Next PROVE CoverInv'
    BY DEF SInv
  <1>1. Covered => Covered'
    BY StopStays DEF SInv
  <1>2. ASSUME NEW i \in Ids, orders[i].executed > 0 PROVE orders'[i].executed > 0
    <2>1. orders[i].executed <= orders'[i].executed
      BY GrowStep DEF SInv, Grows
    <2>2. orders[i].executed \in Nat /\ orders'[i].executed \in Nat
      BY TypeStep, QAssumption DEF SInv, TypeInv, ExchangeType
    <2> QED
      BY <1>2, <2>1, <2>2
  <1> DEFINE Kept(e) == e.stop => e.id \in Ids /\ orders'[e.id].executed > 0 /\ Covered'
  <1>3. Kept(mem.entry) /\ Kept(disk.entry) /\ Kept(loc.entry)
    BY <1>1, <1>2 DEF SInv, CoverInv, Cover
  <1>4. Kept(NoEntry)
    BY DEF NoEntry
  <1>5. Kept(mem'.entry) /\ Kept(disk'.entry)
    <2> HIDE DEF Kept
    <2> QED
      BY <1>3, <1>4, StatesMove DEF SInv
  <1>6. Kept(loc'.entry)
    <2>1. CASE loc'.entry = mem.entry
      BY <2>1, <1>3
    <2>2. CASE loc'.entry.id = loc.entry.id /\ loc.entry.stop
      BY <2>2, <1>3
    <2>3. CASE /\ loc'.entry.id = loc.entry.id /\ "pendingstop" \in stops'
               /\ pc \in {"startstop", "undostop", "provstop"}
      <3>1. loc.entry.id \in Ids /\ orders[loc.entry.id].executed > 0
        BY <2>3 DEF SInv, TypeInv, HandlerType, FillInv, FilledLabels, FreshLabels
      <3> QED
        BY <2>3, <3>1, <1>2 DEF Covered
    <2> QED
      BY <2>1, <2>2, <2>3, FillStep DEF LocMove
  <1> QED
    BY <1>5, <1>6 DEF CoverInv, Cover

(* The invariant behind StopBeforePromotion holds initially,               *)
LEMMA SInvInit == Init => SInv
  <1> SUFFICES ASSUME Init PROVE SInv
    OBVIOUS
  <1>1. TypeInv
    BY TypeInit
  <1>2. BoughtInv
    BY DEF Init, BoughtInv
  <1>3. FillInv /\ StopInv
    BY DEF Init, NoLoc, FillInv, StopInv, FilledLabels, FreshLabels
  <1>4. CoverInv /\ ManagedInv
    BY DEF Init, NoLoc, NoEntry, CoverInv, Cover, ManagedInv
  <1> QED
    BY <1>1, <1>2, <1>3, <1>4 DEF SInv

(* and every step preserves it.                                            *)
LEMMA SInvStep ==
    ASSUME "lag" \notin Faults
    PROVE  SInv /\ [Next]_vars => SInv'
  <1>1. CASE Next
    BY <1>1, TypeStep, GrowStep, FillStep, CoverStep, StatesMove DEF SInv
  <1>2. CASE UNCHANGED vars
    BY <1>2, TypeStep
       DEF vars, SInv, BoughtInv, FillInv, CoverInv, Cover, Covered, StopInv,
           ManagedInv
  <1> QED
    BY <1>1, <1>2

(* finalize_pending_entry hands a position to management only under a      *)
(* close-all stop, or after part of what was bought has been closed again  *)
(* (4972-5175).  Assumed: the account read does not lag behind a fill.     *)
(* Saves may fail, answers be lost, orders be repriced or taken by the     *)
(* fallback, and the process die anywhere.                                 *)
THEOREM StopBeforePromotion ==
    ASSUME "lag" \notin Faults
    PROVE  Spec => PromotedUnderStop
  <1>1. Init => SInv
    BY SInvInit
  <1>2. SInv /\ [Next]_vars => SInv'
    BY SInvStep
  <1>3. SInv /\ [Next]_vars => [~mem.managed /\ mem'.managed => stops # {} \/ pos < bought]_vars
    <2> SUFFICES ASSUME SInv, Next, ~mem.managed, mem'.managed
                 PROVE  stops # {} \/ pos < bought
      OBVIOUS
    <2>1. pc = "promote" \/ mem'.managed = disk.managed
      BY StatesMove DEF SInv
    <2>2. pc = "promote"
      BY <2>1 DEF SInv, ManagedInv
    <2> QED
      BY <2>2 DEF SInv, StopInv
  <1> QED
    BY <1>1, <1>2, <1>3, PTL DEF Spec, PromotedUnderStop

=============================================================================
