-------------------------- MODULE TradingExposure --------------------------
(***************************************************************************)
(* Trading implements Exposure, for every value of the constants: no       *)
(* candidate is traded twice unless the write of its claim failed, and     *)
(* what the executor keeps books of is one per symbol and within the slots.*)
(* And a market fill left naked stops the entries.                         *)
(***************************************************************************)
EXTENDS TradingSafety, FiniteSetTheorems

(* OnePerSymbol and WithinSlots of Exposure, for the candidates of br.     *)
Quick(br, S) == {c \in S : br[c].recipe = "fast"}
Fits(br, S) ==
    /\ \A c, d \in S : br[c].symbol = br[d].symbol => c = d
    /\ Cardinality(Quick(br, S)) <= 1
    /\ Cardinality(S \ Quick(br, S)) <= MaxPositions

(***************************************************************************)
(* What the steps rely on beside the books.  What is owned, and the order  *)
(* being placed with it, fits, on disk too: a crash brings the disk back.  *)
(* What was entered, or may be, was claimed, on disk too, unless the write *)
(* failed.                                                                 *)
(* What the disk still owns and the memory does not is closed.  A restart  *)
(* found a position of every exposure it has no claim of, so the account   *)
(* shows its symbol.                                                       *)
(***************************************************************************)
Guarded ==
    /\ Fits(brief, Owners(books) \cup cur) /\ Fits(brief, Owners(disk))
    /\ live \subseteq entered
    /\ entered \subseteq books.seen \cup unclaimed
    /\ entered \cup cur \cup Owners(books) \subseteq disk.seen \cup unclaimed
    /\ disk.seen \subseteq books.seen
    /\ Owners(disk) \cap live \subseteq Owners(books)
    /\ cur \cap Owners(disk) = {}
    /\ pc = "claimed" => cur \cap entered \subseteq unclaimed /\ cur \cap live = {}
    /\ pc # "down" => \A d \in live \ books.seen : SymbolOf(d) \in account

(* Sets of candidates have a cardinality.                                  *)
LEMMA FiniteParts ==
    ASSUME NEW S \in SUBSET Candidates
    PROVE  IsFiniteSet(S) /\ Cardinality(S) \in Nat
BY TradingAssumption, FS_Subset, FS_CardinalityType

(* What fits the slots and symbols still fits with fewer in it.            *)
LEMMA FitsSubset ==
    ASSUME NEW br, NEW S \in SUBSET Candidates, NEW T \in SUBSET S, Fits(br, S)
    PROVE  Fits(br, T)
  <1>1. /\ Quick(br, T) \subseteq Quick(br, S)
        /\ T \ Quick(br, T) \subseteq S \ Quick(br, S)
        /\ Quick(br, S) \in SUBSET Candidates
        /\ S \ Quick(br, S) \in SUBSET Candidates
    BY DEF Quick
  <1>2. /\ IsFiniteSet(Quick(br, S)) /\ Cardinality(Quick(br, S)) \in Nat
        /\ IsFiniteSet(S \ Quick(br, S))
        /\ Cardinality(S \ Quick(br, S)) \in Nat
    BY <1>1, FiniteParts
  <1>3. /\ Cardinality(Quick(br, T)) <= Cardinality(Quick(br, S))
        /\ Cardinality(T \ Quick(br, T)) <= Cardinality(S \ Quick(br, S))
        /\ Cardinality(Quick(br, T)) \in Nat
        /\ Cardinality(T \ Quick(br, T)) \in Nat
    BY <1>1, <1>2, FS_Subset, FS_CardinalityType
  <1>4. MaxPositions \in Nat
    BY TradingAssumption
  <1> QED
    BY <1>2, <1>3, <1>4 DEF Fits

(* Exposure counts as Trading does.                                        *)
LEMMA SameCount ==
    ASSUME NEW S
    PROVE  Abstract!Cardinality(S) = Cardinality(S)
BY DEF Abstract!Cardinality, Cardinality

(* Fitting here is fitting in Exposure.                                    *)
LEMMA FitsAbstractly ==
    ASSUME NEW S \in SUBSET Candidates, Fits(brief, S)
    PROVE  Abstract!OnePerSymbol(S) /\ Abstract!WithinSlots(S)
  <1>1. /\ S \cap Abstract!Fast = Quick(brief, S)
        /\ S \ Abstract!Fast = S \ Quick(brief, S)
    BY DEF Abstract!Fast, Quick
  <1>2. /\ Abstract!Cardinality(S \cap Abstract!Fast)
             = Cardinality(Quick(brief, S))
        /\ Abstract!Cardinality(S \ Abstract!Fast)
             = Cardinality(S \ Quick(brief, S))
    BY <1>1, SameCount, Zenon
  <1>3. Abstract!OnePerSymbol(S)
    BY DEF Fits, Abstract!OnePerSymbol
  <1>4. Abstract!WithinSlots(S)
    BY <1>2, Zenon DEF Fits, Abstract!WithinSlots
  <1> QED
    BY <1>3, <1>4

(* The books own candidates,                                               *)
LEMMA OwnersType == IInv => Owners(books) \subseteq Candidates /\ Owners(disk) \subseteq Candidates
BY DEF IInv, TypeOK, Books, Owners

(* and a candidate is being placed.                                        *)
LEMMA CurType == IInv => cur \subseteq Candidates
BY DEF IInv, TypeOK

-----------------------------------------------------------------------------
(* A claim fits beside what is owned.                                      *)

(* A candidate that is not blocked fits in.                                *)
LEMMA ClaimFits ==
    ASSUME IInv, NEW c \in Candidates, Fits(brief, Owners(books)), Claim(c)
    PROVE  Fits(brief, Owners(books) \cup {c})
  <1> DEFINE S == Owners(books)
             T == S \cup {c}
  <1>0. S \in SUBSET Candidates /\ T \in SUBSET Candidates
    BY OwnersType
  <1>1. SymbolOf(c) \notin SymbolsOf(S) /\ ~SlotFull(c)
    BY DEF Claim, Blocked
  <1>2. \A d, e \in T : brief[d].symbol = brief[e].symbol => d = e
    BY <1>1 DEF Fits, SymbolsOf, SymbolOf
  <1>3. OfRecipe(S, "fast") = Quick(brief, S)
    BY DEF OfRecipe, Quick
  <1> HIDE DEF S
  <1>4. /\ IsFiniteSet(Quick(brief, S)) /\ Cardinality(Quick(brief, S)) \in Nat
        /\ IsFiniteSet(S \ Quick(brief, S))
        /\ Cardinality(S \ Quick(brief, S)) \in Nat
    <2>1. Quick(brief, S) \in SUBSET Candidates /\ S \ Quick(brief, S) \in SUBSET Candidates
      BY <1>0 DEF Quick
    <2> QED
      BY <2>1, FiniteParts
  <1>5. CASE brief[c].recipe = "fast"
    <2>1. ~(Cardinality(Quick(brief, S)) >= 1)
      BY <1>1, <1>3, <1>5 DEF SlotFull, FastActive, S
    <2>2. Cardinality(Quick(brief, S)) = 0
      BY <1>4, <2>1
    <2>3. Quick(brief, S) = {}
      BY <1>4, <2>2, FS_EmptySet
    <2>4. Quick(brief, T) = {c} /\ T \ Quick(brief, T) = S \ Quick(brief, S)
      BY <1>5, <2>3 DEF Quick
    <2>5. Cardinality({c}) = 1
      BY FS_Singleton
    <2>6. /\ Cardinality(Quick(brief, T)) = 1
          /\ Cardinality(T \ Quick(brief, T))
               = Cardinality(S \ Quick(brief, S))
      BY <2>4, <2>5, Zenon
    <2> QED
      BY <1>2, <2>6 DEF Fits, S
  <1>6. CASE brief[c].recipe # "fast"
    <2>1. ~(Cardinality(S \ Quick(brief, S)) + Unattributed >= MaxPositions)
      BY <1>1, <1>3, <1>6 DEF SlotFull, StandardActive, S
    <2>2. Unattributed \in Nat
      <3>1. Cardinality(account) \in Nat /\ Cardinality(books.held) \in Nat
        <4>1. books.held \in SUBSET Candidates /\ account \in SUBSET Symbols
          BY DEF IInv, TypeOK, Books
        <4>2. IsFiniteSet(account)
          BY <4>1, TradingAssumption, FS_Subset
        <4> QED
          BY <4>1, <4>2, FiniteParts, FS_CardinalityType
      <3> QED
        BY <3>1 DEF Unattributed
    <2>3. Cardinality(S \ Quick(brief, S)) + 1 <= MaxPositions
      BY <1>4, <2>1, <2>2, TradingAssumption
    <2>4. /\ Quick(brief, T) = Quick(brief, S)
          /\ T \ Quick(brief, T) = (S \ Quick(brief, S)) \cup {c}
      BY <1>6 DEF Quick
    <2>5. Cardinality((S \ Quick(brief, S)) \cup {c})
              \in {Cardinality(S \ Quick(brief, S)),
                   Cardinality(S \ Quick(brief, S)) + 1}
      BY <1>4, FS_AddElement
    <2>6. MaxPositions \in Nat
      BY TradingAssumption
    <2>7. /\ Cardinality(T \ Quick(brief, T))
               = Cardinality((S \ Quick(brief, S)) \cup {c})
          /\ Cardinality(Quick(brief, T)) = Cardinality(Quick(brief, S))
      BY <2>4, Zenon
    <2>8. Cardinality(T \ Quick(brief, T)) <= MaxPositions
      BY <1>4, <2>3, <2>5, <2>6, <2>7
    <2> QED
      BY <1>2, <2>7, <2>8 DEF Fits, S
  <1> QED
    BY <1>5, <1>6

-----------------------------------------------------------------------------

(***************************************************************************)
(* A step that enters nothing: nothing new is owned or placed, what is not *)
(* owned any more is closed, and the disk stays or takes the books, or the *)
(* order being placed with them.                                           *)
(***************************************************************************)
Quiet ==
    /\ UNCHANGED <<brief, entered, unclaimed>>
    /\ books.seen \subseteq books'.seen
    /\ Owners(books') \cup cur' \subseteq Owners(books) \cup cur
    /\ \/ disk' = disk
       \/ disk'.seen = books'.seen /\ Owners(disk') = Owners(books')
       \/ /\ disk'.seen = books'.seen /\ Owners(disk') = Owners(books') \cup cur
          /\ cur' = {} /\ cur \cap live' = {}
    /\ live' \subseteq live
    /\ live' \cap Owners(books) \subseteq Owners(books')
    /\ cur' \subseteq cur /\ cur' \cap Owners(books') = {}
    /\ pc' = "claimed" /\ cur' # {} => pc = "claimed"
    /\ pc' # "down" => \A d \in live' \ books'.seen : SymbolOf(d) \in account'

(* A quiet step keeps the guard.                                           *)
LEMMA QuietGuarded ==
    ASSUME IInv, Guarded, Quiet
    PROVE  Guarded'
  <1>0. cur \subseteq books.seen /\ Owners(books) \subseteq books.seen
    BY DEF IInv, Ledger, Sound, BooksAgreeOn, Owners
  <1>1. Fits(brief', Owners(books') \cup cur') /\ Fits(brief', Owners(disk'))
    <2>1. Owners(books) \cup cur \in SUBSET Candidates
      BY OwnersType, CurType
    <2>2. /\ Fits(brief, Owners(books') \cup cur')
          /\ Fits(brief, Owners(books'))
      BY <2>1, FitsSubset DEF Guarded, Quiet
    <2>3. Fits(brief, Owners(books') \cup cur)
      <3>1. Owners(books') \cup cur \in SUBSET (Owners(books) \cup cur)
        BY DEF Quiet
      <3> QED
        BY <2>1, <3>1, FitsSubset DEF Guarded
    <2> QED
      BY <2>2, <2>3 DEF Guarded, Quiet
  <1>2. SymbolOf(1)' = SymbolOf(1) /\ \A d : brief'[d] = brief[d]
    BY DEF Quiet, SymbolOf
  <1>3. /\ live' \subseteq entered'
        /\ entered' \subseteq books'.seen \cup unclaimed'
        /\ entered' \cup cur' \cup Owners(books')
              \subseteq disk'.seen \cup unclaimed'
        /\ disk'.seen \subseteq books'.seen
        /\ Owners(disk') \cap live' \subseteq Owners(books')
        /\ cur' \cap Owners(disk') = {}
    <2>1. CASE disk' = disk
      BY <2>1 DEF Guarded, Quiet
    <2>2. CASE /\ disk'.seen = books'.seen
               /\ \/ Owners(disk') = Owners(books')
                  \/ /\ Owners(disk') = Owners(books') \cup cur
                     /\ cur' = {} /\ cur \cap live' = {}
      <3>1. entered' \subseteq books'.seen \cup unclaimed'
        BY DEF Guarded, Quiet
      <3>2. /\ cur' \cup Owners(books') \subseteq books'.seen
            /\ cur' \cap Owners(books') = {}
        BY <1>0 DEF Quiet
      <3>3. live' \subseteq entered'
        BY DEF Guarded, Quiet
      <3> QED
        BY <2>2, <3>1, <3>2, <3>3
    <2> QED
      BY <2>1, <2>2 DEF Quiet
  <1>4. /\ pc' = "claimed" => /\ cur' \cap entered' \subseteq unclaimed'
                              /\ cur' \cap live' = {}
        /\ pc' # "down" =>
              \A d \in live' \ books'.seen : brief'[d].symbol \in account'
    BY DEF Guarded, Quiet, SymbolOf
  <1> QED
    BY <1>1, <1>3, <1>4 DEF Guarded, SymbolOf

(* In Exposure it ends exposures, or loses track of some, or stutters.     *)
LEMMA QuietMaps ==
    ASSUME IInv, Guarded, Quiet,
           live' = live \/ live' \cap cur \subseteq Owners(books') \cup cur'
    PROVE  [Abstract!Next]_(Abstract!vars)
  <1> DEFINE gone == live \ live'
  <1>1. CASE gone # {}
    <2>1. Known' = Known \ gone
      BY <1>1 DEF Quiet, Known
    <2>2. \A c \in gone : c \in Candidates /\ Life[c] = "open"
      BY DEF IInv, TypeOK, Life
    <2>3. Life' = [c \in Candidates |-> IF c \in gone THEN "over" ELSE Life[c]]
      BY DEF Guarded, Quiet, Life
    <2>4. gone \in SUBSET Candidates
      BY <2>2
    <2>5. Abstract!End(gone)
      BY <1>1, <2>1, <2>2, <2>3 DEF Abstract!End, Quiet
    <2> QED
      BY <2>4, <2>5 DEF Abstract!Next
  <1>2. CASE live' = live
    <2> DEFINE lost == Known \ Known'
    <2>1. Life' = Life
      BY <1>2 DEF Quiet, Life
    <2>2. Known' \subseteq Known
      BY <1>2 DEF Quiet, Known
    <2>3. CASE lost = {}
      BY <2>1, <2>2, <2>3 DEF Abstract!vars, Quiet
    <2>4. CASE lost # {}
      <3>1. Abstract!Lose(lost)
        BY <2>1, <2>2, <2>4 DEF Abstract!Lose, Quiet
      <3>2. lost \in SUBSET Candidates
        BY DEF IInv, TypeOK, Known
      <3> QED
        BY <3>1, <3>2 DEF Abstract!Next
    <2> QED
      BY <2>3, <2>4
  <1> QED
    BY <1>1, <1>2 DEF Quiet

(* What was owned or placed and is neither, nor live, is no loss.          *)
Kept == live' = live \/ live' \cap cur \subseteq Owners(books') \cup cur'

-----------------------------------------------------------------------------
(* The quiet steps.                                                        *)

(* A read shows every exposure but working orders, and those are claimed.  *)
LEMMA ReadSees ==
    ASSUME NEW b, Sound(b), NEW S, NEW a \in Readings(b, S)
    PROVE  /\ \A d \in S \ b.pending : SymbolOf(d) \in a
           /\ \A d \in S \ b.seen : SymbolOf(d) \in a
  <1>1. \A d \in S \ b.pending : SymbolOf(d) \in a
    BY DEF Readings, SymbolsOf
  <1>2. b.pending \subseteq b.seen
    BY DEF Sound, BooksAgreeOn
  <1> QED
    BY <1>1, <1>2

(* An exit is quiet,                                                       *)
LEMMA ExitQuiet ==
    ASSUME IInv, Guarded, NEW s \in Symbols, Exit(s)
    PROVE  Quiet /\ Kept
  <1>1. /\ UNCHANGED <<brief, books, disk, account, pc, cur, entered, unclaimed>>
        /\ live' \subseteq live
    BY DEF Exit, frame, history
  <1>2. cur \cap Owners(books) = {}
    BY DEF IInv, Ledger, Fresh
  <1> QED
    BY <1>1, <1>2 DEF Quiet, Kept, Guarded

(* What a reconciliation no longer owns is not live, and what the account  *)
(* does not show was claimed.                                              *)
LEMMA ReconciledQuiet ==
    ASSUME IInv, Guarded, NEW seen \in Readings(books, live),
           NEW result \in {"ok", "failed", "down"},
           Reconciled(seen, result), cur = {}, cur' = {},
           UNCHANGED <<brief, entered, unclaimed>>,
           result = "down" => pc = "down" /\ pc' = "down",
           result = "failed" => pc # "down"
    PROVE  Quiet /\ Kept
  <1> DEFINE gone == {c \in books.held : SymbolOf(c) \notin seen}
  <1>1. PICK X \in SUBSET books.pending : Synced(seen, X, result)
    BY ReconciledSound DEF IInv, Ledger
  <1>2. gone \cap live = {}
    <2>1. books.held \cap books.pending = {}
      BY DEF IInv, Ledger, Sound, BooksAgreeOn
    <2> QED
      BY <2>1, ReadSees DEF IInv, Ledger
  <1> HIDE DEF gone
  <1>3. PICK b, d :
            /\ b \in {books', books} /\ d \in {disk', disk}
            /\ live' = live \ X
            /\ disk' = disk \/ Leaves(books, gone \cup X, disk')
            /\ IF result = "down" THEN books' = disk'
               ELSE Leaves(books, gone \cup X, books')
            /\ \/ account' = seen
               \/ result # "ok" /\ account' = account
               \/ \E a : /\ Leaves(books, gone \cup X, a)
                         /\ account' \in Readings(a, live')
    BY <1>1 DEF Synced, gone
  <1>4. books' = books \/ Leaves(books, gone \cup X, books')
    BY <1>3 DEF IInv, Ledger
  <1>5. /\ books'.seen = books.seen /\ Owners(books') \subseteq Owners(books)
        /\ live' \subseteq live
        /\ live' \cap Owners(books) \subseteq Owners(books')
    BY <1>2, <1>3, <1>4 DEF Leaves
  <1>6. \/ disk' = disk
        \/ disk'.seen = books'.seen /\ Owners(disk') = Owners(books')
    BY <1>3 DEF Leaves
  <1>7. pc' # "down" => \A c \in live' \ books'.seen : SymbolOf(c) \in account'
    <2>1. \A c \in live \ books.seen : SymbolOf(c) \in seen
      BY ReadSees DEF IInv, Ledger
    <2>2. ASSUME NEW a, Leaves(books, gone \cup X, a),
                 account' \in Readings(a, live')
          PROVE  \A c \in live' \ books'.seen : SymbolOf(c) \in account'
      BY <1>5, <2>2, ReadSees DEF Leaves
    <2>3. CASE result = "failed" /\ account' = account
      BY <1>5, <2>3 DEF Guarded
    <2>4. CASE result = "down"
      BY <2>4
    <2> QED
      BY <1>3, <1>5, <2>1, <2>2, <2>3, <2>4
  <1> QED
    BY <1>5, <1>6, <1>7 DEF Quiet, Kept

(* a sync is,                                                              *)
LEMMA SyncQuiet ==
    ASSUME IInv, Guarded, Sync
    PROVE  Quiet /\ Kept
  <1>1. /\ task' \in {"ok", "failed"} /\ pc \in LockFree
        /\ UNCHANGED <<brief, pc, cur, entered, unclaimed>>
    BY DEF Sync, frame
  <1>2. cur = {} /\ pc # "down"
    BY <1>1, Parts DEF LoopOK, LockFree, Placing
  <1>3. PICK seen \in Readings(books, live) : Reconciled(seen, task')
    BY DEF Sync
  <1> QED
    BY <1>1, <1>2, <1>3, ReconciledQuiet

(* a restart is, whether it succeeds or not,                               *)
LEMMA ConnectQuiet ==
    ASSUME IInv, Guarded, Connect \/ ConnectFails
    PROVE  Quiet /\ Kept
  <1>1. /\ cur = {} /\ UNCHANGED <<brief, cur, entered, unclaimed>>
        /\ pc = "down"
        /\ (ConnectFails => pc' = "down")
    BY Parts DEF Connect, ConnectFails, LoopOK, Placing, frame
  <1>2. PICK seen \in Readings(books, live), result \in {"ok", "down"} :
            Reconciled(seen, result) /\ (result = "down" => ConnectFails)
    BY DEF Connect, ConnectFails
  <1> QED
    BY <1>1, <1>2, ReconciledQuiet

(* The steps that leave what is owned and open as it is.                   *)
LEMMA IdleQuiet ==
    ASSUME IInv, Guarded, cur' = {},
           UNCHANGED <<brief, live, account, entered, unclaimed>>,
           books.seen \subseteq books'.seen, Owners(books') = Owners(books),
           disk' = disk \/ disk' = books', pc # "down"
    PROVE  Quiet /\ Kept
BY DEF Quiet, Kept, Guarded

(* the frame loop and the refused syncs are,                               *)
LEMMA LoopQuiet ==
    ASSUME IInv, Guarded,
           SyncRefused \/ StoreHealth \/ FrameStarts \/ FrameFails \/ Begin
    PROVE  Quiet /\ Kept
  <1>1. /\ UNCHANGED <<brief, live, books, account, cur, entered, unclaimed>>
        /\ disk' \in {disk, books}
        /\ pc' = pc \/ (pc' # "claimed" /\ pc # "down")
    BY DEF SyncRefused, StoreHealth, FrameStarts, FrameFails, Begin, frame,
           history
  <1>2. cur \cap Owners(books) = {}
    BY DEF IInv, Ledger, Fresh
  <1> QED
    BY <1>1, <1>2 DEF Quiet, Kept, Guarded

(* an evaluation is,                                                       *)
LEMMA EvaluateQuiet ==
    ASSUME IInv, Guarded, Evaluate
    PROVE  Quiet /\ Kept
  <1>1. cur = {} /\ cur' = {} /\ pc # "down"
    BY Parts DEF Evaluate, LoopOK, Placing
  <1>2. Leaves(books, {}, books')
    BY CampaignSound DEF Evaluate, IInv, Ledger
  <1>3. disk' = disk \/ disk' = books'
    BY DEF Evaluate, SaveTried, Saved
  <1>4. UNCHANGED <<brief, live, account, entered, unclaimed>>
    BY DEF Evaluate, history
  <1> QED
    BY <1>1, <1>2, <1>3, <1>4, IdleQuiet DEF Leaves

(* a skipped plan,                                                         *)
LEMMA SkipQuiet ==
    ASSUME IInv, Guarded, NEW c \in Candidates, Skip(c)
    PROVE  Quiet /\ Kept
BY IdleQuiet DEF Skip, Done, history

(* a rejected one,                                                         *)
LEMMA RejectQuiet ==
    ASSUME IInv, Guarded, NEW c \in Candidates, Reject(c)
    PROVE  Quiet /\ Kept
  <1>1. Owners(books') = Owners(books) /\ books.seen \subseteq books'.seen
    BY RejectedSound
  <1>2. /\ cur' = {} /\ UNCHANGED <<brief, live, account, entered, unclaimed>>
        /\ disk' = disk /\ pc # "down"
    BY DEF Reject, Done, history
  <1> QED
    BY <1>1, <1>2, IdleQuiet

(* an entry superseded,                                                    *)
LEMMA SupersedeQuiet ==
    ASSUME IInv, Guarded, NEW c \in Candidates, Supersede(c)
    PROVE  Quiet /\ Kept
  <1>1. /\ cur = {} /\ pc = "applying"
        /\ UNCHANGED <<brief, account, entered, unclaimed>>
    BY ApplyingIdle DEF Supersede
  <1>2. CASE UNCHANGED <<books, live, disk, faults>> /\ Done(plans \ {c})
    BY <1>1, <1>2, IdleQuiet DEF Done
  <1>3. CASE \E d \in books.pending :
                /\ Leaves(books, {d}, books') /\ live' = live \ {d}
                /\ SaveTried(books')
                /\ UNCHANGED <<plans, cur, pc>> \/ Done(plans \ {c})
    <2>1. PICK d \in books.pending :
                /\ Leaves(books, {d}, books') /\ live' = live \ {d}
                /\ SaveTried(books')
                /\ UNCHANGED <<plans, cur, pc>> \/ Done(plans \ {c})
      BY <1>3
    <2>2. cur' = {} /\ (disk' = disk \/ disk' = books')
      BY <1>1, <2>1 DEF Done, SaveTried, Saved
    <2> QED
      BY <1>1, <2>1, <2>2 DEF Quiet, Kept, Leaves, Guarded
  <1> QED
    BY <1>2, <1>3, SupersededSound

(* An order that is given up, whatever it wrote down.                      *)
LEMMA RefusedQuiet ==
    ASSUME IInv, Guarded, NEW c \in Candidates, Refused(c) \/ Stranded(c)
    PROVE  Quiet /\ Kept
  <1>1. /\ cur = {c} /\ cur' = {} /\ pc = "claimed"
        /\ UNCHANGED <<brief, live, entered, unclaimed>>
        /\ account' \in {account} \cup Readings(books, live)
    BY DEF Refused, Stranded, Done, history
  <1>2. /\ Written(c).seen = books.seen
        /\ Owners(Written(c)) = Owners(books) \cup {c}
        /\ Attempted(c).seen = books.seen /\ Owners(Attempted(c)) = Owners(books)
    BY <1>1, PlacingFacts, WrittenSound DEF Leaves
  <1>3. \/ /\ books' \in {books, Attempted(c)}
           /\ disk' \in {disk, books', Written(c)}
        \/ books' = Written(c) /\ disk' \in {disk, Written(c)}
    BY DEF Refused, Stranded, SaveTried, Saved
  <1>4. \A d \in live \ books.seen : SymbolOf(d) \in account'
    BY <1>1, ReadSees DEF Guarded, IInv, Ledger
  <1>5. c \notin live
    BY <1>1 DEF Guarded
  <1> QED
    BY <1>1, <1>2, <1>3, <1>4, <1>5 DEF Quiet, Kept

(* a bracket,                                                              *)
LEMMA BracketedQuiet ==
    ASSUME IInv, Guarded, NEW c \in Candidates, Bracketed(c)
    PROVE  Quiet /\ Kept
  <1>1. /\ books'.seen = books.seen /\ Owners(books') = Owners(books) \cup {c}
        /\ cur = {c} /\ pc = "filled"
    BY PlacingFacts, PromotedSound DEF Bracketed
  <1>2. /\ cur' = {} /\ UNCHANGED <<brief, live, account, entered, unclaimed>>
        /\ disk' = disk \/ disk' = books'
    BY DEF Bracketed, Done, SaveTried, Saved, history
  <1> QED
    BY <1>1, <1>2 DEF Quiet, Kept, Guarded

(* After a failed bracket, whatever is recorded.                           *)
LEMMA FailedQuiet ==
    ASSUME IInv, Guarded, NEW c \in Candidates,
           cur = {c}, cur' = {}, pc # "down", Leaves(books, {}, books'),
           UNCHANGED <<brief, account, entered, unclaimed>>,
           disk' = disk \/ disk' = books' \/ Leaves(books, {}, disk'),
           live' = live \/ live' = live \ {c}
    PROVE  Quiet /\ Kept
  <1>1. c \notin Owners(books)
    BY PlacingFacts DEF Fresh
  <1>2. disk' = disk \/ (Owners(disk') = Owners(books') /\ disk'.seen = books'.seen)
    BY DEF Leaves
  <1> QED
    BY <1>1, <1>2 DEF Quiet, Kept, Guarded, Leaves

(* a flattened fill,                                                       *)
LEMMA FlattenedQuiet ==
    ASSUME IInv, Guarded, NEW c \in Candidates, Flattened(c)
    PROVE  Quiet /\ Kept
  <1>1. PICK told \in BOOLEAN : books' \in Recorded(books, c, TRUE, told)
    BY DEF Flattened
  <1>2. Leaves(books, {}, books')
    BY <1>1, BracketRecorded DEF Flattened
  <1>3. /\ cur = {c} /\ cur' = {} /\ pc # "down" /\ live' = live \ {c}
        /\ UNCHANGED <<brief, account, entered, unclaimed>>
        /\ disk' = disk \/ disk' = books'
    BY DEF Flattened, Done, SaveTried, Saved, history
  <1> QED
    BY <1>2, <1>3, FailedQuiet

(* a failed protection,                                                    *)
LEMMA ProtectionFailedQuiet ==
    ASSUME IInv, Guarded, NEW c \in Candidates, ProtectionFailed(c)
    PROVE  Quiet /\ Kept
  <1>1. Leaves(books, {}, books')
    BY FailedSound
  <1>2. /\ cur = {c} /\ cur' = {} /\ pc # "down"
        /\ live' = live \/ live' = live \ {c}
        /\ UNCHANGED <<brief, account, entered, unclaimed>>
    BY DEF ProtectionFailed, Done
  <1>3. disk' = disk \/ disk' = books' \/ Leaves(books, {}, disk')
    BY FailedSound DEF SaveTried, Saved
  <1> QED
    BY <1>1, <1>2, <1>3, FailedQuiet

(* a forgotten order,                                                      *)
LEMMA ForgottenQuiet ==
    ASSUME IInv, Guarded, NEW c \in Candidates, Forgotten(c)
    PROVE  Quiet /\ Kept
  <1>1. Leaves(books, {}, books')
    BY BracketRecorded DEF Forgotten
  <1>2. /\ cur = {c} /\ cur' = {} /\ pc # "down" /\ live' = live
        /\ UNCHANGED <<brief, account, entered, unclaimed>>
        /\ disk' = disk \/ disk' = books'
    BY DEF Forgotten, Done, SaveTried, Saved, history
  <1> QED
    BY <1>1, <1>2, FailedQuiet

(* and a manual close.                                                     *)
LEMMA ManualQuiet ==
    ASSUME IInv, Guarded, NEW c \in Candidates, ManualClose(c)
    PROVE  Quiet /\ Kept
  <1>1. books'.seen = books.seen /\ Owners(books') = Owners(books)
    BY ManualSound DEF Leaves
  <1>2. /\ cur = {} /\ cur' = {} /\ pc = "idle" /\ pc' = "idle"
        /\ live' \subseteq live
        /\ UNCHANGED <<brief, account, entered, unclaimed>>
        /\ disk' = disk \/ disk' = books'
    BY Parts DEF ManualClose, LoopOK, Placing, frame, history, SaveTried, Saved
  <1> QED
    BY <1>1, <1>2 DEF Quiet, Kept, Guarded

-----------------------------------------------------------------------------
(* The steps that are not quiet.                                           *)

(* A claim was never open before: were it, the account or the books would  *)
(* have shown its symbol.                                                  *)
LEMMA ClaimUnopened ==
    ASSUME IInv, Guarded, NEW c \in Candidates, Claim(c)
    PROVE  /\ c \notin books.seen /\ c \notin live
           /\ c \notin Owners(books) \cup Owners(disk)
           /\ c \in entered => c \in unclaimed
           /\ cur = {}
  <1>1. c \notin books.seen /\ cur = {}
    BY ApplyingIdle DEF Claim, IInv, Ledger
  <1>2. c \notin live
    BY <1>1 DEF Claim, Blocked, Guarded
  <1>3. Owners(books) \subseteq books.seen /\ Owners(disk) \subseteq disk.seen
    BY DEF IInv, Ledger, Sound, BooksAgreeOn, Owners
  <1> QED
    BY <1>1, <1>2, <1>3 DEF Guarded

(* A claim keeps the guard and is a stutter, or excuses its candidate.     *)
LEMMA ClaimGuarded ==
    ASSUME IInv, Guarded, NEW c \in Candidates, Claim(c)
    PROVE  /\ Guarded'
           /\ [Abstract!Next]_(Abstract!vars)
  <1>1. /\ UNCHANGED <<brief, live, account, entered>>
        /\ pc' = "claimed" /\ cur' = {c}
        /\ \/ disk' = books' /\ UNCHANGED unclaimed
           \/ disk' = disk /\ unclaimed' = unclaimed \cup {c}
    BY DEF Claim, Saved
  <1>2. books'.seen = books.seen \cup {c} /\ Owners(books') = Owners(books)
    BY ClaimedSound
  <1>3. Fits(brief, Owners(books))
    <2>1. Owners(books) \cup cur \in SUBSET Candidates
      BY OwnersType, CurType
    <2> QED
      BY <2>1, FitsSubset DEF Guarded
  <1>4. Fits(brief', Owners(books') \cup cur') /\ Fits(brief', Owners(disk'))
    <2>1. Fits(brief', Owners(books') \cup cur')
      BY <1>1, <1>2, <1>3, ClaimFits
    <2>2. CASE disk' = books'
      BY <1>1, <1>2, <1>3, <2>1, <2>2
    <2>3. CASE disk' = disk
      BY <1>1, <2>1, <2>3 DEF Guarded
    <2> QED
      BY <1>1, <2>2, <2>3
  <1>5. /\ live' \subseteq entered'
        /\ entered' \subseteq books'.seen \cup unclaimed'
        /\ disk'.seen \subseteq books'.seen
        /\ Owners(disk') \cap live' \subseteq Owners(books')
    BY <1>1, <1>2 DEF Guarded
  <1>6. /\ entered' \cup cur' \cup Owners(books')
              \subseteq disk'.seen \cup unclaimed'
        /\ cur' \cap Owners(disk') = {}
        /\ cur' \cap entered' \subseteq unclaimed' /\ cur' \cap live' = {}
    <2>1. Owners(books) \subseteq books.seen
      BY DEF IInv, Ledger, Sound, BooksAgreeOn, Owners
    <2> QED
      BY <1>1, <1>2, <2>1, ClaimUnopened DEF Guarded
  <1>7. \A d \in live' \ books'.seen : brief'[d].symbol \in account'
    BY <1>1, <1>2 DEF Guarded, Claim, SymbolOf
  <1>8. Guarded'
    BY <1>4, <1>5, <1>6, <1>7 DEF Guarded, SymbolOf
  <1>9. Life' = Life /\ Known' = Known
    BY <1>1, <1>2, ClaimUnopened DEF Life, Known
  <1>10. CASE UNCHANGED unclaimed
    BY <1>1, <1>8, <1>9, <1>10 DEF Abstract!vars
  <1>11. CASE unclaimed' = unclaimed \cup {c}
    <2>1. Abstract!Excuse(c)
      BY <1>1, <1>9, <1>11 DEF Abstract!Excuse
    <2> QED
      BY <1>8, <2>1 DEF Abstract!Next
  <1> QED
    BY <1>1, <1>8, <1>10, <1>11

(* An order is of a candidate that was not traded before, or whose claim   *)
(* was lost.                                                               *)
LEMMA EnterMaps ==
    ASSUME IInv, Guarded, NEW c \in Owners(books) \cup cur,
           c \notin live, c \notin entered \/ c \in unclaimed,
           UNCHANGED <<brief, unclaimed>>, live' = live \cup {c},
           entered' = entered \cup {c},
           Owners(books') \cup cur' = Owners(books) \cup cur
    PROVE  [Abstract!Next]_(Abstract!vars)
  <1>1. c \in Candidates
    BY OwnersType, CurType
  <1>2. Life[c] = "new" \/ c \in unclaimed
    BY <1>1 DEF Life
  <1>3. Life' = [Life EXCEPT ![c] = "open"]
    BY <1>1 DEF Life
  <1>4. Known' = Known \cup {c}
    BY DEF Known
  <1>5. Abstract!OnePerSymbol(Known') /\ Abstract!WithinSlots(Known')
    <2>1. Owners(books) \cup cur \in SUBSET Candidates
      BY OwnersType, CurType
    <2>2. Known' \subseteq Owners(books) \cup cur
      BY <1>4 DEF Known
    <2>3. Fits(brief, Known') /\ Known' \in SUBSET Candidates
      BY <2>1, <2>2, FitsSubset DEF Guarded
    <2> QED
      BY <2>3, FitsAbstractly
  <1>6. Abstract!Enter(c)
    BY <1>2, <1>3, <1>4, <1>5 DEF Abstract!Enter
  <1> QED
    BY <1>1, <1>6 DEF Abstract!Next

(* A resubmission enters an entry that is owned.                           *)
LEMMA ResubmitGuarded ==
    ASSUME IInv, Guarded, NEW c \in Candidates, Resubmit(c)
    PROVE  /\ Guarded'
           /\ [Abstract!Next]_(Abstract!vars)
  <1>1. /\ c \in Owners(books) /\ c \in books.seen /\ c \notin entered
        /\ live' = live \cup {c} /\ entered' = entered \cup {c}
        /\ UNCHANGED <<brief, books, disk, account, pc, cur, unclaimed>>
        /\ cur = {}
    BY Parts DEF Resubmit, Owners, Ledger, Sound, BooksAgreeOn, LoopOK,
       LockFree, Placing, frame
  <1>2. c \notin live
    BY <1>1 DEF Guarded
  <1>3. Guarded'
    BY <1>1 DEF Guarded, SymbolOf
  <1> QED
    BY <1>1, <1>2, <1>3, EnterMaps

(* A market order enters its candidate.                                    *)
LEMMA PlaceMarketGuarded ==
    ASSUME IInv, Guarded, NEW c \in Candidates, PlaceMarket(c)
    PROVE  /\ Guarded'
           /\ [Abstract!Next]_(Abstract!vars)
  <1>1. /\ cur = {c} /\ pc = "claimed" /\ pc' \in {"filled", "lost"}
        /\ UNCHANGED <<brief, cur, unclaimed>>
        /\ live' = live \cup {c} /\ entered' = entered \cup {c}
        /\ disk' = disk \/ disk' = books'
        /\ account' \in Readings(books, live)
    BY DEF PlaceMarket, SaveTried, Saved
  <1>2. books'.seen = books.seen /\ Owners(books') = Owners(books)
    BY PlacingFacts DEF PlaceMarket, Leaves
  <1>3. c \in books.seen /\ c \notin Owners(books)
    BY <1>1, PlacingFacts DEF Fresh
  <1>4. Fits(brief', Owners(books') \cup cur') /\ Fits(brief', Owners(disk'))
    <2>1. Owners(books) \cup cur \in SUBSET Candidates
      BY OwnersType, CurType
    <2>2. Fits(brief, Owners(books))
      BY <2>1, FitsSubset DEF Guarded
    <2>3. CASE disk' = books'
      BY <1>1, <1>2, <2>2, <2>3 DEF Guarded
    <2>4. CASE disk' = disk
      BY <1>1, <1>2, <2>4 DEF Guarded
    <2> QED
      BY <1>1, <2>3, <2>4
  <1>5. /\ live' \subseteq entered'
        /\ entered' \subseteq books'.seen \cup unclaimed'
        /\ disk'.seen \subseteq books'.seen
    BY <1>1, <1>2, <1>3 DEF Guarded
  <1>6. /\ entered' \cup cur' \cup Owners(books')
              \subseteq disk'.seen \cup unclaimed'
        /\ cur' \cap Owners(disk') = {}
        /\ Owners(disk') \cap live' \subseteq Owners(books')
    <2>1. CASE disk' = disk
      BY <1>1, <1>2, <2>1 DEF Guarded
    <2>2. CASE disk' = books'
      <3>1. Owners(books) \subseteq books.seen
        BY DEF IInv, Ledger, Sound, BooksAgreeOn, Owners
      <3> QED
        BY <1>1, <1>2, <1>3, <2>2, <3>1 DEF Guarded
    <2> QED
      BY <1>1, <2>1, <2>2
  <1>7. \A d \in live' \ books'.seen : brief'[d].symbol \in account'
    BY <1>1, <1>2, <1>3, ReadSees DEF SymbolOf, IInv, Ledger
  <1>8. Guarded'
    BY <1>1, <1>4, <1>5, <1>6, <1>7 DEF Guarded, SymbolOf
  <1>9. [Abstract!Next]_(Abstract!vars)
    <2>1. c \notin live /\ (c \notin entered \/ c \in unclaimed)
      BY <1>1 DEF Guarded
    <2> QED
      BY <1>1, <1>2, <2>1, EnterMaps
  <1> QED
    BY <1>8, <1>9

(* A maker entry enters its candidate, or tries it.                        *)
LEMMA StartPendingGuarded ==
    ASSUME IInv, Guarded, NEW c \in Candidates, StartPending(c)
    PROVE  /\ Guarded'
           /\ [Abstract!Next]_(Abstract!vars)
  <1>1. /\ cur = {c} /\ pc = "claimed" /\ cur' = {}
        /\ UNCHANGED <<brief, unclaimed>>
        /\ entered' = entered \cup {c}
        /\ account' \in Readings(books, live)
    BY DEF StartPending, Done
  <1>2. /\ books'.seen = books.seen /\ disk'.seen = books.seen
        /\ Owners(disk') \in {Owners(books), Owners(books) \cup {c}}
        /\ \/ Owners(books') = Owners(books) \cup {c} /\ live' = live \cup {c}
           \/ Owners(books') = Owners(books) /\ UNCHANGED live
    BY StartedSound DEF Begun
  <1>3. c \in books.seen /\ Owners(books) \subseteq books.seen /\ c \notin live
    BY <1>1, PlacingFacts DEF Guarded, Sound, BooksAgreeOn, Owners
  <1>4. Fits(brief', Owners(books') \cup cur') /\ Fits(brief', Owners(disk'))
    <2>1. Owners(books) \cup cur \in SUBSET Candidates
      BY OwnersType, CurType
    <2>2. /\ Owners(books') \subseteq Owners(books) \cup cur
          /\ Owners(disk') \subseteq Owners(books) \cup cur
      BY <1>1, <1>2
    <2>3. Fits(brief, Owners(books')) /\ Fits(brief, Owners(disk'))
      BY <2>1, <2>2, FitsSubset DEF Guarded
    <2>4. Owners(books') \cup cur' = Owners(books')
      BY <1>1
    <2> QED
      BY <1>1, <2>3, <2>4
  <1>5. /\ live' \subseteq entered'
        /\ entered' \subseteq books'.seen \cup unclaimed'
        /\ entered' \cup cur' \cup Owners(books')
              \subseteq disk'.seen \cup unclaimed'
        /\ disk'.seen \subseteq books'.seen
        /\ Owners(disk') \cap live' \subseteq Owners(books')
        /\ cur' \cap Owners(disk') = {}
        /\ cur' \cap entered' \subseteq unclaimed' /\ cur' \cap live' = {}
    BY <1>1, <1>2, <1>3 DEF Guarded
  <1>6. \A d \in live' \ books'.seen : brief'[d].symbol \in account'
    BY <1>1, <1>2, <1>3, ReadSees DEF SymbolOf, IInv, Ledger
  <1>7. Guarded'
    BY <1>4, <1>5, <1>6 DEF Guarded, SymbolOf
  <1>8. CASE Owners(books') = Owners(books) \cup {c} /\ live' = live \cup {c}
    <2>1. c \notin entered \/ c \in unclaimed
      BY <1>1 DEF Guarded
    <2> QED
      BY <1>1, <1>3, <1>7, <1>8, <2>1, EnterMaps
  <1>9. CASE Owners(books') = Owners(books) /\ UNCHANGED live
    <2>1. /\ c \notin live
          /\ Life[c] = "new" \/ c \in unclaimed
      BY <1>1 DEF Guarded, Life
    <2>2. Life' = [Life EXCEPT ![c] = "over"]
      BY <1>1, <1>9, <2>1 DEF Life
    <2>3. Known' = Known \ {c}
      BY <1>1, <1>9, <2>1 DEF Known
    <2>4. Abstract!Try(c)
      BY <1>1, <2>1, <2>2, <2>3 DEF Abstract!Try
    <2> QED
      BY <1>7, <2>4 DEF Abstract!Next
  <1> QED
    BY <1>2, <1>8, <1>9

(* A crash brings back books of the disk, of nothing that is not owned.    *)
LEMMA CrashGuarded ==
    ASSUME IInv, Guarded, Crash
    PROVE  /\ Guarded'
           /\ [Abstract!Next]_(Abstract!vars)
  <1>1. /\ books' = disk' /\ cur' = {} /\ pc' = "down"
        /\ UNCHANGED <<brief, live, entered, unclaimed>>
    BY DEF Crash
  <1>2. \/ disk' = disk
        \/ /\ disk'.seen = books.seen /\ Owners(disk') = Owners(books) \cup cur
           /\ cur \cap live = {}
    <2>1. ASSUME NEW c \in cur, pc = "claimed", disk' = Written(c)
          PROVE  /\ disk'.seen = books.seen
                 /\ Owners(disk') = Owners(books) \cup cur
                 /\ cur \cap live = {}
      <3>1. c \in Candidates /\ cur = {c}
        BY DEF IInv, TypeOK
      <3> QED
        BY <2>1, <3>1, WrittenSound DEF Guarded
    <2> QED
      BY <2>1 DEF Crash
  <1>3. Guarded'
    <2>1. Fits(brief', Owners(books') \cup cur') /\ Fits(brief', Owners(disk'))
      <3>1. Owners(books') \cup cur' = Owners(disk')
        BY <1>1
      <3> QED
        BY <1>1, <1>2, <3>1 DEF Guarded
    <2>2. Owners(disk') \subseteq disk'.seen
      BY CrashInv DEF IInv, Ledger, Sound, BooksAgreeOn, Owners
    <2> QED
      BY <1>1, <1>2, <2>1, <2>2 DEF Guarded
  <1> DEFINE lost == Known \ Known'
  <1>4. Life' = Life
    BY <1>1 DEF Life
  <1>5. Known' \subseteq Known
    BY <1>1, <1>2 DEF Guarded, Known
  <1>6. CASE lost = {}
    BY <1>1, <1>3, <1>4, <1>5, <1>6 DEF Abstract!vars
  <1>7. CASE lost # {}
    <2>1. Abstract!Lose(lost)
      BY <1>1, <1>4, <1>5, <1>7 DEF Abstract!Lose
    <2>2. lost \in SUBSET Candidates
      BY DEF IInv, TypeOK, Known
    <2> QED
      BY <1>3, <2>1, <2>2 DEF Abstract!Next
  <1> QED
    BY <1>6, <1>7

-----------------------------------------------------------------------------

(* The initial states map to the initial state.                            *)
LEMMA InitGuarded == Init => Guarded /\ Abstract!Init
  <1> SUFFICES ASSUME Init PROVE Guarded /\ Abstract!Init
    OBVIOUS
  <1>1. Owners(books) \cup cur = {} /\ Owners(disk) = {}
    BY NewBooksSound DEF Init
  <1>2. Fits(brief, {})
    <2>1. Quick(brief, {}) = {} /\ {} \ Quick(brief, {}) = {}
      BY DEF Quick
    <2>2. Cardinality({}) = 0
      BY FS_EmptySet
    <2>3. /\ Cardinality(Quick(brief, {})) = 0
          /\ Cardinality({} \ Quick(brief, {})) = 0
      BY <2>1, <2>2, Zenon
    <2>4. MaxPositions \in Nat
      BY TradingAssumption
    <2> QED
      BY <2>3, <2>4 DEF Fits
  <1>3. Fits(brief, Owners(books) \cup cur) /\ Fits(brief, Owners(disk))
    BY <1>1, <1>2, Zenon
  <1>4. Guarded
    BY <1>1, <1>3 DEF Init, Guarded
  <1>5. Abstract!Init
    BY DEF Init, Abstract!Init, Life, Known
  <1> QED
    BY <1>4, <1>5

(* A step is quiet, or it claims, enters or crashes.                       *)
LEMMA StepQuiet ==
    ASSUME IInv, Guarded, Next
    PROVE  \/ Quiet /\ Kept
           \/ \E c \in Candidates :
                \/ Claim(c) \/ StartPending(c) \/ PlaceMarket(c)
                \/ Resubmit(c)
           \/ Crash
  <1>1. ASSUME NEW s \in Symbols, Exit(s) PROVE Quiet /\ Kept
    BY <1>1, ExitQuiet
  <1>2. CASE Sync \/ Connect \/ ConnectFails
    BY <1>2, SyncQuiet, ConnectQuiet
  <1>3. CASE SyncRefused \/ StoreHealth \/ FrameStarts \/ FrameFails \/ Evaluate
    BY <1>3, LoopQuiet, EvaluateQuiet
  <1>4. CASE Apply
    BY <1>4, LoopQuiet, SkipQuiet, RejectQuiet, SupersedeQuiet DEF Apply
  <1>5. CASE Place
    BY <1>5, RefusedQuiet, BracketedQuiet, FlattenedQuiet,
       ProtectionFailedQuiet, ForgottenQuiet DEF Place
  <1>6. ASSUME NEW c \in Candidates, ManualClose(c) PROVE Quiet /\ Kept
    BY <1>6, ManualQuiet
  <1> QED
    BY <1>1, <1>2, <1>3, <1>4, <1>5, <1>6 DEF Next

(* Every step maps to a step of Exposure or a stutter.                     *)
LEMMA StepMaps ==
    ASSUME IInv, Guarded, [Next]_vars
    PROVE  Guarded' /\ [Abstract!Next]_(Abstract!vars)
  <1>1. CASE Quiet /\ Kept
    BY <1>1, QuietGuarded, QuietMaps DEF Kept
  <1>2. ASSUME NEW c \in Candidates,
               Claim(c) \/ StartPending(c) \/ PlaceMarket(c) \/ Resubmit(c)
        PROVE  Guarded' /\ [Abstract!Next]_(Abstract!vars)
    BY <1>2, ClaimGuarded, StartPendingGuarded, PlaceMarketGuarded,
       ResubmitGuarded
  <1>3. CASE Crash
    BY <1>3, CrashGuarded
  <1>4. CASE UNCHANGED vars
    <2>1. UNCHANGED <<brief, live, books, disk, account, pc, cur, entered, unclaimed>>
      BY <1>4 DEF vars, frame, history
    <2>2. cur \cap Owners(books) = {}
      BY DEF IInv, Ledger, Fresh
    <2> QED
      BY <1>1, <2>1, <2>2 DEF Quiet, Kept, Guarded
  <1> QED
    BY <1>1, <1>2, <1>3, <1>4, StepQuiet

(* Trading implements Exposure, whatever the candidates, the slots, the    *)
(* failed saves and the crashes.                                           *)
THEOREM TradesOnce == Spec => TradedOnce
  <1>1. Init => Guarded /\ Abstract!Init
    BY InitGuarded
  <1>2. IInv /\ Guarded /\ [Next]_vars
            => Guarded' /\ [Abstract!Next]_(Abstract!vars)
    BY StepMaps
  <1> QED
    BY <1>1, <1>2, Invariance, PTL DEF Spec, TradedOnce, Abstract!Spec

-----------------------------------------------------------------------------
(***************************************************************************)
(* NakedStopsEntries.  A naked fill halts the books in memory at once.  A  *)
(* crash takes the halt back if its write failed.  Then the position is    *)
(* foreign, and the process does not start beside it: what is on disk of   *)
(* the fill is its claim, and the symbol was nobody's when that was        *)
(* written.                                                                *)
(***************************************************************************)

(* Of the order being placed the disk knows the claim and no other owner   *)
(* of its symbol, or nothing.                                              *)
LostInv == \A c \in cur \cap disk.seen :
    SymbolOf(c) \notin SymbolsOf(Owners(disk))

Working == {"applying"} \cup Placing

HaltInv ==
    /\ cur \cap naked = {} /\ naked \subseteq books.seen \cap entered
    /\ pc \in {"filled", "lost"} => cur \subseteq entered
    /\ naked \cap live # {} => pc = "down" \/ (books.halt /\ pc \notin Working)
    /\ \A c \in naked \cap live \cap disk.seen :
        disk.halt \/ SymbolOf(c) \notin SymbolsOf(Owners(disk))

(* Nobody else owns the symbol of the order being placed.                  *)
LEMMA SymbolFree ==
    ASSUME IInv, Guarded, NEW c \in Candidates, cur = {c}
    PROVE  SymbolOf(c) \notin SymbolsOf(Owners(books))
  <1>1. c \notin Owners(books)
    BY PlacingFacts DEF Fresh
  <1> QED
    BY <1>1 DEF Guarded, Fits, SymbolsOf, SymbolOf

(* The order being placed changes with a claim and a market order, and is  *)
(* done or left alone otherwise.                                           *)
LEMMA CurMoves ==
    ASSUME IInv, [Next]_vars
    PROVE  \/ cur' = {}
           \/ UNCHANGED <<brief, cur, disk>>
           \/ \E c \in Candidates : Claim(c) \/ PlaceMarket(c)
  <1>1. pc \notin Placing => cur = {}
    BY DEF IInv, TypeOK
  <1>2. CASE Apply
    <2>1. pc \in {"planned", "applying"} => cur = {}
      BY <1>1 DEF Placing
    <2> QED
      BY <1>2, <2>1 DEF Apply, Begin, Skip, Reject, Supersede, Done
  <1>3. CASE Place
    BY <1>3 DEF Place, Refused, Stranded, StartPending, Bracketed, Flattened,
                ProtectionFailed, Forgotten, Done
  <1>4. CASE \/ Sync \/ SyncRefused \/ Evaluate \/ Connect \/ ConnectFails
             \/ \E c \in Candidates : ManualClose(c)
    <2>1. pc \notin Placing
      BY <1>4 DEF Sync, SyncRefused, Evaluate, Connect, ConnectFails,
         ManualClose, LockFree, Placing
    <2> QED
      BY <1>1, <1>4, <2>1 DEF Sync, SyncRefused, Evaluate, Connect,
         ConnectFails, ManualClose, frame
  <1>5. CASE \/ \E s \in Symbols : Exit(s)
             \/ \E c \in Candidates : Resubmit(c)
             \/ StoreHealth \/ FrameStarts \/ FrameFails
             \/ Crash \/ UNCHANGED vars
    <2>1. pc \in {"idle", "fetching"} => cur = {}
      BY <1>1 DEF Placing
    <2> QED
      BY <1>5, <2>1 DEF Exit, Resubmit, StoreHealth, FrameStarts,
         FrameFails, Crash, vars, frame
  <1> QED
    BY <1>2, <1>3, <1>4, <1>5 DEF Next

(* LostInv is preserved: a claim and an order are written when the symbol  *)
(* is nobody's.                                                            *)
LEMMA LostStep ==
    ASSUME IInv, Guarded, LostInv, [Next]_vars
    PROVE  LostInv'
  <1>1. CASE cur' = {}
    BY <1>1 DEF LostInv
  <1>2. CASE UNCHANGED <<brief, cur, disk>>
    BY <1>2 DEF LostInv, SymbolsOf, SymbolOf
  <1>3. ASSUME NEW c \in Candidates, Claim(c) PROVE LostInv'
    <2>1. /\ cur' = {c} /\ UNCHANGED brief
          /\ disk' = books' \/ disk' = disk
      BY <1>3 DEF Claim, Saved
    <2>2. CASE disk' = books'
      <3>1. Owners(disk') = Owners(books)
        BY <1>3, <2>2, ClaimedSound
      <3>2. SymbolOf(c) \notin SymbolsOf(Owners(books))
        BY <1>3 DEF Claim, Blocked
      <3> QED
        BY <2>1, <3>1, <3>2 DEF LostInv, SymbolsOf, SymbolOf
    <2>3. CASE disk' = disk
      BY <1>3, <2>1, <2>3, ClaimUnopened DEF LostInv, Guarded
    <2> QED
      BY <2>1, <2>2, <2>3
  <1>4. ASSUME NEW c \in Candidates, PlaceMarket(c) PROVE LostInv'
    <2>1. /\ cur = {c} /\ cur' = {c} /\ UNCHANGED brief
          /\ books' = Attempted(c)
          /\ disk' = books' \/ disk' = disk
      BY <1>4 DEF PlaceMarket, SaveTried, Saved
    <2>2. CASE disk' = books'
      <3>1. Owners(disk') = Owners(books)
        BY <2>1, <2>2, PlacingFacts DEF Leaves
      <3>2. SymbolOf(c) \notin SymbolsOf(Owners(books))
        BY <2>1, SymbolFree
      <3> QED
        BY <2>1, <3>1, <3>2 DEF LostInv, SymbolsOf, SymbolOf
    <2>3. CASE disk' = disk
      BY <2>1, <2>3 DEF LostInv, SymbolsOf, SymbolOf
    <2> QED
      BY <2>1, <2>2, <2>3
  <1> QED
    BY <1>1, <1>2, <1>3, <1>4, CurMoves

(***************************************************************************)
(* The steps that place nothing and leave no fill naked.                   *)
(***************************************************************************)
Calm ==
    /\ UNCHANGED naked
    /\ pc' = "down" => pc = "down"
    /\ pc = "down" => UNCHANGED <<pc, books, disk>>
    /\ pc' \in Working => pc \in Working \/ ~books.halt
    /\ pc' \in {"filled", "lost"} => UNCHANGED pc

(* All others are named.                                                   *)
LEMMA CalmSteps ==
    ASSUME Next
    PROVE  \/ Calm
           \/ \E c \in Candidates :
                \/ Claim(c) \/ PlaceMarket(c) \/ StartPending(c)
                \/ ProtectionFailed(c) \/ Resubmit(c)
           \/ Crash \/ Connect \/ ConnectFails
  <1> USE DEF Calm, Working, Placing, LockFree
  <1>1. CASE Apply
    BY <1>1 DEF Apply, Begin, Skip, Reject, Supersede, Done, history
  <1>2. CASE Place
    BY <1>2 DEF Place, Refused, Stranded, Bracketed, Flattened, Forgotten,
       Done, history
  <1>3. CASE \/ \E s \in Symbols : Exit(s)
             \/ \E c \in Candidates : ManualClose(c)
             \/ Sync \/ SyncRefused \/ StoreHealth \/ FrameStarts \/ FrameFails
             \/ Evaluate
    BY <1>3 DEF Exit, ManualClose, Sync, SyncRefused, StoreHealth, FrameStarts,
       FrameFails, Evaluate, frame, history
  <1> QED
    BY <1>1, <1>2, <1>3 DEF Next

(* They keep the halt where it is.                                         *)
LEMMA CalmHalts ==
    ASSUME IInv, Guarded, HaltInv, Calm, Quiet, Grown(books, books'),
           disk' = disk \/ Grown(books, disk')
    PROVE  HaltInv'
  <1>1. /\ UNCHANGED <<brief, entered, naked>>
        /\ live' \subseteq live /\ cur' \subseteq cur
        /\ books.seen \subseteq books'.seen
    BY DEF Quiet, Calm
  <1>2. /\ cur' \cap naked' = {} /\ naked' \subseteq books'.seen \cap entered'
        /\ pc' \in {"filled", "lost"} => cur' \subseteq entered'
    BY <1>1 DEF HaltInv, Calm
  <1>3. CASE naked \cap live = {}
    BY <1>1, <1>2, <1>3 DEF HaltInv
  <1>4. CASE naked \cap live # {} /\ pc = "down"
    BY <1>1, <1>2, <1>4 DEF HaltInv, Calm, SymbolsOf, SymbolOf
  <1>5. CASE naked \cap live # {} /\ pc # "down"
    <2>1. books.halt /\ pc \notin Working
      BY <1>5 DEF HaltInv
    <2>2. books'.halt /\ pc' \notin Working /\ (disk' = disk \/ disk'.halt)
      BY <2>1 DEF Grown, Calm
    <2>3. CASE disk'.halt
      BY <1>2, <2>2, <2>3 DEF HaltInv
    <2>4. CASE disk' = disk
      BY <1>1, <1>2, <2>2, <2>4 DEF HaltInv, SymbolsOf, SymbolOf
    <2> QED
      BY <2>2, <2>3, <2>4
  <1> QED
    BY <1>3, <1>4, <1>5

(* While an order is being placed no naked fill is open.                   *)
LEMMA PlacingClothed ==
    ASSUME HaltInv, pc \in Working
    PROVE  naked \cap live = {}
BY DEF HaltInv, Working, Placing

(* A claim is of a candidate that was never naked.                         *)
LEMMA ClaimHalts ==
    ASSUME IInv, Guarded, HaltInv, NEW c \in Candidates, Claim(c)
    PROVE  HaltInv'
  <1>1. /\ UNCHANGED <<brief, live, entered, naked>> /\ pc = "applying"
        /\ pc' = "claimed" /\ cur' = {c}
    BY DEF Claim
  <1>2. books'.seen = books.seen \cup {c} /\ c \notin books.seen
    BY ClaimedSound, ClaimUnopened
  <1>3. naked \cap live = {}
    BY <1>1, PlacingClothed DEF Working
  <1> QED
    BY <1>1, <1>2, <1>3 DEF HaltInv

(* So is an order.                                                         *)
LEMMA EnterHalts ==
    ASSUME IInv, Guarded, HaltInv, NEW c \in Candidates,
           PlaceMarket(c) \/ StartPending(c)
    PROVE  HaltInv'
  <1>1. /\ UNCHANGED <<brief, naked>> /\ pc = "claimed" /\ cur = {c}
        /\ pc' # "down" /\ cur' \subseteq {c} /\ live' \subseteq live \cup {c}
        /\ entered' = entered \cup {c}
    BY DEF PlaceMarket, StartPending, Done
  <1>2. books'.seen = books.seen
    BY PlacingFacts, StartedSound DEF PlaceMarket, Leaves, Begun
  <1>3. naked \cap live = {} /\ c \notin naked
    BY <1>1, PlacingClothed DEF Working, Placing, HaltInv
  <1>4. naked' \cap live' = {}
    BY <1>1, <1>3
  <1> QED
    BY <1>1, <1>2, <1>3, <1>4 DEF HaltInv

(* A resubmission is of an entry that never reached the exchange.          *)
LEMMA ResubmitHalts ==
    ASSUME IInv, Guarded, HaltInv, NEW c \in Candidates, Resubmit(c)
    PROVE  HaltInv'
  <1>1. /\ UNCHANGED <<brief, books, disk, pc, cur, naked>>
        /\ c \notin entered /\ live' = live \cup {c}
        /\ entered' = entered \cup {c}
    BY DEF Resubmit, frame
  <1>2. naked' \cap live' = naked \cap live
    BY <1>1 DEF HaltInv
  <1> QED
    BY <1>1, <1>2 DEF HaltInv, SymbolsOf, SymbolOf

(* A fill left naked halts the books, and the disk, unless the last write  *)
(* failed; then the disk knows the claim but no owner of the symbol.       *)
LEMMA NakedHalts ==
    ASSUME IInv, Guarded, LostInv, HaltInv, NEW c \in Candidates,
           ProtectionFailed(c)
    PROVE  HaltInv'
  <1>1. /\ UNCHANGED <<brief, entered>> /\ pc = "filled"
        /\ cur = {c} /\ cur' = {}
        /\ pc' = "idle" /\ naked' \subseteq naked \cup {c} /\ live' \subseteq live
    BY DEF ProtectionFailed, Done
  <1>2. PICK b \in Recorded(books, c, c \notin live', TRUE) :
            /\ books' = Halted(b)
            /\ SaveTried(books') \/ (Unsaved /\ disk' = b)
    BY DEF ProtectionFailed
  <1>3. Leaves(books, {}, b) /\ b \in Books
    <2>1. Leaves(books, {}, b)
      BY <1>1, <1>2, PlacingFacts, RecordedSound
    <2> QED
      BY <2>1 DEF Leaves, Sound
  <1>4. books'.halt /\ books'.seen = books.seen /\ Owners(b) = Owners(books)
    BY <1>2, <1>3 DEF Books, Halted, Leaves
  <1>5. naked \cap live = {} /\ c \in books.seen /\ c \in entered
    BY <1>1, PlacingClothed, PlacingFacts DEF Working, Placing, HaltInv
  <1>6. naked' \cap live' \subseteq {c}
    BY <1>1, <1>5
  <1>7. c \in disk'.seen
            => disk'.halt \/ SymbolOf(c) \notin SymbolsOf(Owners(disk'))
    <2>1. CASE disk' = books'
      BY <1>4, <2>1
    <2>2. CASE disk' = disk
      BY <1>1, <2>2 DEF LostInv
    <2>3. CASE disk' = b
      BY <1>1, <1>4, <2>3, SymbolFree
    <2> QED
      BY <1>2, <2>1, <2>2, <2>3 DEF SaveTried, Saved
  <1>8. \A d \in naked' \cap live' : d = c
    BY <1>6
  <1> QED
    BY <1>1, <1>4, <1>5, <1>7, <1>8
       DEF HaltInv, Working, Placing, SymbolsOf, SymbolOf

(* A crash takes the books of the disk.                                    *)
LEMMA CrashHalts ==
    ASSUME HaltInv, Crash
    PROVE  HaltInv'
  <1>1. /\ UNCHANGED <<brief, live, entered>>
        /\ books' = disk' /\ cur' = {} /\ pc' = "down"
        /\ naked' = naked \cap disk'.seen
        /\ disk' = disk \/ pc = "claimed"
    BY DEF Crash
  <1>2. disk' = disk \/ naked \cap live = {}
    BY <1>1, PlacingClothed DEF Working, Placing
  <1> QED
    BY <1>1, <1>2 DEF HaltInv, SymbolsOf, SymbolOf

(* A start beside a naked fill comes over a halt, for without one the fill *)
(* would be a foreign position.                                            *)
LEMMA StartHalted ==
    ASSUME IInv, HaltInv, pc = "down", NEW seen \in Readings(books, live),
           Foreign(seen, books) = {}
    PROVE  naked \cap live # {} => books.halt
  <1> SUFFICES ASSUME NEW c \in naked \cap live, ~books.halt PROVE FALSE
    OBVIOUS
  <1>1. books = disk /\ c \in disk.seen
    BY DEF IInv, Ledger, HaltInv
  <1>2. SymbolOf(c) \notin SymbolsOf(Owners(books))
    BY <1>1 DEF HaltInv
  <1>3. c \notin books.pending
    BY <1>2 DEF SymbolsOf, Owners
  <1>4. SymbolOf(c) \in seen
    BY <1>3, ReadSees DEF IInv, Ledger
  <1> QED
    BY <1>2, <1>4 DEF Foreign

(* A restart keeps it, whether it succeeds or not.                         *)
LEMMA ConnectHalts ==
    ASSUME IInv, Guarded, HaltInv, Connect \/ ConnectFails
    PROVE  HaltInv'
  <1>1. /\ pc = "down" /\ UNCHANGED <<brief, cur, entered, naked>>
        /\ cur = {}
    BY Parts DEF Connect, ConnectFails, LoopOK, Placing, frame
  <1>2. PICK seen \in Readings(books, live), result \in {"ok", "down"} :
            /\ Reconciled(seen, result)
            /\ \/ result = "ok" /\ pc' = "idle"
               \/ result = "down" /\ pc' = "down"
    BY <1>1 DEF Connect, ConnectFails, frame
  <1>3. naked \cap live # {} => books.halt
    BY <1>1, <1>2, StartHalted DEF Reconciled
  <1>4. /\ books'.seen = books.seen /\ live' \subseteq live /\ books' = disk'
    BY <1>1, <1>2, ReconciledInv
  <1>5. disk' = disk \/ Grown(books, disk')
    BY <1>2, ReconciledGrown DEF IInv, Ledger
  <1>6. naked \cap live # {} => books'.halt
    BY <1>1, <1>3, <1>4, <1>5 DEF Grown, IInv, Ledger
  <1> QED
    BY <1>1, <1>2, <1>4, <1>6
       DEF HaltInv, Working, Placing, SymbolsOf, SymbolOf

(* No order and no naked fill at the start.                                *)
LEMMA HaltInit == Init => LostInv /\ HaltInv
BY DEF Init, LostInv, HaltInv

(* HaltInv is preserved.                                                   *)
LEMMA HaltStep ==
    ASSUME IInv, Guarded, LostInv, HaltInv, [Next]_vars
    PROVE  HaltInv'
  <1>1. CASE UNCHANGED vars
    BY <1>1 DEF vars, frame, history, HaltInv, SymbolsOf, SymbolOf
  <1>2. CASE Crash \/ Connect \/ ConnectFails
    BY <1>2, CrashHalts, ConnectHalts
  <1>3. ASSUME NEW c \in Candidates,
               \/ Claim(c) \/ PlaceMarket(c) \/ StartPending(c)
               \/ ProtectionFailed(c) \/ Resubmit(c)
        PROVE  HaltInv'
    BY <1>3, ClaimHalts, EnterHalts, NakedHalts, ResubmitHalts
  <1>4. CASE Next /\ Calm /\ Quiet /\ ~Crash
    <2>1. Grown(books, books') /\ (disk' = disk \/ Grown(books, disk'))
      BY <1>4, StepGrows, EvaluateGrown DEF Grows
    <2> QED
      BY <1>4, <2>1, CalmHalts
  <1> QED
    BY <1>1, <1>2, <1>3, <1>4, CalmSteps, StepQuiet

(* What is entered comes of a plan being applied, or was written down.     *)
LEMMA EntersOnly ==
    ASSUME Next
    PROVE  pc = "claimed" \/ entered' \ entered \subseteq books.pending
BY DEF Next, Apply, Place, Exit, Sync, SyncRefused, StoreHealth, FrameStarts,
    FrameFails, Evaluate, Begin, Skip, Reject, Supersede, Claim, Refused,
    Stranded, StartPending, PlaceMarket, Bracketed, Flattened,
    ProtectionFailed, Forgotten, Resubmit, ManualClose, Crash, Connect,
    ConnectFails, history

(* For any candidates, symbols and slots, and whatever saves fail and the  *)
(* process crashes: a market fill whose protection and whose emergency     *)
(* close both failed stops every entry that was not written down before,   *)
(* for as long as it is open (place_bracket, request_execution_halt,       *)
(* connect).                                                               *)
THEOREM NakedAlwaysStops == Spec => NakedStopsEntries
  <1> DEFINE Stops ==
                naked \cap live # {} => entered' \ entered \subseteq books.pending
  <1>1. HaltInv /\ [Next]_vars => [Stops]_<<entered, live, naked, books>>
    <2> SUFFICES ASSUME HaltInv, Next, naked \cap live # {}
                 PROVE  entered' \ entered \subseteq books.pending
      BY DEF vars, history
    <2>1. pc # "claimed"
      BY PlacingClothed DEF Working, Placing
    <2> QED
      BY <2>1, EntersOnly
  <1>2. IInv /\ Guarded /\ LostInv /\ HaltInv /\ [Next]_vars
            => Guarded' /\ LostInv' /\ HaltInv'
    BY StepMaps, LostStep, HaltStep
  <1>3. Init => Guarded /\ LostInv /\ HaltInv
    BY InitGuarded, HaltInit
  <1> QED
    BY <1>1, <1>2, <1>3, Invariance, PTL DEF Spec, NakedStopsEntries
=============================================================================
