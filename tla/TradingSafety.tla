--------------------------- MODULE TradingSafety ---------------------------
(***************************************************************************)
(* Type correctness of Trading and the agreement of its books, for every   *)
(* value of the constants: first what each operation on DemoState          *)
(* preserves, then what the steps built of these operations do; and that   *)
(* a second leg is only entered after its first leg has an outcome.        *)
(***************************************************************************)
EXTENDS Trading, TLAPS

(***************************************************************************)
(* BooksAgreeOn made inductive: an outcome is owed only for an attempt,    *)
(* and an entry that is pending has not counted as filled.                 *)
(***************************************************************************)
Sound(b) ==
    /\ b \in Books /\ BooksAgreeOn(b)
    /\ b.deferred \subseteq b.attempts
    /\ b.pending \cap b.filled = {}

(* Nothing is on record of the order being placed but that it was tried.   *)
Fresh(b, c) == c \notin b.filled \cup b.deferred \cup Owners(b)

(* The records of b with those of S removed from what the executor owns.   *)
Leaves(b, S, d) ==
    /\ Sound(d)
    /\ d.seen = b.seen
    /\ Owners(d) = Owners(b) \ S

(* A new state file is sound and owns nothing.                             *)
LEMMA NewBooksSound == Sound(NewBooks) /\ Owners(NewBooks) = {}
BY DEF Sound, NewBooks, Books, BooksAgreeOn, Owners, Stages

(* A candidate never claimed is in none of the other sets.                 *)
LEMMA UnseenIsFresh ==
    ASSUME NEW b, Sound(b), NEW c, c \notin b.seen
    PROVE  Fresh(b, c)
BY DEF Sound, BooksAgreeOn, Fresh, Owners, Books

(* The fields that two records of a trade touch.                           *)
LEMMA RoundTripsFields ==
    ASSUME NEW b \in Books, NEW S \in SUBSET Candidates
    PROVE  LET r == RoundTrips(b, S)
           IN  /\ r \in Books
               /\ r.filled = b.filled \cup S
               /\ r.accounted = b.accounted \cup S
               /\ r.closed = b.closed \cup S
               /\ r.seen = b.seen /\ r.attempts = b.attempts
               /\ r.held = b.held /\ r.pending = b.pending
               /\ r.deferred = b.deferred /\ r.formal = b.formal
  <1> DEFINE f == [b EXCEPT !.filled = @ \cup S]
             a == [f EXCEPT !.accounted = @ \cup S]
  <1>1. /\ f \in Books
        /\ f.filled = b.filled \cup S
        /\ f.accounted = b.accounted /\ f.closed = b.closed
        /\ f.seen = b.seen /\ f.attempts = b.attempts
        /\ f.held = b.held /\ f.pending = b.pending
        /\ f.deferred = b.deferred /\ f.formal = b.formal
    BY DEF Books
  <1>2. RoundTrips(b, S) = [a EXCEPT !.closed = @ \cup S]
    BY DEF RoundTrips, Books
  <1> HIDE DEF f
  <1>3. /\ a \in Books
        /\ a.filled = f.filled
        /\ a.accounted = f.accounted \cup S /\ a.closed = f.closed
        /\ a.seen = f.seen /\ a.attempts = f.attempts
        /\ a.held = f.held /\ a.pending = f.pending
        /\ a.deferred = f.deferred /\ a.formal = f.formal
    BY <1>1 DEF Books
  <1> HIDE DEF a
  <1> QED
    BY <1>1, <1>2, <1>3 DEF Books

(* The fields that a promotion touches.                                    *)
LEMMA PromotedFields ==
    ASSUME NEW b \in Books, NEW S \in SUBSET Candidates
    PROVE  LET r == Promoted(b, S)
           IN  /\ r \in Books
               /\ r.held = b.held \cup S
               /\ r.filled = b.filled \cup S
               /\ r.formal = b.formal \cup S
               /\ r.seen = b.seen /\ r.attempts = b.attempts
               /\ r.pending = b.pending /\ r.deferred = b.deferred
               /\ r.closed = b.closed /\ r.accounted = b.accounted
  <1> DEFINE h == [b EXCEPT !.held = @ \cup S]
             f == [h EXCEPT !.filled = @ \cup S]
  <1>1. /\ h \in Books
        /\ h.held = b.held \cup S
        /\ h.filled = b.filled /\ h.formal = b.formal
        /\ h.seen = b.seen /\ h.attempts = b.attempts
        /\ h.pending = b.pending /\ h.deferred = b.deferred
        /\ h.closed = b.closed /\ h.accounted = b.accounted
    BY DEF Books
  <1>2. Promoted(b, S) = [f EXCEPT !.formal = @ \cup S]
    BY DEF Promoted, Books
  <1> HIDE DEF h
  <1>3. /\ f \in Books
        /\ f.held = h.held
        /\ f.filled = h.filled \cup S /\ f.formal = h.formal
        /\ f.seen = h.seen /\ f.attempts = h.attempts
        /\ f.pending = h.pending /\ f.deferred = h.deferred
        /\ f.closed = h.closed /\ f.accounted = h.accounted
    BY <1>1 DEF Books
  <1> HIDE DEF f
  <1> QED
    BY <1>1, <1>2, <1>3 DEF Books

(* RoundTrips and Settled, of entries whose outcome is owed.               *)
LEMMA SettledSound ==
    ASSUME NEW b, Sound(b), NEW S, S \subseteq b.deferred
    PROVE  Leaves(b, {}, Settled(b, S))
  <1> DEFINE r == RoundTrips(b, S)
  <1>1. S \in SUBSET Candidates /\ b \in Books
    BY DEF Sound, Books
  <1>2. /\ r \in Books
        /\ r.filled = b.filled \cup S
        /\ r.accounted = b.accounted \cup S /\ r.closed = b.closed \cup S
        /\ r.seen = b.seen /\ r.attempts = b.attempts
        /\ r.held = b.held /\ r.pending = b.pending
        /\ r.deferred = b.deferred /\ r.formal = b.formal
    BY <1>1, RoundTripsFields
  <1>3. Settled(b, S) = [r EXCEPT !.deferred = @ \ S]
    BY DEF Settled
  <1> HIDE DEF r
  <1>4. LET t == Settled(b, S)
        IN  /\ t \in Books
            /\ t.filled = r.filled /\ t.accounted = r.accounted
            /\ t.closed = r.closed /\ t.seen = r.seen
            /\ t.attempts = r.attempts /\ t.held = r.held
            /\ t.pending = r.pending /\ t.formal = r.formal
            /\ t.deferred = r.deferred \ S
    BY <1>2, <1>3 DEF Books
  <1> QED
    BY <1>2, <1>4 DEF Leaves, Sound, BooksAgreeOn, Owners

(* What a sync finds of the pending entries.                               *)
Outcomes(b, promoted, unfilled, closed, late) ==
    /\ promoted \cup unfilled \cup closed \cup late \subseteq b.pending
    /\ (promoted \cup unfilled \cup closed) \cap late = {}
    /\ (promoted \cup unfilled) \cap closed = {}
    /\ promoted \cap unfilled = {}

(* The outcomes of S become owed.                                          *)
Owes(b, S, d) == d.deferred = b.deferred \cup S

(* The outcomes of pending entries keep the books sound.                   *)
LEMMA ResolvedSound ==
    ASSUME NEW b, NEW promoted, NEW unfilled, NEW closed, NEW late,
           Sound(b), Outcomes(b, promoted, unfilled, closed, late)
    PROVE  /\ Leaves(b, unfilled \cup closed \cup late,
                     Resolved(b, promoted, unfilled, closed, late))
           /\ Owes(b, late, Resolved(b, promoted, unfilled, closed, late))
  <1> DEFINE p == Promoted(b, promoted)
             q == RoundTrips(p, closed)
             out == promoted \cup unfilled \cup closed \cup late
             u == [q EXCEPT !.pending = @ \ out]
             v == [u EXCEPT !.filled = @ \cup late]
             r == Resolved(b, promoted, unfilled, closed, late)
  <1>1. /\ b \in Books
        /\ promoted \in SUBSET Candidates /\ closed \in SUBSET Candidates
        /\ late \in SUBSET Candidates
    BY DEF Sound, Books, Outcomes
  <1>2. /\ p \in Books
        /\ p.held = b.held \cup promoted
        /\ p.filled = b.filled \cup promoted
        /\ p.formal = b.formal \cup promoted
        /\ p.seen = b.seen /\ p.attempts = b.attempts
        /\ p.pending = b.pending /\ p.deferred = b.deferred
        /\ p.closed = b.closed /\ p.accounted = b.accounted
    BY <1>1, PromotedFields
  <1>q. q = RoundTrips(p, closed)
    OBVIOUS
  <1>r. r = [[u EXCEPT !.filled = @ \cup late] EXCEPT !.deferred = @ \cup late]
    <2>1. q \in Books
      <3> HIDE DEF p
      <3> QED
        BY <1>1, <1>2, RoundTripsFields
    <2>2. r = [q EXCEPT !.pending = @ \ out, !.filled = @ \cup late,
                        !.deferred = @ \cup late]
      BY DEF Resolved
    <2> HIDE DEF q, out, r
    <2> QED
      BY <2>1, <2>2 DEF Books
  <1> HIDE DEF p
  <1>4a. /\ q \in Books
        /\ q.held = p.held /\ q.filled = p.filled \cup closed
        /\ q.formal = p.formal
        /\ q.seen = p.seen /\ q.attempts = p.attempts
        /\ q.pending = p.pending /\ q.deferred = p.deferred
        /\ q.closed = p.closed \cup closed
        /\ q.accounted = p.accounted \cup closed
    BY <1>1, <1>2, RoundTripsFields
  <1> HIDE DEF q, out
  <1>4b. /\ u \in Books
        /\ u.held = q.held /\ u.filled = q.filled /\ u.formal = q.formal
        /\ u.seen = q.seen /\ u.attempts = q.attempts
        /\ u.pending = q.pending \ out /\ u.deferred = q.deferred
        /\ u.closed = q.closed /\ u.accounted = q.accounted
    BY <1>4a DEF Books
  <1> HIDE DEF u
  <1>4c. /\ v \in Books
        /\ v.held = u.held /\ v.filled = u.filled \cup late
        /\ v.formal = u.formal
        /\ v.seen = u.seen /\ v.attempts = u.attempts
        /\ v.pending = u.pending /\ v.deferred = u.deferred
        /\ v.closed = u.closed /\ v.accounted = u.accounted
    BY <1>1, <1>4b DEF Books
  <1>4d. r = [v EXCEPT !.deferred = @ \cup late]
    BY <1>r
  <1> HIDE DEF v, r
  <1>4e. /\ r \in Books
        /\ r.held = v.held /\ r.filled = v.filled
        /\ r.formal = v.formal
        /\ r.seen = v.seen /\ r.attempts = v.attempts
        /\ r.pending = v.pending /\ r.deferred = v.deferred \cup late
        /\ r.closed = v.closed /\ r.accounted = v.accounted
    BY <1>1, <1>4c, <1>4d DEF Books
  <1>3. /\ r \in Books
        /\ r.seen = b.seen /\ r.attempts = b.attempts
        /\ r.held = b.held \cup promoted
        /\ r.filled = b.filled \cup promoted \cup closed \cup late
        /\ r.formal = b.formal \cup promoted
        /\ r.accounted = b.accounted \cup closed
        /\ r.closed = b.closed \cup closed
        /\ r.pending = b.pending \ (promoted \cup unfilled \cup closed \cup late)
        /\ r.deferred = b.deferred \cup late
    BY <1>2, <1>4a, <1>4b, <1>4c, <1>4e DEF out
  <1>4. BooksAgreeOn(r)
    BY <1>3 DEF Sound, BooksAgreeOn, Owners, Outcomes
  <1>5. Owners(r) = Owners(b) \ (unfilled \cup closed \cup late)
    BY <1>3 DEF Sound, BooksAgreeOn, Owners, Outcomes
  <1>6. r.deferred \subseteq r.attempts /\ r.pending \cap r.filled = {}
    BY <1>3 DEF Sound, BooksAgreeOn, Owners, Outcomes
  <1> QED
    BY <1>3, <1>4, <1>5, <1>6 DEF Leaves, Sound, Owes, r

(* So does forgetting the positions that are gone.                         *)
LEMMA DisappearedSound ==
    ASSUME NEW b, Sound(b), NEW gone \in SUBSET b.held,
           NEW read \in SUBSET gone, NEW profit \in SUBSET (read \ b.manual)
    PROVE  /\ Leaves(b, gone, Disappeared(b, gone, read, profit))
           /\ Disappeared(b, gone, read, profit).pending = b.pending
           /\ Disappeared(b, gone, read, profit).deferred = b.deferred
  <1> DEFINE d == Disappeared(b, gone, read, profit)
             stages == [c \in Candidates |->
                IF \E e \in profit : /\ SymbolOf(e) = SymbolOf(c)
                                     /\ FollowUp(brief[e].recipe)
                                            = brief[c].recipe
                THEN "armed" ELSE b.campaign[c]]
  <1>1. d = [b EXCEPT
            !.held = @ \ gone,
            !.manual = @ \ gone,
            !.closed = @ \cup gone,
            !.accounted = @ \cup (read \ b.manual),
            !.campaign = stages]
    BY DEF Disappeared
  <1>2. stages \in [Candidates -> Stages]
    BY DEF Sound, Books, Stages
  <1> HIDE DEF stages
  <1>3. d \in Books
    <2> DEFINE h == [b EXCEPT !.held = @ \ gone, !.manual = @ \ gone]
               k == [h EXCEPT !.closed = @ \cup gone,
                              !.accounted = @ \cup (read \ b.manual)]
    <2>1. h \in Books /\ h.held = b.held \ gone
      BY DEF Sound, Books
    <2>2. d = [k EXCEPT !.campaign = stages]
      BY <1>1 DEF Sound, Books
    <2>3. gone \in SUBSET Candidates
      BY DEF Sound, Books
    <2> HIDE DEF h
    <2>4. k \in Books
      BY <2>1, <2>3 DEF Books
    <2> HIDE DEF k, d
    <2> QED
      BY <1>2, <2>2, <2>4 DEF Books
  <1>4. /\ d.seen = b.seen /\ d.attempts = b.attempts
        /\ d.held = b.held \ gone
        /\ d.filled = b.filled /\ d.formal = b.formal
        /\ d.accounted = b.accounted \cup (read \ b.manual)
        /\ d.closed = b.closed \cup gone
        /\ d.pending = b.pending /\ d.deferred = b.deferred
    BY <1>1 DEF Sound, Books
  <1> HIDE DEF d
  <1>5. /\ BooksAgreeOn(d) /\ Owners(d) = Owners(b) \ gone
        /\ d.deferred \subseteq d.attempts /\ d.pending \cap d.filled = {}
    BY <1>4 DEF Sound, BooksAgreeOn, Owners
  <1> QED
    BY <1>3, <1>4, <1>5 DEF Leaves, Sound, d

(* What apply_plans writes of the candidate whose turn it is.              *)
LEMMA SeenSound ==
    ASSUME NEW b, Sound(b), NEW c \in Candidates
    PROVE  /\ Sound([b EXCEPT !.seen = @ \cup {c}])
           /\ [b EXCEPT !.seen = @ \cup {c}].seen = b.seen \cup {c}
           /\ Owners([b EXCEPT !.seen = @ \cup {c}]) = Owners(b)
BY DEF Sound, BooksAgreeOn, Owners, Books

(* The stages of the campaigns are free of the other sets.                 *)
LEMMA CampaignSound ==
    ASSUME NEW b, Sound(b), NEW stages \in [Candidates -> Stages]
    PROVE  Leaves(b, {}, [b EXCEPT !.campaign = stages])
BY DEF Leaves, Sound, BooksAgreeOn, Owners, Books

(* Retiring campaigns changes nothing else.                                *)
LEMMA WithoutCampaignsSound ==
    ASSUME NEW b, Sound(b), NEW c \in Candidates
    PROVE  Leaves(b, {}, WithoutCampaigns(b, c))
  <1> DEFINE stages == [d \in Candidates |->
                IF /\ SymbolOf(d) = SymbolOf(c)
                   /\ brief[c].recipe \in {"reversal", brief[d].recipe}
                THEN "none" ELSE b.campaign[d]]
  <1>1. stages \in [Candidates -> Stages]
    BY DEF Sound, Books, Stages
  <1>2. WithoutCampaigns(b, c) = [b EXCEPT !.campaign = stages]
    BY DEF WithoutCampaigns
  <1> HIDE DEF stages
  <1> QED
    BY <1>1, <1>2, CampaignSound

(* A claimed candidate may be attempted.                                   *)
LEMMA AttemptedSound ==
    ASSUME NEW c \in Candidates, Sound(books), c \in books.seen
    PROVE  /\ Leaves(books, {}, Attempted(c))
           /\ c \in Attempted(c).attempts
           /\ Fresh(books, c) => Fresh(Attempted(c), c)
BY DEF Attempted, Leaves, Sound, BooksAgreeOn, Owners, Books, Fresh

(* A maker entry is written down.                                          *)
LEMMA PendingSound ==
    ASSUME NEW b, Sound(b), NEW c \in Candidates, Fresh(b, c),
           c \in b.attempts
    PROVE  /\ Sound([b EXCEPT !.pending = @ \cup {c}])
           /\ [b EXCEPT !.pending = @ \cup {c}].seen = b.seen
           /\ [b EXCEPT !.pending = @ \cup {c}].pending = b.pending \cup {c}
           /\ Owners([b EXCEPT !.pending = @ \cup {c}]) = Owners(b) \cup {c}
BY DEF Sound, BooksAgreeOn, Owners, Books, Fresh

(* A filled bracket is promoted.                                           *)
LEMMA PromotedSound ==
    ASSUME NEW b, Sound(b), NEW c \in Candidates, Fresh(b, c),
           c \in b.attempts
    PROVE  /\ Sound(Promoted(b, {c}))
           /\ Promoted(b, {c}).seen = b.seen
           /\ Owners(Promoted(b, {c})) = Owners(b) \cup {c}
  <1>1. {c} \in SUBSET Candidates /\ b \in Books
    BY DEF Sound
  <1> QED
    BY <1>1, PromotedFields DEF Sound, BooksAgreeOn, Owners, Fresh

(* The fills of a failed bracket are recorded.                             *)
LEMMA RecordedSound ==
    ASSUME NEW b, Sound(b), NEW c \in Candidates, Fresh(b, c),
           c \in b.attempts, NEW closed, NEW told,
           NEW d \in Recorded(b, c, closed, told)
    PROVE  Leaves(b, {}, d)
  <1>1. CASE d = b
    BY <1>1 DEF Leaves
  <1>2. CASE d = [b EXCEPT !.deferred = @ \cup {c}]
    BY <1>2 DEF Leaves, Sound, BooksAgreeOn, Owners, Books, Fresh
  <1>3. CASE d = RoundTrips(b, {c})
    <2>1. {c} \in SUBSET Candidates /\ b \in Books
      BY DEF Sound
    <2> QED
      BY <1>3, <2>1, RoundTripsFields
         DEF Leaves, Sound, BooksAgreeOn, Owners, Fresh
  <1> QED
    BY <1>1, <1>2, <1>3 DEF Recorded

(* A halt changes nothing else.                                            *)
LEMMA HaltSound ==
    ASSUME NEW b, Sound(b)
    PROVE  /\ Leaves(b, {}, Halted(b))
           /\ Halted(b).halt /\ Halted(b).deferred = b.deferred
           /\ Halted(b).pending = b.pending
BY DEF Leaves, Sound, BooksAgreeOn, Owners, Books, Halted

-----------------------------------------------------------------------------

(* What the handlers of a sync find, which read positions of the symbols   *)
(* seen: the exits, and the outcomes of the pending entries.               *)
Found(seen, read, profit, promoted, unfilled, closed, late) ==
    /\ read \in SUBSET {c \in books.held : SymbolOf(c) \notin seen}
    /\ profit \in SUBSET (read \ books.manual)
    /\ promoted \in SUBSET books.pending
    /\ unfilled \in SUBSET (books.pending \ promoted)
    /\ closed \in SUBSET (books.pending \ (promoted \cup unfilled))
    /\ late \in SUBSET (books.pending \ (promoted \cup unfilled \cup closed))
Handled(seen, read, profit, promoted, unfilled, closed, late) ==
    Resolved(Disappeared(books, {c \in books.held : SymbolOf(c) \notin seen},
                         read, profit),
             promoted, unfilled, closed, late)

(* How it ends, with the handlers' books h and the outcomes settled.       *)
Ends(h, settled, seen, result) ==
    /\ settled \subseteq h.deferred
    /\ disk' \in {disk, h, Settled(h, settled)}
    /\ IF result = "down" THEN books' = disk'
       ELSE books' \in {h, Settled(h, settled)}
    /\ result = "ok" => disk' = books'
    /\ \/ account' = seen
       \/ result # "ok" /\ account' = account
       \/ account' \in Readings(Settled(h, settled), live')
    /\ Unsaved \/ UNCHANGED faults

(* A sync is its findings and its end.                                     *)
LEMMA ReconciledParts ==
    ASSUME NEW seen, NEW result, Reconciled(seen, result)
    PROVE  \E read, profit, promoted, unfilled, closed, late, h, settled :
            /\ Found(seen, read, profit, promoted, unfilled, closed, late)
            /\ live' = live \ (unfilled \cup closed \cup late)
            /\ LET r == Handled(seen, read, profit, promoted, unfilled,
                                closed, late)
               IN  h \in {r, Halted(r)}
            /\ Ends(h, settled, seen, result)
            /\ bare' \subseteq bare \cup books.pending
  <1> DEFINE tried == books.pending \cap entered
  <1>0. PICK read, profit, promoted, unfilled, closed, late :
            /\ read \in SUBSET {c \in books.held : SymbolOf(c) \notin seen}
            /\ profit \in SUBSET (read \ books.manual)
            /\ promoted \in SUBSET (tried \cap live)
            /\ unfilled \in SUBSET (tried \ promoted)
            /\ closed \in SUBSET (tried \ (promoted \cup unfilled))
            /\ late \in SUBSET (tried \ (promoted \cup unfilled \cup closed))
            /\ live' = live \ (unfilled \cup closed \cup late)
            /\ Progressed(tried, Handled(seen, read, profit, promoted, unfilled,
                                         closed, late), seen, result)
    BY Zenon DEF Reconciled, Handled
  <1>1. Found(seen, read, profit, promoted, unfilled, closed, late)
    BY <1>0 DEF Found
  <1>2. PICK r : r = Handled(seen, read, profit, promoted, unfilled, closed, late)
    OBVIOUS
  <1>3. /\ bare' \subseteq bare \cup books.pending
        /\ \/ result # "ok" /\ Unread(r)
           \/ \E h \in {r, Halted(r)} : Concluded(h, seen, result)
    BY <1>0, <1>2 DEF Progressed
  <1> HIDE DEF tried
  <1>4. \E h \in {r, Halted(r)} : \E settled : Ends(h, settled, seen, result)
    <2>1. CASE result # "ok" /\ Unread(r)
      <3>1. Ends(r, {}, seen, result)
        BY <2>1 DEF Unread, Saved, Ends
      <3> QED
        BY <3>1
    <2>2. ASSUME NEW h \in {r, Halted(r)}, Concluded(h, seen, result)
          PROVE  \E x : Ends(h, x, seen, result)
      <3>1. PICK settled \in SUBSET (h.deferred \ live') :
                LET b == Settled(h, settled)
                IN  /\ IF result = "ok" THEN Saved(b)
                       ELSE Unsaved /\ disk' \in {disk, h, b}
                    /\ IF result = "down" THEN books' = disk' /\ UNCHANGED account
                       ELSE /\ books' = b
                            /\ account' \in {seen} \cup Readings(b, live')
        BY <2>2 DEF Concluded
      <3>2. Ends(h, settled, seen, result)
        BY <3>1, Zenon DEF Saved, Ends
      <3> QED
        BY <3>2
    <2> QED
      BY <1>3, <2>1, <2>2
  <1> QED
    BY <1>0, <1>1, <1>2, <1>3, <1>4

(* The positions that are gone leave, and the pending entries that were    *)
(* resolved without a position, whose orders it cancels.                   *)
LEMMA HandledSound ==
    ASSUME NEW seen, NEW read, NEW profit, NEW promoted, NEW unfilled,
           NEW closed, NEW late, Sound(books),
           Found(seen, read, profit, promoted, unfilled, closed, late)
    PROVE  LET gone == {c \in books.held : SymbolOf(c) \notin seen}
           IN  Leaves(books, gone \cup (unfilled \cup closed \cup late),
                      Handled(seen, read, profit, promoted, unfilled, closed,
                              late))
  <1> DEFINE gone == {c \in books.held : SymbolOf(c) \notin seen}
             X == unfilled \cup closed \cup late
  <1>1. PICK d : d = Disappeared(books, gone, read, profit)
    OBVIOUS
  <1>2. Leaves(books, gone, d) /\ d.pending = books.pending
    BY <1>1, DisappearedSound DEF Found
  <1>3. Sound(d) /\ Outcomes(d, promoted, unfilled, closed, late)
    BY <1>2 DEF Found, Leaves, Outcomes
  <1>4. Leaves(d, X, Resolved(d, promoted, unfilled, closed, late))
    BY <1>3, ResolvedSound
  <1>5. Leaves(books, gone \cup X, Resolved(d, promoted, unfilled, closed, late))
    BY <1>2, <1>4 DEF Leaves
  <1> QED
    BY <1>1, <1>5 DEF Handled

(* What is in memory and on disk after a sync: the books it found there or *)
(* those without what it found gone.                                       *)
Synced(seen, X, result) ==
    LET Gone(b) ==
            Leaves(books, {c \in books.held : SymbolOf(c) \notin seen} \cup X, b)
    IN  /\ live' = live \ X
        /\ disk' = disk \/ Gone(disk')
        /\ IF result = "down" THEN books' = disk' ELSE Gone(books')
        /\ result = "ok" => disk' = books'
        /\ \/ account' = seen
           \/ result # "ok" /\ account' = account
           \/ \E b : Gone(b) /\ account' \in Readings(b, live')

(* A sync leaves sound books.                                              *)
LEMMA ReconciledSound ==
    ASSUME NEW seen, NEW result, Sound(books), Reconciled(seen, result)
    PROVE  /\ \E X \in SUBSET books.pending : Synced(seen, X, result)
           /\ bare' \subseteq bare \cup books.pending
           /\ Unsaved \/ UNCHANGED faults
  <1> DEFINE gone == {c \in books.held : SymbolOf(c) \notin seen}
  <1>1. PICK read, profit, promoted, unfilled, closed, late, h, settled :
            /\ Found(seen, read, profit, promoted, unfilled, closed, late)
            /\ live' = live \ (unfilled \cup closed \cup late)
            /\ LET r == Handled(seen, read, profit, promoted, unfilled,
                                closed, late)
               IN  h \in {r, Halted(r)}
            /\ Ends(h, settled, seen, result)
            /\ bare' \subseteq bare \cup books.pending
    BY ReconciledParts
  <1> DEFINE X == unfilled \cup closed \cup late
  <1>2. PICK r : r = Handled(seen, read, profit, promoted, unfilled, closed, late)
    OBVIOUS
  <1>3. Leaves(books, gone \cup X, r)
    BY <1>1, <1>2, HandledSound
  <1>4. h \in {r, Halted(r)}
    BY <1>1, <1>2
  <1>5. X \in SUBSET books.pending
    BY <1>1 DEF Found
  <1> HIDE DEF X, gone
  <1>6. Leaves(books, gone \cup X, h)
    BY <1>3, <1>4, HaltSound DEF Leaves
  <1>7. Leaves(books, gone \cup X, Settled(h, settled))
    <2>1. Leaves(h, {}, Settled(h, settled))
      BY <1>1, <1>6, SettledSound DEF Leaves, Ends
    <2> QED
      BY <1>6, <2>1 DEF Leaves
  <1>8. Synced(seen, X, result)
    BY <1>1, <1>6, <1>7 DEF Ends, Synced, gone, X
  <1> QED
    BY <1>1, <1>5, <1>8 DEF Ends

-----------------------------------------------------------------------------

(***************************************************************************)
(* The inductive invariant.  The books are sound in memory and on disk; a  *)
(* plan waits only for what was never claimed; and of the order being      *)
(* placed there is a claim and, once it may have filled, an attempt, but   *)
(* no record of a trade yet.  A process that is down has but its file.     *)
(***************************************************************************)
Ledger ==
    /\ Sound(books) /\ Sound(disk)
    /\ pc = "down" => books = disk
    /\ plans \cap books.seen = {}
    /\ \A c \in cur :
        /\ c \in books.seen /\ Fresh(books, c)
        /\ pc \in {"filled", "lost"} => c \in books.attempts
IInv == TypeOK /\ Ledger

(* The conjuncts of TypeOK about the frame loop.                           *)
LoopOK ==
    /\ pc \in Places
    /\ plans \subseteq Candidates
    /\ \/ pc \in Placing /\ \E c \in Candidates : cur = {c}
       \/ pc \notin Placing /\ cur = {}
    /\ pc \in {"idle", "fetching", "down"} => plans = {}

(* The other conjuncts.                                                    *)
DataOK ==
    /\ brief \in Briefs
    /\ live \subseteq Candidates
    /\ account \subseteq Symbols
    /\ enabled \in BOOLEAN
    /\ task \in {"idle", "ok", "failed"}
    /\ healthy \in BOOLEAN
    /\ faults \in [unsaved : 0..MaxUnsaved, crashes : 0..MaxCrashes]
    /\ entered \subseteq Candidates
    /\ unclaimed \subseteq Candidates
    /\ naked \subseteq Candidates /\ bare \subseteq Candidates

(* The type invariant, split into loop, data and books.                    *)
LEMMA TypeParts == TypeOK <=> LoopOK /\ DataOK /\ books \in Books /\ disk \in Books
BY DEF TypeOK, LoopOK, DataOK

(* The inductive invariant, split the same way.                            *)
LEMMA Parts == IInv <=> LoopOK /\ DataOK /\ Ledger
BY TypeParts DEF IInv, Ledger, Sound

(* It is enough to show the parts of the next state.                       *)
LEMMA PartsNext == LoopOK' /\ DataOK' /\ Ledger' => IInv'
BY DEF IInv, TypeOK, LoopOK, DataOK, Ledger, Sound

(* Candidates are of known symbols.                                        *)
LEMMA SymbolType == DataOK => \A c \in Candidates : SymbolOf(c) \in Symbols
BY TradingAssumption DEF DataOK, SymbolOf, Brief

(* An account read shows known symbols.                                    *)
LEMMA ReadingsType ==
    ASSUME NEW b \in Books, DataOK, NEW S \in SUBSET Candidates
    PROVE  Readings(b, S) \subseteq SUBSET Symbols
BY SymbolType DEF Readings, SymbolsOf, Books

(* After a plan no order is being placed.                                  *)
LEMMA DoneType ==
    ASSUME NEW left \in SUBSET Candidates, Done(left)
    PROVE  LoopOK' /\ cur' = {} /\ plans' = left /\ pc' # "down"
BY DEF Done, LoopOK, Places, Placing, LockFree

(* Writing the books, or failing to, keeps what is true of both.           *)
LEMMA SaveTriedSound ==
    ASSUME DataOK, Sound(books'), Sound(disk), SaveTried(books')
    PROVE  /\ Sound(disk')
           /\ faults' \in [unsaved : 0..MaxUnsaved, crashes : 0..MaxCrashes]
  <1>1. CASE Saved(books')
    BY <1>1 DEF Saved, DataOK
  <1>2. CASE Unsaved /\ UNCHANGED disk
    BY <1>2, TradingAssumption DEF Unsaved, DataOK
  <1> QED
    BY <1>1, <1>2 DEF SaveTried

(* A failed save is counted within its bound.                              *)
LEMMA UnsavedType ==
    ASSUME DataOK, Unsaved
    PROVE  faults' \in [unsaved : 0..MaxUnsaved, crashes : 0..MaxCrashes]
BY TradingAssumption DEF Unsaved, DataOK

-----------------------------------------------------------------------------

(* The invariant holds at first.                                           *)
LEMMA InitInv == Init => IInv
  <1> SUFFICES ASSUME Init PROVE IInv
    OBVIOUS
  <1>1. LoopOK
    BY DEF Init, LoopOK, Places, Placing, LockFree
  <1>2. DataOK
    <2>1. faults \in [unsaved : 0..MaxUnsaved, crashes : 0..MaxCrashes]
      BY TradingAssumption DEF Init
    <2> QED
      BY <2>1 DEF Init, DataOK
  <1>3. Ledger
    BY NewBooksSound DEF Init, Ledger
  <1> QED
    BY <1>1, <1>2, <1>3, Parts

(* An exit touches the exchange only.                                      *)
LEMMA ExitInv ==
    ASSUME IInv, NEW s \in Symbols, Exit(s)
    PROVE  IInv'
BY DEF IInv, TypeOK, Ledger, Exit, frame, reconciliation, history, Fresh,
       Owners

(* A sync, of a process that runs or of one that starts.                   *)
LEMMA ReconciledInv ==
    ASSUME IInv, NEW seen \in Readings(books, live), NEW result,
           Reconciled(seen, result), result = "down" => pc = "down"
    PROVE  /\ Sound(books') /\ Sound(disk') /\ books'.seen = books.seen
           /\ live' \subseteq live /\ bare' \subseteq Candidates
           /\ account' \subseteq Symbols
           /\ faults' \in [unsaved : 0..MaxUnsaved, crashes : 0..MaxCrashes]
           /\ result \in {"ok", "down"} => books' = disk'
  <1>1. PICK X \in SUBSET books.pending :
            /\ Synced(seen, X, result)
            /\ bare' \subseteq bare \cup books.pending
            /\ Unsaved \/ UNCHANGED faults
    BY ReconciledSound DEF IInv, Ledger
  <1>2. /\ live' = live \ X /\ Sound(books') /\ Sound(disk')
        /\ books'.seen = books.seen
        /\ result \in {"ok", "down"} => books' = disk'
    BY <1>1 DEF Synced, Leaves, IInv, Ledger
  <1>3. bare' \subseteq Candidates
    BY <1>1, Parts DEF DataOK, Ledger, Sound, Books
  <1>4. account' \subseteq Symbols
    <2>1. /\ DataOK /\ books \in Books
          /\ live \in SUBSET Candidates /\ live' \in SUBSET Candidates
      BY <1>2, Parts DEF DataOK, Ledger, Sound
    <2>2. seen \in SUBSET Symbols
      BY <2>1, ReadingsType
    <2>3. ASSUME NEW b, Sound(b), account' \in Readings(b, live')
          PROVE  account' \subseteq Symbols
      BY <2>1, <2>3, ReadingsType DEF Sound
    <2> QED
      BY <1>1, <2>1, <2>2, <2>3 DEF Synced, Leaves, DataOK
  <1>5. faults' \in [unsaved : 0..MaxUnsaved, crashes : 0..MaxCrashes]
    BY <1>1, Parts, UnsavedType DEF DataOK
  <1> QED
    BY <1>2, <1>3, <1>4, <1>5

(* A sync promotes, forgets and settles, and may fail to save.             *)
LEMMA SyncInv ==
    ASSUME IInv, Sync
    PROVE  IInv'
  <1>1. /\ task' \in {"ok", "failed"} /\ pc \in LockFree
        /\ UNCHANGED <<brief, frame, healthy, entered, unclaimed, naked>>
    BY DEF Sync
  <1>2. PICK seen \in Readings(books, live) : Reconciled(seen, task')
    BY DEF Sync
  <1>3. /\ Sound(books') /\ Sound(disk') /\ books'.seen = books.seen
        /\ live' \subseteq live /\ bare' \subseteq Candidates
        /\ account' \subseteq Symbols
        /\ faults' \in [unsaved : 0..MaxUnsaved, crashes : 0..MaxCrashes]
    BY <1>1, <1>2, ReconciledInv
  <1>4. cur = {} /\ pc # "down"
    BY <1>1, Parts DEF LoopOK, LockFree, Placing
  <1>5. LoopOK' /\ Ledger'
    BY <1>1, <1>3, <1>4, Parts DEF LoopOK, Ledger, frame
  <1>6. DataOK'
    BY <1>1, <1>3, Parts DEF DataOK, frame
  <1> QED
    BY <1>5, <1>6, PartsNext

(* A resubmission is of an entry that is pending.                          *)
LEMMA ResubmitInv ==
    ASSUME IInv, NEW c \in Candidates, Resubmit(c)
    PROVE  IInv'
BY DEF IInv, TypeOK, Ledger, Resubmit, frame, reconciliation, Fresh, Owners

(* A refused sync leaves the books alone,                                  *)
LEMMA SyncRefusedInv ==
    ASSUME IInv, SyncRefused
    PROVE  IInv'
  <1>1. disk' \in {disk, books} /\ pc # "down"
    BY DEF SyncRefused, LockFree
  <1> QED
    BY <1>1 DEF IInv, TypeOK, Ledger, SyncRefused, frame, history, Fresh, Owners

(* and so do the stored health,                                            *)
LEMMA StoreHealthInv ==
    ASSUME IInv, StoreHealth
    PROVE  IInv'
BY DEF IInv, TypeOK, Ledger, StoreHealth, frame, history, Fresh, Owners

(* the start of a frame                                                    *)
LEMMA FrameStartsInv ==
    ASSUME IInv, FrameStarts
    PROVE  IInv'
  <1>1. pc = "idle" /\ cur = {} /\ plans = {}
    BY Parts DEF FrameStarts, LoopOK, Placing
  <1> QED
    BY <1>1, Parts, PartsNext
       DEF LoopOK, DataOK, Ledger, FrameStarts, reconciliation, history,
           Places, Placing, LockFree

(* and its failure.                                                        *)
LEMMA FrameFailsInv ==
    ASSUME IInv, FrameFails
    PROVE  IInv'
  <1>1. pc = "fetching" /\ cur = {} /\ plans = {}
    BY Parts DEF FrameFails, LoopOK, Placing
  <1> QED
    BY <1>1, Parts, PartsNext
       DEF LoopOK, DataOK, Ledger, FrameFails, reconciliation, history,
           Places, Placing, LockFree

(* An evaluation moves the campaigns and makes plans.                      *)
LEMMA EvaluateInv ==
    ASSUME IInv, Evaluate
    PROVE  IInv'
  <1>1. pc = "fetching" /\ cur = {}
    BY Parts DEF Evaluate, LoopOK, Placing
  <1>2. Sound(books') /\ books'.seen = books.seen
    BY Parts, CampaignSound DEF Evaluate, Ledger, Leaves
  <1>3. /\ Sound(disk')
        /\ faults' \in [unsaved : 0..MaxUnsaved, crashes : 0..MaxCrashes]
    <2>1. CASE books' = books
      BY <2>1, Parts DEF Evaluate, Ledger, DataOK
    <2>2. CASE books' # books
      BY <1>2, <2>2, Parts, SaveTriedSound DEF Evaluate, Ledger
    <2> QED
      BY <2>1, <2>2
  <1>4. plans' \subseteq Candidates /\ plans' \cap books'.seen = {}
    <2>1. PICK P \in Planned(books') : plans' = P \ books.seen
      BY DEF Evaluate
    <2>2. P \subseteq Candidates
      BY <2>1 DEF Planned, Funded, SecondLegs, Rejoins, OfRecipe
    <2> QED
      BY <1>2, <2>1, <2>2
  <1>5. LoopOK'
    BY <1>1, <1>4 DEF LoopOK, Evaluate, Places, Placing, LockFree
  <1>6. DataOK'
    BY <1>3, Parts DEF DataOK, Evaluate, reconciliation, history
  <1>7. Ledger'
    BY <1>1, <1>2, <1>3, <1>4 DEF Ledger, Evaluate
  <1> QED
    BY <1>5, <1>6, <1>7, PartsNext

(* apply_plans takes the plans or drops them.                              *)
LEMMA BeginInv ==
    ASSUME IInv, Begin
    PROVE  IInv'
  <1>1. pc = "planned" /\ cur = {} /\ UNCHANGED cur
    BY Parts DEF Begin, LoopOK, Placing
  <1>2. LoopOK'
    BY <1>1, Parts DEF Begin, LoopOK, Places, Placing, LockFree
  <1>3. DataOK' /\ Ledger'
    BY <1>1, Parts DEF Begin, DataOK, Ledger, reconciliation, history
  <1> QED
    BY <1>2, <1>3, PartsNext

(* Between two plans no order is being placed.                             *)
LEMMA ApplyingIdle == IInv /\ pc = "applying" => cur = {}
BY Parts DEF LoopOK, Placing

(* A skipped plan is dropped.                                              *)
LEMMA SkipInv ==
    ASSUME IInv, NEW c \in Candidates, Skip(c)
    PROVE  IInv'
  <1>1. plans \ {c} \in SUBSET Candidates /\ Done(plans \ {c})
    BY Parts DEF Skip, LoopOK
  <1>2. LoopOK' /\ cur' = {} /\ plans' = plans \ {c} /\ pc' # "down"
    BY <1>1, DoneType
  <1>3. DataOK' /\ Ledger'
    BY <1>2, Parts DEF Skip, DataOK, Ledger, reconciliation, history
  <1> QED
    BY <1>2, <1>3, PartsNext

(* A rejection writes nothing but that the candidate was seen.             *)
LEMMA RejectedSound ==
    ASSUME IInv, NEW c \in Candidates, Reject(c)
    PROVE  /\ Sound(books') /\ Owners(books') = Owners(books)
           /\ books'.seen = books.seen \cup {c}
  <1>1. CASE books' = [books EXCEPT !.seen = @ \cup {c}]
    BY <1>1, SeenSound, Parts DEF Ledger
  <1>2. CASE books' = [WithoutCampaigns(books, c) EXCEPT !.seen = @ \cup {c}]
    <2>1. Leaves(books, {}, WithoutCampaigns(books, c))
      BY WithoutCampaignsSound, Parts DEF Ledger
    <2>2. PICK b : b = WithoutCampaigns(books, c)
      OBVIOUS
    <2>3. /\ Sound(b) /\ b.seen = books.seen /\ Owners(b) = Owners(books)
          /\ books' = [b EXCEPT !.seen = @ \cup {c}]
      BY <1>2, <2>1, <2>2 DEF Leaves
    <2> QED
      BY <2>3, SeenSound
  <1>3. PICK b \in {books, WithoutCampaigns(books, c)} :
            books' = [b EXCEPT !.seen = @ \cup {c}]
    BY DEF Reject
  <1> QED
    BY <1>1, <1>2, <1>3

(* A rejected candidate is seen, in memory.                                *)
LEMMA RejectInv ==
    ASSUME IInv, NEW c \in Candidates, Reject(c)
    PROVE  IInv'
  <1>1. plans \ {c} \in SUBSET Candidates /\ Done(plans \ {c})
    BY Parts DEF Reject, LoopOK
  <1>2. LoopOK' /\ cur' = {} /\ plans' = plans \ {c} /\ pc' # "down"
    BY <1>1, DoneType
  <1>3. Sound(books') /\ books'.seen = books.seen \cup {c}
    BY RejectedSound
  <1>4. DataOK'
    BY Parts DEF Reject, DataOK, reconciliation, history
  <1>5. Ledger'
    BY <1>2, <1>3, Parts DEF Reject, Ledger
  <1> QED
    BY <1>2, <1>4, <1>5, PartsNext

(* The pending entry that a liquidation entry replaces leaves the books.   *)
LEMMA OneResolvedSound ==
    ASSUME NEW b, Sound(b), NEW d \in b.pending
    PROVE  /\ Leaves(b, {d}, Resolved(b, {}, {d}, {}, {}))
           /\ Leaves(b, {d}, Resolved(b, {}, {}, {d}, {}))
           /\ Leaves(b, {d}, Resolved(b, {}, {}, {}, {d}))
  <1>1. /\ Outcomes(b, {}, {d}, {}, {}) /\ Outcomes(b, {}, {}, {d}, {})
        /\ Outcomes(b, {}, {}, {}, {d})
    BY DEF Outcomes
  <1>2. /\ Leaves(b, {d} \cup {} \cup {}, Resolved(b, {}, {d}, {}, {}))
        /\ Leaves(b, {} \cup {d} \cup {}, Resolved(b, {}, {}, {d}, {}))
        /\ Leaves(b, {} \cup {} \cup {d}, Resolved(b, {}, {}, {}, {d}))
    BY <1>1, ResolvedSound
  <1>3. /\ {d} \cup {} \cup {} = {d} /\ {} \cup {d} \cup {} = {d}
        /\ {} \cup {} \cup {d} = {d}
    OBVIOUS
  <1> QED
    BY <1>2, <1>3

(* Superseding ends one pending entry or nothing.                          *)
LEMMA SupersededSound ==
    ASSUME IInv, NEW c \in Candidates, Supersede(c)
    PROVE  /\ bare' \subseteq bare \cup books.pending
           /\ \/ UNCHANGED <<books, live, disk, faults>> /\ Done(plans \ {c})
              \/ \E d \in books.pending :
                    /\ Leaves(books, {d}, books') /\ live' = live \ {d}
                    /\ SaveTried(books')
                    /\ UNCHANGED <<plans, cur, pc>> \/ Done(plans \ {c})
  <1>1. PICK d \in books.pending :
            \/ /\ bare' = bare \ {d}
               /\ books' \in
                    {Resolved(books, {}, {d}, {}, {}),
                     Resolved(books, {}, {}, {d}, {}),
                     Resolved(books, {}, {}, {}, {d})}
               /\ live' = live \ {d}
               /\ \/ Saved(books') /\ UNCHANGED <<plans, cur, pc>>
                  \/ Unsaved /\ UNCHANGED disk /\ Done(plans \ {c})
            \/ /\ bare' \in {bare, bare \cup ({d} \cap live)}
               /\ Done(plans \ {c})
               /\ UNCHANGED <<live, books, disk, faults>>
    BY DEF Supersede
  <1>2. books' \in {Resolved(books, {}, {d}, {}, {}),
                    Resolved(books, {}, {}, {d}, {}),
                    Resolved(books, {}, {}, {}, {d})}
            => Leaves(books, {d}, books')
    BY OneResolvedSound, Parts DEF Ledger
  <1> QED
    BY <1>1, <1>2 DEF SaveTried

(* It keeps the invariant.                                                 *)
LEMMA SupersedeInv ==
    ASSUME IInv, NEW c \in Candidates, Supersede(c)
    PROVE  IInv'
  <1>1. /\ cur = {} /\ plans \ {c} \in SUBSET Candidates
        /\ pc = "applying" /\ bare' \subseteq Candidates
        /\ UNCHANGED <<brief, account, enabled, reconciliation, entered,
                       unclaimed, naked>>
    BY ApplyingIdle, SupersededSound, Parts
       DEF Supersede, LoopOK, DataOK, Ledger, Sound, Books
  <1>2. LoopOK' /\ cur' = {} /\ plans' \subseteq plans /\ pc' # "down"
    <2>1. CASE Done(plans \ {c})
      BY <1>1, <2>1, DoneType
    <2>2. CASE UNCHANGED <<plans, cur, pc>>
      BY <1>1, <2>2, Parts DEF LoopOK
    <2> QED
      BY <2>1, <2>2, SupersededSound
  <1>3. /\ Sound(books') /\ Sound(disk') /\ books'.seen = books.seen
        /\ live' \subseteq live
        /\ faults' \in [unsaved : 0..MaxUnsaved, crashes : 0..MaxCrashes]
    <2>1. CASE UNCHANGED <<books, live, disk, faults>>
      BY <2>1, Parts DEF Ledger, DataOK
    <2>2. CASE \E d \in books.pending :
                /\ Leaves(books, {d}, books') /\ live' = live \ {d}
                /\ SaveTried(books')
      BY <2>2, Parts, SaveTriedSound DEF Leaves, Ledger
    <2> QED
      BY <2>1, <2>2, SupersededSound
  <1>4. DataOK'
    BY <1>1, <1>3, Parts DEF DataOK, reconciliation
  <1>5. Ledger'
    BY <1>2, <1>3, Parts DEF Ledger
  <1> QED
    BY <1>2, <1>4, <1>5, PartsNext

(* A claim makes its candidate seen and fresh.                             *)
LEMMA ClaimedSound ==
    ASSUME IInv, NEW c \in Candidates, Claim(c)
    PROVE  /\ Sound(books') /\ Owners(books') = Owners(books)
           /\ books'.seen = books.seen \cup {c}
           /\ Fresh(books', c)
  <1>1. Leaves(books, {}, WithoutCampaigns(books, c))
    BY WithoutCampaignsSound, Parts DEF Ledger
  <1>2. PICK b : b = WithoutCampaigns(books, c)
    OBVIOUS
  <1>3. /\ Sound(b) /\ b.seen = books.seen /\ Owners(b) = Owners(books)
        /\ books' = [b EXCEPT !.seen = @ \cup {c}]
    BY <1>1, <1>2 DEF Leaves, Claim
  <1>4. c \notin b.seen
    BY <1>3, Parts DEF Claim, Ledger
  <1>5. Fresh(b, c)
    BY <1>3, <1>4, UnseenIsFresh
  <1>6. Sound(books') /\ books'.seen = b.seen \cup {c} /\ Owners(books') = Owners(b)
    BY <1>3, SeenSound
  <1>7. books'.filled = b.filled /\ books'.deferred = b.deferred
    BY <1>3 DEF Sound, Books
  <1>8. Fresh(books', c)
    BY <1>5, <1>6, <1>7 DEF Fresh
  <1> QED
    BY <1>3, <1>6, <1>8

(* It keeps the invariant, saved or not.                                   *)
LEMMA ClaimInv ==
    ASSUME IInv, NEW c \in Candidates, Claim(c)
    PROVE  IInv'
  <1>1. /\ pc' = "claimed" /\ cur' = {c} /\ plans' = plans \ {c}
        /\ UNCHANGED <<brief, live, account, enabled, reconciliation, entered,
                       naked, bare>>
    BY DEF Claim
  <1>2. LoopOK'
    BY <1>1, Parts DEF LoopOK, Places, Placing, LockFree
  <1>3. /\ Sound(disk') /\ unclaimed' \subseteq Candidates
        /\ faults' \in [unsaved : 0..MaxUnsaved, crashes : 0..MaxCrashes]
    <2>1. SaveTried(books') /\ unclaimed' \in {unclaimed, unclaimed \cup {c}}
      BY DEF Claim, SaveTried
    <2> QED
      BY <2>1, ClaimedSound, SaveTriedSound, Parts DEF Ledger, DataOK
  <1>4. DataOK'
    BY <1>1, <1>3, Parts DEF DataOK, reconciliation
  <1>5. Ledger'
    BY <1>1, <1>3, Parts, ClaimedSound DEF Ledger
  <1> QED
    BY <1>2, <1>4, <1>5, PartsNext

-----------------------------------------------------------------------------
(* The order being placed.                                                 *)

(* What is known of the candidate whose order is being placed.             *)
LEMMA PlacingFacts ==
    ASSUME IInv, NEW c \in Candidates, cur = {c}
    PROVE  /\ c \in books.seen /\ Fresh(books, c) /\ Sound(books)
           /\ pc \in {"filled", "lost"} => c \in books.attempts
           /\ Leaves(books, {}, Attempted(c))
           /\ c \in Attempted(c).attempts /\ Fresh(Attempted(c), c)
BY Parts, AttemptedSound DEF Ledger

(* The account shows known symbols.                                        *)
LEMMA AccountType ==
    ASSUME IInv, account' \in {account} \cup Readings(books, live)
    PROVE  account' \subseteq Symbols
  <1>1. DataOK /\ books \in Books /\ live \in SUBSET Candidates
    BY Parts DEF DataOK, Ledger, Sound
  <1>2. Readings(books, live) \subseteq SUBSET Symbols
    BY <1>1, ReadingsType
  <1> QED
    BY <1>1, <1>2 DEF DataOK

(* After the last step of an order: sound books with nothing unclaimed.    *)
LEMMA PlacedInv ==
    ASSUME IInv, NEW left \in SUBSET plans, Done(left),
           Sound(books'), books'.seen = books.seen, Sound(disk'), DataOK'
    PROVE  IInv'
  <1>1. LoopOK' /\ cur' = {} /\ plans' = left /\ pc' # "down"
    <2>1. left \in SUBSET Candidates
      BY Parts DEF LoopOK
    <2> QED
      BY <2>1, DoneType
  <1>2. Ledger'
    BY <1>1, Parts DEF Ledger
  <1> QED
    BY <1>1, <1>2, PartsNext

(* A save that is only tried when something changed.                       *)
LEMMA MaybeSavedSound ==
    ASSUME IInv, Sound(books'),
           IF books' = books THEN UNCHANGED <<disk, faults>>
           ELSE SaveTried(books')
    PROVE  /\ Sound(disk')
           /\ faults' \in [unsaved : 0..MaxUnsaved, crashes : 0..MaxCrashes]
  <1>1. CASE UNCHANGED <<disk, faults>>
    BY <1>1, Parts DEF Ledger, DataOK
  <1>2. CASE SaveTried(books')
    BY <1>2, Parts, SaveTriedSound DEF Ledger
  <1> QED
    BY <1>1, <1>2

(* A maker entry is written down.                                          *)
LEMMA WrittenSound ==
    ASSUME IInv, NEW c \in Candidates, cur = {c}
    PROVE  /\ Sound(Written(c)) /\ Written(c).seen = books.seen
           /\ c \in Written(c).pending
           /\ Owners(Written(c)) = Owners(books) \cup {c}
  <1>1. PICK a : a = Attempted(c)
    OBVIOUS
  <1>2. /\ Sound(a) /\ a.seen = books.seen /\ Owners(a) = Owners(books)
        /\ c \in a.attempts /\ Fresh(a, c)
        /\ Written(c) = [a EXCEPT !.pending = @ \cup {c}]
    BY <1>1, PlacingFacts DEF Leaves, Written
  <1> QED
    BY <1>2, PendingSound

(* A refusal may leave an attempt, and on disk what it wrote down,         *)
LEMMA RefusedInv ==
    ASSUME IInv, NEW c \in Candidates, Refused(c)
    PROVE  IInv'
  <1>1. Sound(books') /\ books'.seen = books.seen
    BY PlacingFacts DEF Refused, Leaves
  <1>2. account' \subseteq Symbols
    BY AccountType DEF Refused
  <1>3. /\ Sound(disk')
        /\ faults' \in [unsaved : 0..MaxUnsaved, crashes : 0..MaxCrashes]
    <2>1. CASE IF books' = books THEN UNCHANGED <<disk, faults>>
               ELSE SaveTried(books')
      BY <1>1, <2>1, MaybeSavedSound
    <2>2. CASE Unsaved /\ disk' = Written(c)
      BY <2>2, Parts, UnsavedType, WrittenSound DEF Refused
    <2> QED
      BY <2>1, <2>2 DEF Refused
  <1>4. DataOK'
    BY <1>2, <1>3, Parts DEF Refused, DataOK, reconciliation, history
  <1> QED
    BY <1>1, <1>3, <1>4, PlacedInv DEF Refused

(* an entry that could not be written down is owned,                       *)
LEMMA StrandedInv ==
    ASSUME IInv, NEW c \in Candidates, Stranded(c)
    PROVE  IInv'
  <1>1. Sound(books') /\ books'.seen = books.seen
    BY WrittenSound DEF Stranded
  <1>2. account' \subseteq Symbols
    BY AccountType DEF Stranded
  <1>3. /\ Sound(disk')
        /\ faults' \in [unsaved : 0..MaxUnsaved, crashes : 0..MaxCrashes]
    BY <1>1, Parts, UnsavedType DEF Stranded, Ledger
  <1>4. DataOK'
    BY <1>2, <1>3, Parts DEF Stranded, DataOK, reconciliation, history
  <1> QED
    BY <1>1, <1>3, <1>4, PlacedInv DEF Stranded

(* What there is of a maker entry c in the books: it is owned, or it was   *)
(* resolved at once or undone.                                             *)
Begun(b, c) ==
    /\ Sound(b) /\ b.seen = books.seen
    /\ Owners(b) = Owners(books) \cup {c} \/ Owners(b) = Owners(books)

(* The outcomes of a maker entry: owned and live, or neither.              *)
LEMMA StartedSound ==
    ASSUME IInv, NEW c \in Candidates, StartPending(c)
    PROVE  /\ Begun(books', c) /\ Begun(disk', c)
           /\ \/ /\ Owners(books') = Owners(books) \cup {c}
                 /\ live' = live \cup {c}
              \/ Owners(books') = Owners(books) /\ UNCHANGED live
           /\ bare' \subseteq bare \cup {c}
           /\ Unsaved \/ UNCHANGED faults
  <1> DEFINE w == Written(c)
             ended == {Resolved(w, {}, {}, {c}, {}), Resolved(w, {}, {}, {}, {c})}
  <1>1. PICK b : b = w
    OBVIOUS
  <1>2. /\ Sound(b) /\ b.seen = books.seen /\ c \in b.pending
        /\ Owners(b) = Owners(books) \cup {c}
        /\ c \notin Owners(books)
    BY <1>1, WrittenSound, PlacingFacts DEF StartPending, Fresh
  <1>3. Begun(b, c) /\ Begun(Halted(b), c) /\ Owners(Halted(b)) = Owners(b)
    BY <1>2, HaltSound DEF Begun, Leaves
  <1>4. \A e \in ended :
            /\ Begun(e, c) /\ Begun(Halted(e), c)
            /\ Owners(e) = Owners(books) /\ Owners(Halted(e)) = Owners(books)
    <2> SUFFICES ASSUME NEW e \in ended
                 PROVE  /\ Begun(e, c) /\ Begun(Halted(e), c)
                        /\ Owners(e) = Owners(books)
                        /\ Owners(Halted(e)) = Owners(books)
      OBVIOUS
    <2>1. Leaves(b, {c}, e)
      BY <1>1, <1>2, OneResolvedSound
    <2>2. Sound(e) /\ e.seen = books.seen /\ Owners(e) = Owners(books)
      BY <1>2, <2>1 DEF Leaves
    <2>3. Leaves(e, {}, Halted(e))
      BY <2>2, HaltSound
    <2> QED
      BY <2>2, <2>3 DEF Begun, Leaves
  <1>5. Begun(Attempted(c), c) /\ Owners(Attempted(c)) = Owners(books)
    BY PlacingFacts DEF StartPending, Leaves, Begun
  <1>6. \/ /\ books' = b /\ Saved(books')
           /\ live' = live \cup {c} /\ UNCHANGED bare
        \/ /\ books' = Halted(b) /\ (Saved(books') \/ (Unsaved /\ disk' = b))
           /\ live' = live \cup {c} /\ bare' = bare \cup {c}
        \/ books' \in ended /\ Saved(books') /\ UNCHANGED <<live, bare>>
        \/ /\ books' \in {Halted(e) : e \in ended}
           /\ Unsaved /\ disk' \in {b, books'}
           /\ UNCHANGED <<live, bare>>
        \/ /\ books' = Attempted(c) /\ Unsaved /\ disk' = b
           /\ UNCHANGED <<live, bare>>
    BY <1>1 DEF StartPending
  <1> HIDE DEF ended, w
  <1>7. CASE books' = b /\ Saved(books') /\ live' = live \cup {c} /\ UNCHANGED bare
    BY <1>2, <1>3, <1>7 DEF Saved
  <1>8. CASE /\ books' = Halted(b) /\ (Saved(books') \/ (Unsaved /\ disk' = b))
             /\ live' = live \cup {c} /\ bare' = bare \cup {c}
    BY <1>2, <1>3, <1>8 DEF Saved
  <1>9. CASE books' \in ended /\ Saved(books') /\ UNCHANGED <<live, bare>>
    BY <1>4, <1>9 DEF Saved
  <1>10. CASE /\ books' \in {Halted(e) : e \in ended}
              /\ Unsaved /\ disk' \in {b, books'}
              /\ UNCHANGED <<live, bare>>
    <2>1. PICK e \in ended : books' = Halted(e)
      BY <1>10
    <2>2. Begun(books', c) /\ Owners(books') = Owners(books)
      BY <1>4, <2>1
    <2> QED
      BY <1>3, <1>10, <2>2
  <1>11. CASE /\ books' = Attempted(c) /\ Unsaved /\ disk' = b
              /\ UNCHANGED <<live, bare>>
    BY <1>3, <1>5, <1>11
  <1> QED
    BY <1>6, <1>7, <1>8, <1>9, <1>10, <1>11

(* a maker entry a pending entry, an outcome or an attempt,                *)
LEMMA StartPendingInv ==
    ASSUME IInv, NEW c \in Candidates, StartPending(c)
    PROVE  IInv'
  <1>1. /\ Sound(books') /\ books'.seen = books.seen /\ Sound(disk')
        /\ live' \subseteq live \cup {c} /\ bare' \subseteq bare \cup {c}
    BY StartedSound DEF Begun
  <1>2. account' \subseteq Symbols
    BY AccountType DEF StartPending
  <1>3. faults' \in [unsaved : 0..MaxUnsaved, crashes : 0..MaxCrashes]
    BY StartedSound, UnsavedType, Parts DEF DataOK
  <1>4. DataOK'
    BY <1>1, <1>2, <1>3, Parts DEF StartPending, DataOK, reconciliation
  <1> QED
    BY <1>1, <1>4, PlacedInv DEF StartPending

(* a market order an attempt,                                              *)
LEMMA PlaceMarketInv ==
    ASSUME IInv, NEW c \in Candidates, PlaceMarket(c)
    PROVE  IInv'
  <1>1. /\ Sound(books') /\ books'.seen = books.seen
        /\ c \in books'.attempts /\ Fresh(books', c) /\ c \in books'.seen
    BY PlacingFacts DEF PlaceMarket, Leaves
  <1>2. account' \subseteq Symbols
    BY AccountType DEF PlaceMarket
  <1>3. /\ Sound(disk')
        /\ faults' \in [unsaved : 0..MaxUnsaved, crashes : 0..MaxCrashes]
    BY <1>1, Parts, SaveTriedSound DEF PlaceMarket, Ledger
  <1>4. DataOK'
    BY <1>2, <1>3, Parts DEF PlaceMarket, DataOK, reconciliation
  <1>5. LoopOK'
    BY Parts DEF PlaceMarket, LoopOK, Places, Placing
  <1>6. Ledger'
    BY <1>1, <1>3, Parts DEF PlaceMarket, Ledger
  <1> QED
    BY <1>4, <1>5, <1>6, PartsNext

(* a bracket a formal position,                                            *)
LEMMA BracketedInv ==
    ASSUME IInv, NEW c \in Candidates, Bracketed(c)
    PROVE  IInv'
  <1>1. Sound(books') /\ books'.seen = books.seen
    BY PlacingFacts, PromotedSound DEF Bracketed
  <1>2. /\ Sound(disk')
        /\ faults' \in [unsaved : 0..MaxUnsaved, crashes : 0..MaxCrashes]
    BY <1>1, Parts, SaveTriedSound DEF Bracketed, Ledger
  <1>3. DataOK'
    BY <1>2, Parts DEF Bracketed, DataOK, reconciliation, history
  <1> QED
    BY <1>1, <1>2, <1>3, PlacedInv DEF Bracketed

(* Whatever is recorded of a failed bracket leaves what is owned alone.    *)
LEMMA BracketRecorded ==
    ASSUME IInv, NEW c \in Candidates, cur = {c}, pc \in {"filled", "lost"},
           NEW closed, NEW told, books' \in Recorded(books, c, closed, told)
    PROVE  Leaves(books, {}, books')
BY PlacingFacts, RecordedSound

(* a flattened fill its record.                                            *)
LEMMA FlattenedInv ==
    ASSUME IInv, NEW c \in Candidates, Flattened(c)
    PROVE  IInv'
  <1>1. Sound(books') /\ books'.seen = books.seen
    <2>1. PICK told \in BOOLEAN : books' \in Recorded(books, c, TRUE, told)
      BY DEF Flattened
    <2>2. Leaves(books, {}, books')
      BY <2>1, BracketRecorded DEF Flattened
    <2> QED
      BY <2>2 DEF Leaves
  <1>2. /\ Sound(disk')
        /\ faults' \in [unsaved : 0..MaxUnsaved, crashes : 0..MaxCrashes]
    BY <1>1, MaybeSavedSound DEF Flattened
  <1>3. DataOK'
    BY <1>2, Parts DEF Flattened, DataOK, reconciliation, history
  <1> QED
    BY <1>1, <1>2, <1>3, PlacedInv DEF Flattened

(* A failed protection leaves its record and the halt.                     *)
LEMMA FailedSound ==
    ASSUME IInv, NEW c \in Candidates, ProtectionFailed(c)
    PROVE  /\ Leaves(books, {}, books')
           /\ SaveTried(books') \/ (Unsaved /\ Leaves(books, {}, disk'))
  <1>1. PICK b \in Recorded(books, c, c \notin live', TRUE) :
            /\ books' = Halted(b)
            /\ SaveTried(books') \/ (Unsaved /\ disk' = b)
    BY DEF ProtectionFailed
  <1>2. Leaves(books, {}, b)
    BY <1>1, PlacingFacts, RecordedSound DEF ProtectionFailed
  <1>3. Leaves(b, {}, books')
    BY <1>1, <1>2, HaltSound DEF Leaves
  <1>4. Leaves(books, {}, books')
    BY <1>2, <1>3 DEF Leaves
  <1> QED
    BY <1>1, <1>2, <1>4

(* It keeps the invariant, whichever of the two writes fails.              *)
LEMMA ProtectionFailedInv ==
    ASSUME IInv, NEW c \in Candidates, ProtectionFailed(c)
    PROVE  IInv'
  <1>1. Sound(books') /\ books'.seen = books.seen
    BY FailedSound DEF Leaves
  <1>2. /\ Sound(disk')
        /\ faults' \in [unsaved : 0..MaxUnsaved, crashes : 0..MaxCrashes]
    <2>1. CASE SaveTried(books')
      BY <1>1, <2>1, Parts, SaveTriedSound DEF Ledger
    <2>2. CASE Unsaved /\ Leaves(books, {}, disk')
      BY <2>2, Parts, UnsavedType DEF Leaves
    <2> QED
      BY <2>1, <2>2, FailedSound
  <1>3. live' \subseteq live /\ naked' \subseteq naked \cup {c}
    BY DEF ProtectionFailed
  <1>4. DataOK'
    BY <1>2, <1>3, Parts DEF ProtectionFailed, DataOK, reconciliation
  <1>5. {} \in SUBSET plans /\ Done({})
    BY DEF ProtectionFailed
  <1> QED
    BY <1>1, <1>2, <1>4, <1>5, PlacedInv

(* A forgotten fill leaves a record or nothing.                            *)
LEMMA ForgottenInv ==
    ASSUME IInv, NEW c \in Candidates, Forgotten(c)
    PROVE  IInv'
  <1>1. Sound(books') /\ books'.seen = books.seen
    <2>1. Leaves(books, {}, books')
      BY BracketRecorded DEF Forgotten
    <2> QED
      BY <2>1 DEF Leaves
  <1>2. /\ Sound(disk')
        /\ faults' \in [unsaved : 0..MaxUnsaved, crashes : 0..MaxCrashes]
    BY <1>1, MaybeSavedSound DEF Forgotten
  <1>3. DataOK'
    BY <1>2, Parts DEF Forgotten, DataOK, reconciliation, history
  <1> QED
    BY <1>1, <1>2, <1>3, PlacedInv DEF Forgotten

-----------------------------------------------------------------------------

(* The actor of a manual close is a mark on a held position.               *)
LEMMA ManualSound ==
    ASSUME IInv, NEW c \in Candidates, ManualClose(c)
    PROVE  Leaves(books, {}, books')
BY Parts DEF ManualClose, Ledger, Leaves, Sound, BooksAgreeOn, Owners, Books

(* A manual close keeps the invariant.                                     *)
LEMMA ManualCloseInv ==
    ASSUME IInv, NEW c \in Candidates, ManualClose(c)
    PROVE  IInv'
  <1>1. Sound(books') /\ books'.seen = books.seen /\ live' \subseteq live
    BY ManualSound DEF Leaves, ManualClose
  <1>2. /\ Sound(disk')
        /\ faults' \in [unsaved : 0..MaxUnsaved, crashes : 0..MaxCrashes]
    BY <1>1, Parts, SaveTriedSound DEF ManualClose, Ledger
  <1>3. DataOK'
    BY <1>1, <1>2, Parts
       DEF ManualClose, DataOK, frame, reconciliation, history
  <1>4. LoopOK' /\ cur = {} /\ cur' = {}
    BY Parts DEF ManualClose, LoopOK, frame, Placing
  <1>5. Ledger'
    BY <1>1, <1>2, <1>4, Parts DEF ManualClose, Ledger, frame
  <1> QED
    BY <1>3, <1>4, <1>5, PartsNext

(* A crash continues from the disk.                                        *)
LEMMA CrashInv ==
    ASSUME IInv, Crash
    PROVE  IInv'
  <1>1. faults' \in [unsaved : 0..MaxUnsaved, crashes : 0..MaxCrashes]
    BY TradingAssumption, Parts DEF Crash, DataOK
  <1>2. DataOK'
    BY <1>1, Parts DEF Crash, DataOK
  <1>3. LoopOK'
    BY DEF Crash, LoopOK, Places, Placing, LockFree
  <1>4. Sound(disk')
    <2>1. CASE disk' = disk
      BY <2>1, Parts DEF Ledger
    <2>2. ASSUME NEW c \in cur, pc = "claimed", disk' = Written(c)
          PROVE  Sound(disk')
      <3>1. c \in Candidates /\ cur = {c}
        BY Parts DEF LoopOK
      <3> QED
        BY <2>2, <3>1, WrittenSound
    <2> QED
      BY <2>1, <2>2 DEF Crash
  <1>5. Ledger'
    BY <1>4 DEF Crash, Ledger
  <1> QED
    BY <1>2, <1>3, <1>5, PartsNext

(* A restart is a sync that succeeds,                                      *)
LEMMA ConnectInv ==
    ASSUME IInv, Connect
    PROVE  IInv'
  <1>1. /\ Sound(books') /\ Sound(disk') /\ books'.seen = books.seen
        /\ live' \subseteq live /\ bare' \subseteq Candidates
        /\ account' \subseteq Symbols
        /\ faults' \in [unsaved : 0..MaxUnsaved, crashes : 0..MaxCrashes]
    BY ReconciledInv DEF Connect
  <1>2. cur = {} /\ plans = {} /\ pc' = "idle" /\ UNCHANGED <<plans, cur>>
    BY Parts DEF Connect, LoopOK, Placing
  <1>3. DataOK'
    BY <1>1, Parts DEF Connect, DataOK, reconciliation
  <1>4. LoopOK'
    BY <1>2 DEF LoopOK, Places, Placing, LockFree
  <1>5. Ledger'
    BY <1>1, <1>2, Parts DEF Ledger
  <1> QED
    BY <1>3, <1>4, <1>5, PartsNext

(* and one that fails leaves its file.                                     *)
LEMMA ConnectFailsInv ==
    ASSUME IInv, ConnectFails
    PROVE  IInv'
  <1>1. /\ Sound(books') /\ Sound(disk') /\ books' = disk'
        /\ live' \subseteq live /\ bare' \subseteq Candidates
        /\ account' \subseteq Symbols
        /\ faults' \in [unsaved : 0..MaxUnsaved, crashes : 0..MaxCrashes]
    BY ReconciledInv DEF ConnectFails
  <1>2. cur = {} /\ plans = {} /\ UNCHANGED <<pc, plans, cur>>
    BY Parts DEF ConnectFails, LoopOK, Placing, frame
  <1>3. DataOK'
    BY <1>1, Parts DEF ConnectFails, DataOK, reconciliation, frame
  <1>4. LoopOK'
    BY <1>2, Parts DEF LoopOK
  <1>5. Ledger'
    BY <1>1, <1>2 DEF Ledger
  <1> QED
    BY <1>3, <1>4, <1>5, PartsNext

(* Nothing changes when nothing happens.                                   *)
LEMMA StutterInv ==
    ASSUME IInv, UNCHANGED vars
    PROVE  IInv'
BY DEF IInv, TypeOK, Ledger, vars, frame, reconciliation, history, Fresh,
       Owners

(* IInv is inductive.                                                      *)
LEMMA StepInv == IInv /\ [Next]_vars => IInv'
  <1> SUFFICES ASSUME IInv, [Next]_vars PROVE IInv'
    OBVIOUS
  <1>1. ASSUME NEW s \in Symbols, Exit(s) PROVE IInv'
    BY <1>1, ExitInv
  <1>2. CASE Sync
    BY <1>2, SyncInv
  <1>3. CASE SyncRefused
    BY <1>3, SyncRefusedInv
  <1>4. CASE StoreHealth
    BY <1>4, StoreHealthInv
  <1>5. CASE FrameStarts
    BY <1>5, FrameStartsInv
  <1>6. CASE FrameFails
    BY <1>6, FrameFailsInv
  <1>7. CASE Evaluate
    BY <1>7, EvaluateInv
  <1>8. CASE Apply
    <2>1. CASE Begin
      BY <2>1, BeginInv
    <2>2. ASSUME NEW c \in Candidates,
                 Skip(c) \/ Reject(c) \/ Supersede(c) \/ Claim(c)
          PROVE  IInv'
      BY <2>2, SkipInv, RejectInv, SupersedeInv, ClaimInv
    <2> QED
      BY <1>8, <2>1, <2>2 DEF Apply
  <1>9. CASE Place
    <2>1. ASSUME NEW c \in Candidates,
                 \/ Refused(c) \/ Stranded(c) \/ StartPending(c)
                 \/ PlaceMarket(c) \/ Bracketed(c) \/ Flattened(c)
                 \/ ProtectionFailed(c) \/ Forgotten(c)
          PROVE  IInv'
      BY <2>1, RefusedInv, StrandedInv, StartPendingInv, PlaceMarketInv, BracketedInv,
         FlattenedInv, ProtectionFailedInv, ForgottenInv
    <2> QED
      BY <1>9, <2>1 DEF Place
  <1>10. ASSUME NEW c \in Candidates, Resubmit(c) \/ ManualClose(c)
         PROVE  IInv'
    BY <1>10, ResubmitInv, ManualCloseInv
  <1>11. CASE Crash
    BY <1>11, CrashInv
  <1>12. CASE Connect \/ ConnectFails
    BY <1>12, ConnectInv, ConnectFailsInv
  <1>13. CASE UNCHANGED vars
    BY <1>13, StutterInv
  <1> QED
    BY <1>1, <1>2, <1>3, <1>4, <1>5, <1>6, <1>7, <1>8, <1>9, <1>10, <1>11,
       <1>12, <1>13 DEF Next

(* Every reachable state satisfies the invariant.                          *)
LEMMA Invariance == Spec => []IInv
  <1>1. Init => IInv
    BY InitInv
  <1>2. IInv /\ [Next]_vars => IInv'
    BY StepInv
  <1> QED
    BY <1>1, <1>2, PTL DEF Spec

(* Every reachable state has the shape TypeOK says, whatever the           *)
(* candidates, the slots and the faults.                                   *)
THEOREM TypeCorrect == Spec => []TypeOK
BY Invariance, PTL DEF IInv

(* The books never contradict themselves, in memory and on disk, however   *)
(* many saves fail and however often the process crashes.                  *)
THEOREM BooksAlwaysAgree == Spec => []BooksAgree
  <1>1. IInv => BooksAgree
    BY DEF IInv, Ledger, Sound, BooksAgree
  <1> QED
    BY <1>1, Invariance, PTL

-----------------------------------------------------------------------------

(***************************************************************************)
(* How books grow: a step may raise the halt, add outcomes, and arm the    *)
(* campaign of a second leg whose first leg has an outcome; only a crash   *)
(* takes any of it back.                                                   *)
(***************************************************************************)
FirstLeg(b, c) == \E d \in b.accounted :
    /\ SymbolOf(d) = SymbolOf(c)
    /\ FollowUp(brief[d].recipe) = brief[c].recipe

Grown(b, d) ==
    /\ b.halt => d.halt
    /\ b.accounted \subseteq d.accounted
    /\ \A c \in Candidates :
        d.campaign[c] # "none" => b.campaign[c] # "none" \/ FirstLeg(d, c)

(* What grew twice has grown.                                              *)
LEMMA GrownTwice ==
    ASSUME NEW a, NEW b, NEW d, Grown(a, b), Grown(b, d)
    PROVE  Grown(a, d)
BY DEF Grown, FirstLeg

(* The records of a trade,                                                 *)
LEMMA RoundTripsGrown ==
    ASSUME NEW b \in Books, NEW S \in SUBSET Candidates
    PROVE  Grown(b, RoundTrips(b, S))
BY DEF Grown, RoundTrips, Books

(* a promotion,                                                            *)
LEMMA PromotedGrown ==
    ASSUME NEW b \in Books, NEW S \in SUBSET Candidates
    PROVE  Grown(b, Promoted(b, S))
BY DEF Grown, Promoted, Books

(* an outcome that was owed,                                               *)
LEMMA SettledGrown ==
    ASSUME NEW b \in Books, NEW S \in SUBSET Candidates
    PROVE  Grown(b, Settled(b, S))
  <1> DEFINE r == RoundTrips(b, S)
  <1>1. r \in Books /\ Grown(b, r)
    BY RoundTripsFields, RoundTripsGrown
  <1>2. Settled(b, S) = [r EXCEPT !.deferred = @ \ S]
    BY DEF Settled
  <1> HIDE DEF r
  <1>3. Grown(r, Settled(b, S))
    BY <1>1, <1>2 DEF Grown, Books
  <1> QED
    BY <1>1, <1>3, GrownTwice

(* the outcomes of pending entries,                                        *)
LEMMA ResolvedGrown ==
    ASSUME NEW b \in Books,
           NEW promoted \in SUBSET Candidates, NEW unfilled,
           NEW closed \in SUBSET Candidates, NEW late
    PROVE  Grown(b, Resolved(b, promoted, unfilled, closed, late))
  <1> DEFINE p == Promoted(b, promoted)
             q == RoundTrips(p, closed)
             r == Resolved(b, promoted, unfilled, closed, late)
  <1>1. p \in Books /\ Grown(b, p)
    BY PromotedFields, PromotedGrown
  <1> HIDE DEF p
  <1>2. q \in Books /\ Grown(p, q)
    BY <1>1, RoundTripsFields, RoundTripsGrown
  <1>3. r = [q EXCEPT
            !.pending = @ \ (promoted \cup unfilled \cup closed \cup late),
            !.filled = @ \cup late,
            !.deferred = @ \cup late]
    BY DEF Resolved, p
  <1> HIDE DEF q, r
  <1>4. Grown(q, r)
    BY <1>2, <1>3 DEF Grown, Books
  <1>5. Grown(b, r)
    BY <1>1, <1>2, <1>4, GrownTwice
  <1> QED
    BY <1>5 DEF r

(* and the positions that are gone, which arm the campaign of a second leg *)
(* only for an outcome.                                                    *)
LEMMA DisappearedGrown ==
    ASSUME NEW b \in Books, NEW gone, NEW read,
           NEW profit \in SUBSET (read \ b.manual)
    PROVE  Grown(b, Disappeared(b, gone, read, profit))
  <1> DEFINE d == Disappeared(b, gone, read, profit)
             stages == [c \in Candidates |->
                IF \E e \in profit : /\ SymbolOf(e) = SymbolOf(c)
                                     /\ FollowUp(brief[e].recipe)
                                            = brief[c].recipe
                THEN "armed" ELSE b.campaign[c]]
  <1>1. d = [b EXCEPT
            !.held = @ \ gone,
            !.manual = @ \ gone,
            !.closed = @ \cup gone,
            !.accounted = @ \cup (read \ b.manual),
            !.campaign = stages]
    BY DEF Disappeared
  <1>2. \A c \in Candidates :
            \/ stages[c] = b.campaign[c]
            \/ \E e \in profit : /\ SymbolOf(e) = SymbolOf(c)
                                 /\ FollowUp(brief[e].recipe) = brief[c].recipe
    OBVIOUS
  <1> HIDE DEF stages, d
  <1>3. /\ d.halt = b.halt /\ d.campaign = stages
        /\ d.accounted = b.accounted \cup (read \ b.manual)
    BY <1>1 DEF Books
  <1>4. Grown(b, d)
    BY <1>2, <1>3 DEF Grown, FirstLeg
  <1> QED
    BY <1>4 DEF d

(* and a halt.                                                             *)
LEMMA HaltGrown ==
    ASSUME NEW b \in Books
    PROVE  Grown(b, Halted(b))
BY DEF Grown, Halted, Books

(* A sync is a run of these.                                               *)
LEMMA ReconciledGrown ==
    ASSUME NEW seen, NEW result, Sound(books), Reconciled(seen, result)
    PROVE  /\ disk' = disk \/ Grown(books, disk')
           /\ result # "down" => Grown(books, books')
           /\ result = "down" => books' = disk'
  <1> DEFINE gone == {c \in books.held : SymbolOf(c) \notin seen}
  <1>1. PICK read, profit, promoted, unfilled, closed, late, h, settled :
            /\ Found(seen, read, profit, promoted, unfilled, closed, late)
            /\ LET r == Handled(seen, read, profit, promoted, unfilled,
                                closed, late)
               IN  h \in {r, Halted(r)}
            /\ Ends(h, settled, seen, result)
    BY ReconciledParts
  <1>2. PICK d : d = Disappeared(books, gone, read, profit)
    OBVIOUS
  <1>3. Leaves(books, gone, d) /\ d.pending = books.pending
    BY <1>1, <1>2, DisappearedSound DEF Found
  <1>4. books \in Books /\ d \in Books /\ Sound(d)
    BY <1>3 DEF Sound, Leaves
  <1>5. Grown(books, d)
    BY <1>1, <1>2, <1>4, DisappearedGrown DEF Found
  <1>6. PICK r : r = Resolved(d, promoted, unfilled, closed, late)
    OBVIOUS
  <1>7. Outcomes(d, promoted, unfilled, closed, late)
    BY <1>1, <1>3 DEF Outcomes, Found
  <1>8. Sound(r)
    BY <1>4, <1>6, <1>7, ResolvedSound DEF Leaves
  <1>9. Grown(d, r)
    BY <1>1, <1>4, <1>6, ResolvedGrown DEF Found, Books
  <1>10. h \in {r, Halted(r)}
    BY <1>1, <1>2, <1>6 DEF Handled
  <1>11. Sound(h) /\ Grown(r, h)
    BY <1>8, <1>10, HaltSound, HaltGrown DEF Leaves, Sound, Grown
  <1>12. Grown(books, h)
    BY <1>5, <1>9, <1>11, GrownTwice
  <1>13. Grown(books, Settled(h, settled))
    <2>1. h \in Books /\ settled \in SUBSET Candidates
      BY <1>1, <1>11 DEF Ends, Sound, Books
    <2>2. Grown(h, Settled(h, settled))
      BY <2>1, SettledGrown
    <2> QED
      BY <1>12, <2>2, GrownTwice
  <1> QED
    BY <1>1, <1>12, <1>13 DEF Ends

(* A candidate seen, and the campaigns it retires.                         *)
LEMMA SeenGrown ==
    ASSUME NEW b \in Books, NEW c \in Candidates
    PROVE  /\ Grown(b, [b EXCEPT !.seen = @ \cup {c}])
           /\ Grown(b, [WithoutCampaigns(b, c) EXCEPT !.seen = @ \cup {c}])
  <1>1. Grown(b, [b EXCEPT !.seen = @ \cup {c}])
    BY DEF Grown, Books
  <1> DEFINE stages == [d \in Candidates |->
                IF /\ SymbolOf(d) = SymbolOf(c)
                   /\ brief[c].recipe \in {"reversal", brief[d].recipe}
                THEN "none" ELSE b.campaign[d]]
             w == WithoutCampaigns(b, c)
  <1>2. \A d \in Candidates : stages[d] \in {"none", b.campaign[d]}
    OBVIOUS
  <1>3. w = [b EXCEPT !.campaign = stages]
    BY DEF WithoutCampaigns
  <1>4. [w EXCEPT !.seen = @ \cup {c}]
            = [b EXCEPT !.campaign = stages, !.seen = @ \cup {c}]
    <2> HIDE DEF stages
    <2> QED
      BY <1>3 DEF Books
  <1> HIDE DEF stages, w
  <1>5. Grown(b, [w EXCEPT !.seen = @ \cup {c}])
    BY <1>2, <1>4 DEF Grown, Books
  <1> QED
    BY <1>1, <1>5 DEF w

(***************************************************************************)
(* The steps: the books grow, the file stays or takes books that grew; of  *)
(* plans and orders being placed only an evaluation adds any, and what is  *)
(* owned was owned or being placed before.                                 *)
(***************************************************************************)
Grows ==
    /\ UNCHANGED brief
    /\ Grown(books, books') /\ Owners(books') \subseteq Owners(books) \cup cur
    /\ \/ disk' = disk
       \/ /\ Grown(books, disk')
          /\ Owners(disk') \subseteq Owners(books) \cup cur
    /\ plans' \cup cur' \subseteq plans \cup cur

(* Books written, or tried to be.                                          *)
LEMMA WrittenGrown ==
    ASSUME Grown(books, books'), Owners(books') \subseteq Owners(books) \cup cur,
           SaveTried(books') \/ Saved(books') \/ UNCHANGED disk
    PROVE  \/ disk' = disk
           \/ /\ Grown(books, disk')
              /\ Owners(disk') \subseteq Owners(books) \cup cur
BY DEF SaveTried, Saved

(* The books as they are.                                                  *)
LEMMA SameGrown == Grown(books, books)
BY DEF Grown

(* The exchange, the frame loop, resubmissions and refused syncs.          *)
LEMMA IdleGrows ==
    ASSUME \/ \E s \in Symbols : Exit(s)
           \/ \E c \in Candidates : Resubmit(c)
           \/ SyncRefused \/ StoreHealth \/ FrameStarts \/ FrameFails \/ Begin
           \/ \E c \in plans : Skip(c)
    PROVE  Grows
BY SameGrown DEF Exit, Resubmit, SyncRefused, StoreHealth, FrameStarts,
    FrameFails, Begin, Skip, Done, Grows, frame, Grown

(* A sync and a restart.                                                   *)
LEMMA SyncGrows ==
    ASSUME IInv, Sync \/ Connect \/ ConnectFails
    PROVE  Grows
  <1>1. PICK seen, result :
            /\ Reconciled(seen, result)
            /\ result = "down" => pc = "down"
    BY DEF Sync, Connect, ConnectFails
  <1>2. /\ disk' = disk \/ Grown(books, disk')
        /\ Grown(books, books')
    BY <1>1, ReconciledGrown, SameGrown DEF IInv, Ledger
  <1>3. PICK X : Synced(seen, X, result)
    BY <1>1, ReconciledSound DEF IInv, Ledger
  <1>4. /\ Owners(books') \subseteq Owners(books) \cup cur
        /\ disk' = disk \/ Owners(disk') \subseteq Owners(books) \cup cur
    BY <1>1, <1>3 DEF Synced, Leaves, IInv, Ledger
  <1> QED
    BY <1>2, <1>4 DEF Sync, Connect, ConnectFails, Grows, frame

(* A rejection,                                                            *)
LEMMA RejectGrows ==
    ASSUME IInv, NEW c \in Candidates, Reject(c)
    PROVE  Grows
  <1>1. \/ books' = [books EXCEPT !.seen = @ \cup {c}]
        \/ books' = [WithoutCampaigns(books, c) EXCEPT !.seen = @ \cup {c}]
    BY DEF Reject
  <1>2. Grown(books, books')
    BY <1>1, SeenGrown DEF IInv, TypeOK
  <1>3. Owners(books') = Owners(books)
    BY RejectedSound
  <1> QED
    BY <1>2, <1>3 DEF Reject, Done, Grows

(* a pending entry superseded,                                             *)
LEMMA SupersedeGrows ==
    ASSUME IInv, NEW c \in Candidates, Supersede(c)
    PROVE  Grows
  <1>1. PICK d \in books.pending :
            \/ /\ books' \in
                    {Resolved(books, {}, {d}, {}, {}),
                     Resolved(books, {}, {}, {d}, {}),
                     Resolved(books, {}, {}, {}, {d})}
               /\ \/ Saved(books') /\ UNCHANGED <<plans, cur>>
                  \/ UNCHANGED disk /\ Done(plans \ {c})
            \/ Done(plans \ {c}) /\ UNCHANGED <<books, disk>>
    BY DEF Supersede
  <1>2. books \in Books /\ {d} \in SUBSET Candidates /\ {} \in SUBSET Candidates
    BY DEF IInv, TypeOK, Books
  <1>3. /\ Grown(books, Resolved(books, {}, {d}, {}, {}))
        /\ Grown(books, Resolved(books, {}, {}, {d}, {}))
        /\ Grown(books, Resolved(books, {}, {}, {}, {d}))
    BY <1>2, ResolvedGrown
  <1>4. Grown(books, books')
    BY <1>1, <1>3, SameGrown
  <1>5. Owners(books') \subseteq Owners(books)
    BY SupersededSound DEF Leaves
  <1> QED
    BY <1>1, <1>4, <1>5 DEF Supersede, Grows, Done, Saved

(* a claim,                                                                *)
LEMMA ClaimGrows ==
    ASSUME IInv, NEW c \in Candidates, Claim(c)
    PROVE  Grows
  <1>1. books' = [WithoutCampaigns(books, c) EXCEPT !.seen = @ \cup {c}]
    BY DEF Claim
  <1>2. Grown(books, books')
    BY <1>1, SeenGrown DEF IInv, TypeOK
  <1>3. plans' \cup cur' \subseteq plans \cup cur
    BY DEF Claim
  <1>4. Owners(books') = Owners(books)
    BY ClaimedSound
  <1> QED
    BY <1>2, <1>3, <1>4 DEF Claim, Grows, Saved

(* An attempt, and a maker entry written down.                             *)
LEMMA AttemptedGrown ==
    ASSUME IInv, NEW c \in Candidates
    PROVE  /\ Grown(books, Attempted(c))
           /\ Grown(books, Written(c)) /\ Written(c) \in Books
BY DEF Grown, Attempted, Written, IInv, TypeOK, Books

(* What is recorded of a failed bracket.                                   *)
LEMMA RecordedGrown ==
    ASSUME IInv, NEW c \in Candidates, NEW closed, NEW told,
           NEW b \in Recorded(books, c, closed, told)
    PROVE  Grown(books, b)
  <1>1. books \in Books /\ {c} \in SUBSET Candidates
    BY DEF IInv, TypeOK
  <1>2. CASE b = RoundTrips(books, {c})
    BY <1>1, <1>2, RoundTripsGrown
  <1>3. CASE b \in {books, [books EXCEPT !.deferred = @ \cup {c}]}
    BY <1>1, <1>3 DEF Grown, Books
  <1> QED
    BY <1>2, <1>3 DEF Recorded

(* an order given up, stranded or placed,                                  *)
LEMMA PlacedGrows ==
    ASSUME IInv, NEW c \in Candidates,
           Refused(c) \/ Stranded(c) \/ PlaceMarket(c)
    PROVE  Grows
  <1>1. /\ Grown(books, Attempted(c)) /\ Grown(books, Written(c))
        /\ cur = {c}
        /\ Owners(Attempted(c)) = Owners(books)
        /\ Owners(Written(c)) = Owners(books) \cup {c}
    BY AttemptedGrown, PlacingFacts, WrittenSound
       DEF Refused, Stranded, PlaceMarket, Leaves
  <1>2. books' \in {books, Attempted(c), Written(c)}
    BY DEF Refused, Stranded, PlaceMarket
  <1>3. disk' \in {disk, books', Written(c)}
    BY DEF Refused, Stranded, PlaceMarket, SaveTried, Saved
  <1>4. UNCHANGED brief /\ plans' \cup cur' \subseteq plans \cup cur
    BY DEF Refused, Stranded, PlaceMarket, Done
  <1> QED
    BY <1>1, <1>2, <1>3, <1>4, SameGrown DEF Grows

(* a maker entry,                                                          *)
LEMMA StartPendingGrows ==
    ASSUME IInv, NEW c \in Candidates, StartPending(c)
    PROVE  Grows
  <1> DEFINE w == Written(c)
             ended == {Resolved(w, {}, {}, {c}, {}), Resolved(w, {}, {}, {}, {c})}
  <1>1. /\ w \in Books /\ {c} \in SUBSET Candidates /\ {} \in SUBSET Candidates
        /\ Grown(books, w) /\ Grown(books, Attempted(c))
    BY AttemptedGrown
  <1>2. \A e \in ended : e \in Books /\ Grown(books, e)
    <2> SUFFICES ASSUME NEW e \in ended PROVE e \in Books /\ Grown(books, e)
      OBVIOUS
    <2>1. Sound(w) /\ c \in w.pending
      BY WrittenSound DEF StartPending
    <2>2. Leaves(w, {c}, e)
      BY <2>1, OneResolvedSound
    <2>3. Grown(w, e)
      BY <1>1, ResolvedGrown
    <2> QED
      BY <1>1, <2>2, <2>3, GrownTwice DEF Leaves, Sound
  <1>3. \A e \in ended \cup {w} : Grown(books, e) /\ Grown(books, Halted(e))
    BY <1>1, <1>2, HaltGrown, GrownTwice
  <1>4. \/ books' \in ended \cup {w, Attempted(c)}
        \/ \E e \in ended \cup {w} : books' = Halted(e)
    BY DEF StartPending
  <1>5. disk' \in {w, books'}
    BY DEF StartPending, Saved
  <1> HIDE DEF ended
  <1>6. Grown(books, books') /\ Grown(books, disk')
    BY <1>1, <1>3, <1>4, <1>5
  <1>7. /\ Owners(books') \subseteq Owners(books) \cup cur
        /\ Owners(disk') \subseteq Owners(books) \cup cur
    BY StartedSound DEF Begun, StartPending
  <1> QED
    BY <1>6, <1>7 DEF StartPending, Done, Grows

(* a bracket,                                                              *)
LEMMA BracketedGrows ==
    ASSUME IInv, NEW c \in Candidates, Bracketed(c)
    PROVE  Grows
  <1>1. Grown(books, books')
    BY PromotedGrown DEF Bracketed, IInv, TypeOK
  <1>2. Owners(books') \subseteq Owners(books) \cup cur
    BY PlacingFacts, PromotedSound DEF Bracketed
  <1> QED
    BY <1>1, <1>2, WrittenGrown DEF Bracketed, Done, Grows

(* a fill flattened, left naked or forgotten,                              *)
LEMMA FailedGrows ==
    ASSUME IInv, NEW c \in Candidates,
           Flattened(c) \/ ProtectionFailed(c) \/ Forgotten(c)
    PROVE  Grows
  <1>1. CASE Flattened(c) \/ Forgotten(c)
    <2>1. PICK closed, told : books' \in Recorded(books, c, closed, told)
      BY <1>1 DEF Flattened, Forgotten
    <2>2. Grown(books, books')
      BY <2>1, RecordedGrown
    <2>3. Owners(books') \subseteq Owners(books) \cup cur
      BY <1>1, <2>1, BracketRecorded DEF Flattened, Forgotten, Leaves
    <2> QED
      BY <1>1, <2>2, <2>3, WrittenGrown DEF Flattened, Forgotten, Done, Grows
  <1>2. CASE ProtectionFailed(c)
    <2>1. PICK b \in Recorded(books, c, c \notin live', TRUE) :
            /\ books' = Halted(b)
            /\ SaveTried(books') \/ (Unsaved /\ disk' = b)
      BY <1>2 DEF ProtectionFailed
    <2>2. Leaves(books, {}, b) /\ b \in Books
      <3>1. Leaves(books, {}, b)
        BY <1>2, <2>1, PlacingFacts, RecordedSound DEF ProtectionFailed
      <3> QED
        BY <3>1 DEF Leaves, Sound
    <2>3. Grown(books, b) /\ Grown(b, books')
      BY <2>1, <2>2, RecordedGrown, HaltGrown
    <2>4. Grown(books, books')
      BY <2>3, GrownTwice
    <2>5. Owners(books') = Owners(books) /\ Owners(b) = Owners(books)
      BY <1>2, <2>2, FailedSound DEF Leaves
    <2>6. disk' \in {disk, b, books'}
      BY <2>1 DEF SaveTried, Saved
    <2>7. UNCHANGED brief /\ plans' \cup cur' \subseteq plans \cup cur
      BY <1>2 DEF ProtectionFailed, Done
    <2> QED
      BY <2>3, <2>4, <2>5, <2>6, <2>7 DEF Grows
  <1> QED
    BY <1>1, <1>2

(* and a manual close.                                                     *)
LEMMA ManualCloseGrows ==
    ASSUME IInv, NEW c \in Candidates, ManualClose(c)
    PROVE  Grows
  <1>1. Grown(books, books')
    BY DEF ManualClose, Grown, IInv, TypeOK, Books
  <1>2. Owners(books') = Owners(books)
    BY ManualSound DEF Leaves
  <1> QED
    BY <1>1, <1>2, WrittenGrown DEF ManualClose, Grows, frame

(* A campaign only advances: none begins.                                  *)
LEMMA EvaluateGrown ==
    ASSUME IInv, Evaluate
    PROVE  /\ UNCHANGED <<brief, cur>>
           /\ Grown(books, books') /\ Owners(books') = Owners(books)
           /\ disk' = disk \/ disk' = books'
  <1>1. PICK stages \in [Candidates -> Stages] :
            /\ \A c \in Candidates :
                stages[c] \in Advanced(books.campaign[c], brief[c].recipe)
            /\ books' = [books EXCEPT !.campaign = stages]
    BY DEF Evaluate
  <1>2. \A c \in Candidates : stages[c] # "none" => books.campaign[c] # "none"
    BY <1>1 DEF Advanced, AdvancedTrend, AdvancedRejoin
  <1>3. Grown(books, books')
    BY <1>1, <1>2 DEF Grown, IInv, TypeOK, Books
  <1>4. Owners(books') = Owners(books)
    BY <1>1, CampaignSound DEF IInv, Ledger, Leaves
  <1> QED
    BY <1>3, <1>4 DEF Evaluate, SaveTried, Saved

(* A step grows, or it is an evaluation or a crash.                        *)
LEMMA StepGrows ==
    ASSUME IInv, Next
    PROVE  Grows \/ Evaluate \/ Crash
  <1>1. CASE Apply
    BY <1>1, IdleGrows, RejectGrows, SupersedeGrows, ClaimGrows DEF Apply, Skip
  <1>2. CASE Place
    BY <1>2, PlacedGrows, StartPendingGrows, BracketedGrows, FailedGrows
       DEF Place
  <1>3. CASE \/ \E s \in Symbols : Exit(s)
             \/ \E c \in Candidates : Resubmit(c)
             \/ SyncRefused \/ StoreHealth \/ FrameStarts \/ FrameFails
    BY <1>3, IdleGrows
  <1>4. CASE Sync \/ Connect \/ ConnectFails
    BY <1>4, SyncGrows
  <1>5. CASE \E c \in Candidates : ManualClose(c)
    BY <1>5, ManualCloseGrows
  <1> QED
    BY <1>1, <1>2, <1>3, <1>4, <1>5 DEF Next

-----------------------------------------------------------------------------
(***************************************************************************)
(* SecondLegFollows.  A campaign, in memory and on disk, has a first leg   *)
(* with an outcome there, and a plan of a second leg came of a campaign;   *)
(* so did every order made of a plan, and what is owned of it.             *)
(***************************************************************************)
Prepared(b) ==
    \A c \in Candidates : b.campaign[c] # "none" => FirstLeg(b, c)

Follows(b, S) == \A c \in S : Ordinary(c) \/ FirstLeg(b, c)

FollowInv ==
    /\ Prepared(books) /\ Prepared(disk)
    /\ Follows(books, plans \cup cur \cup Owners(books))
    /\ Follows(disk, Owners(disk))

(* Books that grew are as prepared.                                        *)
LEMMA GrownPrepared ==
    ASSUME NEW b, NEW d, Grown(b, d)
    PROVE  /\ Prepared(b) => Prepared(d)
           /\ \A c : FirstLeg(b, c) => FirstLeg(d, c)
BY DEF Grown, Prepared, FirstLeg

(* Only a confirmed campaign makes a plan of a second leg.                 *)
LEMMA PlannedFollows ==
    ASSUME NEW b, Prepared(b), NEW P \in Planned(b), NEW c \in P
    PROVE  Ordinary(c) \/ FirstLeg(b, c)
  <1> DEFINE ordinary == {d \in Candidates : Ordinary(d)}
             confirmed == SecondLegs(b) \cup Rejoins(b)
  <1>1. P \subseteq ordinary \cup confirmed
    BY DEF Planned, Funded
  <1>2. \A d \in confirmed : d \in Candidates /\ b.campaign[d] # "none"
    BY DEF SecondLegs, Rejoins, OfRecipe
  <1> QED
    BY <1>1, <1>2 DEF Prepared

(* No campaign and no plan at the start.                                   *)
LEMMA FollowInit == Init => FollowInv
BY DEF Init, NewBooks, FollowInv, Prepared, Follows, Owners

(* FollowInv is preserved.                                                 *)
LEMMA FollowStep ==
    ASSUME IInv, FollowInv, [Next]_vars
    PROVE  FollowInv'
  <1> DEFINE S == plans \cup cur \cup Owners(books)
  <1>1. CASE Grows
    <2>1. Prepared(books') /\ Prepared(disk')
      BY <1>1, GrownPrepared DEF FollowInv, Grows
    <2>2. /\ S' \subseteq S
          /\ disk' = disk \/ (Owners(disk') \subseteq S /\ Grown(books, disk'))
      BY <1>1 DEF Grows
    <2>3. Follows(books', S')
      BY <1>1, <2>2, GrownPrepared DEF FollowInv, Follows, Grows
    <2>4. Follows(disk', Owners(disk'))
      BY <2>2, GrownPrepared DEF FollowInv, Follows
    <2> QED
      BY <1>1, <2>1, <2>3, <2>4
         DEF Grows, FollowInv, Prepared, Follows, FirstLeg, Ordinary, SymbolOf
  <1>2. CASE Evaluate
    <2>1. /\ UNCHANGED <<brief, cur>>
          /\ Grown(books, books') /\ Owners(books') = Owners(books)
          /\ disk' = disk \/ disk' = books'
      BY <1>2, EvaluateGrown
    <2>2. Prepared(books') /\ Prepared(disk')
      BY <2>1, GrownPrepared DEF FollowInv
    <2>3. Follows(books', cur' \cup Owners(books'))
      BY <2>1, GrownPrepared DEF FollowInv, Follows
    <2>4. PICK P \in Planned(books') : plans' = P \ books.seen
      BY <1>2 DEF Evaluate
    <2>5. Follows(books', plans')
      BY <2>2, <2>4, PlannedFollows DEF Follows
    <2>6. Follows(disk', Owners(disk'))
      BY <2>1, <2>3 DEF FollowInv, Follows
    <2> QED
      BY <2>1, <2>2, <2>3, <2>5, <2>6
         DEF FollowInv, Prepared, Follows, FirstLeg, Ordinary, SymbolOf
  <1>3. CASE Crash
    <2>1. Prepared(disk') /\ Follows(disk', Owners(disk'))
      <3>1. CASE disk' = disk
        BY <3>1 DEF FollowInv
      <3>2. ASSUME NEW c \in cur, disk' = Written(c)
            PROVE  Prepared(disk') /\ Follows(disk', Owners(disk'))
        <4>1. cur = {c} /\ c \in Candidates
          BY DEF IInv, TypeOK
        <4>2. /\ Grown(books, Written(c))
              /\ Owners(Written(c)) = Owners(books) \cup {c}
          BY <4>1, AttemptedGrown, WrittenSound
        <4> QED
          BY <3>2, <4>2, GrownPrepared DEF FollowInv, Follows
      <3> QED
        BY <1>3, <3>1, <3>2 DEF Crash
    <2>2. /\ UNCHANGED brief /\ books' = disk' /\ plans' = {} /\ cur' = {}
      BY <1>3 DEF Crash
    <2> QED
      BY <2>1, <2>2
         DEF FollowInv, Prepared, Follows, FirstLeg, Ordinary, SymbolOf
  <1>4. CASE UNCHANGED vars
    BY <1>4 DEF vars, frame, FollowInv, Prepared, Follows, FirstLeg, Ordinary,
       SymbolOf, Owners
  <1> QED
    BY <1>1, <1>2, <1>3, <1>4, StepGrows

(* For any candidates, recipes, failed saves and crashes: a second leg is  *)
(* only entered after a first leg of its symbol has an outcome in the      *)
(* statistics (trend_reentry_artifacts, liquidation_reentry_artifacts).    *)
THEOREM SecondLegsFollow == Spec => SecondLegFollows
  <1> DEFINE After ==
        \A c \in entered' \ entered :
            Ordinary(c) \/ \E d \in books.accounted :
                /\ SymbolOf(d) = SymbolOf(c)
                /\ FollowUp(brief[d].recipe) = brief[c].recipe
  <1>1. IInv /\ FollowInv /\ [Next]_vars => [After]_entered
    <2> SUFFICES ASSUME IInv, FollowInv, Next, NEW c \in entered' \ entered
                 PROVE  Ordinary(c) \/ FirstLeg(books, c)
      BY DEF vars, history, FirstLeg
    <2>1. c \in cur \cup Owners(books)
      BY DEF Next, Apply, Place, Exit, Sync, SyncRefused, Resubmit, StoreHealth,
             FrameStarts, FrameFails, Evaluate, Begin, Skip, Reject, Supersede,
             Claim, Refused, Stranded, StartPending, PlaceMarket, Bracketed,
             Flattened, ProtectionFailed, Forgotten, ManualClose, Crash,
             Connect, ConnectFails, history, Owners
    <2> QED
      BY <2>1 DEF FollowInv, Follows
  <1>2. IInv /\ FollowInv /\ [Next]_vars => FollowInv'
    BY FollowStep
  <1> QED
    BY <1>1, <1>2, FollowInit, Invariance, PTL DEF Spec, SecondLegFollows
=============================================================================
