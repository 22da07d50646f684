------------------------- MODULE MarketSourceSafety -------------------------
(***************************************************************************)
(* Proofs about the hub and the frame loop, for every number of symbols,   *)
(* universes, connections, updates and intervals.                          *)
(*                                                                         *)
(* The inductive invariant says of each cache where its content comes      *)
(* from: a book is the snapshot of the last update id; order flow only     *)
(* exists where the connection carries depth, so that a reconnect, which   *)
(* drops the flow of its shard, drops all of it; a request's clock is      *)
(* never ahead of the exchange's, so what it calls closed has ended; and   *)
(* a bootstrap is only in flight for symbols without a history.            *)
(***************************************************************************)
EXTENDS MarketSource, FiniteSetTheorems, TLAPS

-----------------------------------------------------------------------------
(* The inductive invariant.                                                *)

LinkOK ==
    /\ route \in Followed
    /\ symbols \subseteq Symbols /\ steady \subseteq symbols
    /\ unseen \in BOOLEAN
    /\ link \in Links
    /\ active \subseteq RouteStreams(route, Symbols)
    /\ gen \in 0..MaxGen
    /\ link \in {"recovered", "up"} => gen \in Gens

WindowsOK ==
    /\ trades \in [Symbols -> SUBSET Gens]
    /\ liquidations \in [Symbols -> SUBSET Gens]

(* The book of a symbol, and the flow that led to it.                      *)
IsBook(B, id) == B = {} \/ \E b \in BookType : b.id = id /\ B = {b}
IsFlow(F, id, fresh) ==
    /\ \A o \in F : o.from < o.to /\ o.to <= id /\ o.joined
    /\ \A o, p \in F : o.to = p.to => o = p
    /\ fresh => \A o \in F : o.gen = gen

DepthOK ==
    /\ book \in [Symbols -> SUBSET BookType]
    /\ bookId \in [Symbols -> 0..MaxId]
    /\ flow \in [Symbols -> SUBSET FlowType]
    /\ \A s \in Symbols :
        /\ IsBook(book[s], bookId[s])
        /\ IsFlow(flow[s], bookId[s], s \in steady)
        /\ flow[s] # {} => <<s, "depth20">> \in RouteStreams(route, Symbols)

CandlesOK ==
    /\ bar \in 1..MaxBar
    /\ series \in [Symbols -> Seq(CandleType)]
    /\ \A s \in Symbols : Len(series[s]) <= CandleLimit

RowsOK ==
    /\ cached \subseteq Symbols
    /\ rows \in [Symbols -> [Bars -> {"none", "open", "closed"}]]
    /\ bootRetry \subseteq Symbols /\ repairRetry \subseteq Symbols

FrameOK ==
    /\ pc \in Awaits
    /\ asked \in Bars /\ asked <= bar
    /\ requests \subseteq Symbols
    /\ served \in [Symbols -> Served]
    /\ pc = "boot" => requests \cap cached = {}

StreamInv == LinkOK /\ WindowsOK /\ DepthOK /\ CandlesOK
IInv == StreamInv /\ RowsOK /\ FrameOK

-----------------------------------------------------------------------------
(* Streams and candles.                                                    *)

(* Only a public connection carries depth, of the symbols of its shard.    *)
LEMMA DepthCarrier ==
  ASSUME NEW s \in Symbols, route \in Followed,
         <<s, "depth20">> \in RouteStreams(route, Symbols)
  PROVE  route.kind = "public" /\ DepthHash[s] = route.shard
<1>1. route.kind \in Kinds
  BY RouteAssumption
<1>2. "depth20" \in Suffixes[route.kind] /\ Carrier(route.kind, s, "depth20") = route.shard
  BY DEF RouteStreams
<1>3. route.kind = "public"
  BY <1>1, <1>2 DEF Kinds, Suffixes
<1> QED
  BY <1>2, <1>3 DEF Carrier

(* A connection subscribed for some symbols carries a part of its streams. *)
LEMMA RouteStreamsMonotone ==
  ASSUME NEW syms \in SUBSET Symbols, NEW r
  PROVE  RouteStreams(r, syms) \subseteq RouteStreams(r, Symbols)
BY DEF RouteStreams

(* The cache of candles stays a sequence of candles within its limit.      *)
LEMMA PushedFits ==
  ASSUME NEW seq \in Seq(CandleType), Len(seq) <= CandleLimit, NEW c \in CandleType
  PROVE  Pushed(seq, c) \in Seq(CandleType) /\ Len(Pushed(seq, c)) <= CandleLimit
<1> DEFINE long == Append(seq, c)
<1>1. CandleLimit \in Nat \ {0}
  BY StreamBounds
<1>2. CASE Len(seq) > 0 /\ seq[Len(seq)].bar = c.bar
  BY <1>2 DEF Pushed
<1>3. CASE ~(Len(seq) > 0 /\ seq[Len(seq)].bar = c.bar)
  <2>1. long \in Seq(CandleType) /\ Len(long) = Len(seq) + 1
    OBVIOUS
  <2>2. Tail(long) \in Seq(CandleType) /\ Len(Tail(long)) = Len(seq)
    BY <2>1
  <2>3. Pushed(seq, c) = KeepLast(long)
    BY <1>3 DEF Pushed
  <2> QED
    BY <1>1, <2>1, <2>2, <2>3 DEF KeepLast
<1> QED
  BY <1>2, <1>3

-----------------------------------------------------------------------------
(* The hub.                                                                *)

(* Looking for streams, waking up, subscribing and losing the connection   *)
(* leave every cache alone.                                                *)
LEMMA QuietKeeps ==
  ASSUME StreamInv, Look \/ Wake \/ Subscribe \/ ApplySymbols \/ Disconnect
  PROVE  StreamInv'
<1>1. RouteStreams(route, symbols) \subseteq RouteStreams(route, Symbols)
  BY RouteStreamsMonotone DEF StreamInv, LinkOK
<1>2. UNCHANGED <<route, symbols, gen, steady, caches>>
  BY DEF Look, Wake, Subscribe, ApplySymbols, Disconnect, hub, connection
<1>3. LinkOK'
  <2>1. active' \subseteq RouteStreams(route, Symbols)
    BY <1>1 DEF StreamInv, LinkOK, Look, Wake, Subscribe, ApplySymbols, Disconnect, hub
  <2>2. link' \in Links /\ unseen' \in BOOLEAN
    BY DEF StreamInv, LinkOK, Links, Look, Wake, Subscribe, ApplySymbols, Disconnect, hub
  <2>3. link' \in {"recovered", "up"} => link \in {"recovered", "up"}
    BY DEF Look, Wake, Subscribe, ApplySymbols, Disconnect
  <2> QED
    BY <1>2, <2>1, <2>2, <2>3 DEF StreamInv, LinkOK
<1>4. WindowsOK' /\ CandlesOK'
  BY <1>2 DEF StreamInv, WindowsOK, CandlesOK, caches, windows, candles
<1>5. DepthOK'
  BY <1>2 DEF StreamInv, DepthOK, IsBook, IsFlow, caches, depth
<1> QED
  BY <1>3, <1>4, <1>5 DEF StreamInv

(* A reconnect drops the windows of its shard: all the flow there is.      *)
LEMMA ConnectKeeps ==
  ASSUME StreamInv, Connect
  PROVE  StreamInv'
<1> DEFINE Dropped(w) == [s \in Symbols |->
                IF s \in Recovered(route, symbols) THEN {} ELSE w[s]]
<1>1. MaxGen \in Nat
  BY StreamBounds
<1>2. LinkOK'
  BY <1>1 DEF StreamInv, LinkOK, Connect, hub, Links, Gens
<1>3. WindowsOK'
  <2>1. trades' \in {trades, Dropped(trades)} /\ liquidations' \in {liquidations, Dropped(liquidations)}
    BY DEF Connect, windows
  <2>2. Dropped(trades) \in [Symbols -> SUBSET Gens] /\ Dropped(liquidations) \in [Symbols -> SUBSET Gens]
    BY DEF StreamInv, WindowsOK
  <2> QED
    BY <2>1, <2>2 DEF StreamInv, WindowsOK
<1>4. CandlesOK'
  BY DEF StreamInv, CandlesOK, Connect, candles
<1>5. DepthOK'
  <2>1. flow' \in {flow, Dropped(flow)} /\ (route.kind = "public" => flow' = Dropped(flow))
    BY DEF Connect
  <2>2. flow' \in [Symbols -> SUBSET FlowType] /\ \A s \in Symbols : flow'[s] \in {flow[s], {}}
    BY <2>1 DEF StreamInv, DepthOK
  <2>3. \A s \in steady' : flow'[s] = {}
    <3> SUFFICES ASSUME NEW s \in symbols, flow'[s] # {}
                 PROVE  FALSE
      BY DEF Connect
    <3>1. s \in Symbols /\ route \in Followed
      BY DEF StreamInv, LinkOK
    <3>2. flow[s] # {}
      BY <2>2, <3>1
    <3>3. route.kind = "public" /\ DepthHash[s] = route.shard
      BY <3>1, <3>2, DepthCarrier DEF StreamInv, DepthOK
    <3>4. s \in Recovered(route, symbols)
      BY <3>3 DEF Recovered
    <3> QED
      BY <2>1, <3>1, <3>3, <3>4
  <2>4. UNCHANGED <<route, book, bookId>>
    BY DEF Connect
  <2>5. \A s \in Symbols : IsFlow(flow[s], bookId[s], FALSE) /\ IsFlow({}, bookId[s], FALSE)
    BY DEF StreamInv, DepthOK, IsFlow
  <2>6. \A s \in Symbols : IsFlow(flow[s], bookId[s], s \in steady)'
    BY <2>2, <2>3, <2>4, <2>5 DEF IsFlow
  <2>7. \A s \in Symbols : flow'[s] # {} => <<s, "depth20">> \in RouteStreams(route, Symbols)
    BY <2>2 DEF StreamInv, DepthOK
  <2> QED
    BY <2>2, <2>4, <2>6, <2>7 DEF StreamInv, DepthOK, IsBook
<1> QED
  BY <1>2, <1>3, <1>4, <1>5 DEF StreamInv

(* Windows only lose their oldest entries, and a book its freshness.       *)
LEMMA TimeKeeps ==
  ASSUME StreamInv, Time
  PROVE  StreamInv'
<1>1. UNCHANGED <<route, hub, connection, steady>>
  BY DEF Time, TradesAge, FlowAges, BookExpires, IntervalEnds
<1>2. LinkOK'
  BY <1>1 DEF StreamInv, LinkOK, hub, connection
<1>3. CASE \E s \in Symbols : TradesAge(s)
  <2>1. WindowsOK'
    BY <1>3 DEF StreamInv, WindowsOK, TradesAge, Oldest
  <2>2. UNCHANGED <<depth, candles>>
    BY <1>3 DEF TradesAge
  <2> QED
    BY <1>1, <1>2, <2>1, <2>2
    DEF StreamInv, DepthOK, IsBook, IsFlow, CandlesOK, depth, candles, hub, connection
<1>4. CASE \E s \in Symbols : FlowAges(s)
  <2>1. PICK s \in Symbols : FlowAges(s)
    BY <1>4
  <2>2. UNCHANGED <<windows, book, bookId, candles>>
    BY <2>1 DEF FlowAges
  <2>3. flow' \in [Symbols -> SUBSET FlowType] /\ \A t \in Symbols : flow'[t] \subseteq flow[t]
    BY <2>1 DEF FlowAges, StreamInv, DepthOK
  <2>4. \A t \in Symbols : IsFlow(flow[t], bookId[t], t \in steady)'
    BY <1>1, <2>2, <2>3 DEF IsFlow, StreamInv, DepthOK, connection
  <2>5. DepthOK'
    BY <1>1, <2>2, <2>3, <2>4 DEF StreamInv, DepthOK, IsBook
  <2> QED
    BY <1>2, <2>2, <2>5 DEF StreamInv, WindowsOK, CandlesOK, windows, candles
<1>5. CASE \E s \in Symbols : BookExpires(s)
  <2>1. PICK s \in Symbols : BookExpires(s)
    BY <1>5
  <2>2. UNCHANGED <<windows, flow, bookId, candles>>
    BY <2>1 DEF BookExpires
  <2>3. PICK b \in book[s] : book' = [book EXCEPT ![s] = {[b EXCEPT !.live = FALSE]}]
    BY <2>1 DEF BookExpires
  <2>4. b \in BookType /\ b.id = bookId[s]
    BY DEF StreamInv, DepthOK, IsBook
  <2>5. [b EXCEPT !.live = FALSE] \in BookType /\ [b EXCEPT !.live = FALSE].id = bookId[s]
    BY <2>4 DEF BookType
  <2>6. book' \in [Symbols -> SUBSET BookType] /\ \A t \in Symbols : IsBook(book'[t], bookId[t])
    BY <2>3, <2>5 DEF IsBook, StreamInv, DepthOK
  <2>7. DepthOK'
    BY <1>1, <2>2, <2>6 DEF StreamInv, DepthOK, IsBook, IsFlow, connection
  <2> QED
    BY <1>2, <2>2, <2>7 DEF StreamInv, WindowsOK, CandlesOK, windows, candles
<1>6. CASE IntervalEnds
  <2>1. CandlesOK'
    BY <1>6, StreamBounds DEF StreamInv, CandlesOK, IntervalEnds
  <2> QED
    BY <1>1, <1>2, <1>6, <2>1
    DEF StreamInv, WindowsOK, DepthOK, IsBook, IsFlow, IntervalEnds, windows, depth, hub, connection
<1> QED
  BY <1>3, <1>4, <1>5, <1>6 DEF Time

(* What an active stream carries arrives on the present connection.        *)
LEMMA DepthArrives ==
  ASSUME StreamInv, NEW s \in Symbols, Carries(s, "depth20")
  PROVE  gen \in Gens /\ <<s, "depth20">> \in RouteStreams(route, Symbols)
BY DEF Carries, StreamInv, LinkOK

(* A snapshot is dropped, repeated, or joined to the one before it.        *)
LEMMA UpdateDepthKeeps ==
  ASSUME StreamInv, NEW s \in Symbols, NEW id \in 1..MaxId, UpdateDepth(s, id)
  PROVE  StreamInv'
<1>1. UNCHANGED <<route, hub, connection, steady, windows, candles>>
  BY DEF UpdateDepth
<1>2. LinkOK' /\ WindowsOK' /\ CandlesOK'
  BY <1>1 DEF StreamInv, LinkOK, WindowsOK, CandlesOK, hub, connection, windows, candles
<1>3. gen \in Gens /\ <<s, "depth20">> \in RouteStreams(route, Symbols)
  BY DepthArrives DEF UpdateDepth
<1>4. MaxId \in Nat /\ bookId[s] \in Nat /\ id >= bookId[s] /\ id \in Nat
  BY StreamBounds DEF UpdateDepth, StreamInv, DepthOK
<1>5. Snapshot(id) \in BookType /\ Snapshot(id).id = id
  BY <1>3 DEF Snapshot, BookType
<1>6. book' \in [Symbols -> SUBSET BookType] /\ bookId' \in [Symbols -> 0..MaxId]
  BY <1>4, <1>5 DEF UpdateDepth, StreamInv, DepthOK
<1>7. \A t \in Symbols : IsBook(book'[t], bookId'[t])
  BY <1>5 DEF UpdateDepth, StreamInv, DepthOK, IsBook
<1>8. FlowWith(s, id) \in SUBSET FlowType /\ IsFlow(FlowWith(s, id), id, s \in steady)
  <2>1. flow[s] \in SUBSET FlowType /\ IsFlow(flow[s], bookId[s], s \in steady)
    BY DEF StreamInv, DepthOK
  <2>2. CASE id = bookId[s]
    BY <2>1, <2>2 DEF FlowWith
  <2>3. CASE id # bookId[s]
    <3> DEFINE new == {Join(b, id) : b \in {c \in book[s] : c.live}}
    <3>1. FlowWith(s, id) = flow[s] \cup new
      BY <2>3 DEF FlowWith
    <3>2. \A o \in new : /\ o \in FlowType /\ o.from = bookId[s] /\ o.to = id
                         /\ o.gen = gen /\ o.joined
      <4>1. SUFFICES ASSUME NEW b \in book[s], b.live
                     PROVE  /\ Join(b, id) \in FlowType /\ Join(b, id).from = bookId[s]
                            /\ Join(b, id).to = id /\ Join(b, id).gen = gen
                            /\ Join(b, id).joined
        OBVIOUS
      <4>2. b \in BookType /\ b.id = bookId[s]
        BY DEF StreamInv, DepthOK, IsBook
      <4> QED
        BY <1>3, <4>1, <4>2 DEF Join, FlowType, BookType
    <3>3. \A o, p \in new : o = p
      BY DEF StreamInv, DepthOK, IsBook
    <3>4. \A o \in flow[s] : o.to \in Nat /\ o.to <= bookId[s] /\ o.to < id
      BY <1>4, <2>1, <2>3 DEF IsFlow, FlowType
    <3>5. new \in SUBSET FlowType
      BY <3>2
    <3>6. \A o \in flow[s] \cup new : o.from < o.to /\ o.to <= id /\ o.joined
      BY <1>4, <2>1, <2>3, <3>2, <3>4 DEF IsFlow
    <3>7. \A o, p \in flow[s] \cup new : o.to = p.to => o = p
      <4> SUFFICES ASSUME NEW o \in flow[s] \cup new, NEW p \in flow[s] \cup new,
                          o.to = p.to
                   PROVE  o = p
        OBVIOUS
      <4>1. CASE o \in flow[s] /\ p \in flow[s]
        BY <2>1, <4>1 DEF IsFlow
      <4>2. CASE o \in new /\ p \in new
        BY <3>3, <4>2
      <4>3. o \in new <=> p \in new
        BY <1>4, <3>2, <3>4
      <4> QED
        BY <4>1, <4>2, <4>3
    <3>8. s \in steady => \A o \in flow[s] \cup new : o.gen = gen
      BY <2>1, <3>2 DEF IsFlow
    <3> HIDE DEF new
    <3> QED
      BY <2>1, <3>1, <3>5, <3>6, <3>7, <3>8 DEF IsFlow
  <2> QED
    BY <2>2, <2>3
<1>9. flow' \in [Symbols -> SUBSET FlowType]
  BY <1>8 DEF UpdateDepth, StreamInv, DepthOK
<1>10. \A t \in Symbols : IsFlow(flow'[t], bookId'[t], t \in steady)
  <2> SUFFICES ASSUME NEW t \in Symbols
               PROVE  IsFlow(flow'[t], bookId'[t], t \in steady)
    OBVIOUS
  <2>1. CASE t = s
    <3>1. flow'[s] = FlowWith(s, id) /\ bookId'[s] = id
      BY DEF UpdateDepth, StreamInv, DepthOK
    <3> QED
      BY <1>8, <2>1, <3>1
  <2>2. CASE t # s
    <3>1. flow'[t] = flow[t] /\ bookId'[t] = bookId[t]
      BY <2>2 DEF UpdateDepth, StreamInv, DepthOK
    <3> QED
      BY <3>1 DEF StreamInv, DepthOK
  <2> QED
    BY <2>1, <2>2
<1>11. DepthOK'
  <2>1. \A t \in Symbols : IsFlow(flow[t], bookId[t], t \in steady)'
    BY <1>1, <1>10 DEF IsFlow, connection
  <2>2. \A t \in Symbols : flow'[t] # {} => <<t, "depth20">> \in RouteStreams(route, Symbols)
    BY <1>3 DEF UpdateDepth, StreamInv, DepthOK
  <2> QED
    BY <1>1, <1>6, <1>7, <1>9, <2>1, <2>2 DEF DepthOK, IsBook
<1> QED
  BY <1>2, <1>11 DEF StreamInv

(* Trades, forced orders and candles fill their caches.                    *)
LEMMA DeliverKeeps ==
  ASSUME StreamInv, Deliver
  PROVE  StreamInv'
<1>1. CASE \E s \in Symbols : UpdateTrade(s) \/ UpdateLiquidation(s)
  <2>1. PICK s \in Symbols : UpdateTrade(s) \/ UpdateLiquidation(s)
    BY <1>1
  <2>2. gen \in Gens
    BY <2>1 DEF UpdateTrade, UpdateLiquidation, Carries, StreamInv, LinkOK
  <2>3. WindowsOK'
    BY <2>1, <2>2 DEF UpdateTrade, UpdateLiquidation, StreamInv, WindowsOK
  <2>4. UNCHANGED <<route, hub, connection, steady, depth, candles>>
    BY <2>1 DEF UpdateTrade, UpdateLiquidation
  <2> QED
    BY <2>3, <2>4
    DEF StreamInv, LinkOK, DepthOK, IsBook, IsFlow, CandlesOK, hub, connection, depth, candles
<1>2. CASE \E s \in Symbols, id \in 1..MaxId : UpdateDepth(s, id)
  BY <1>2, UpdateDepthKeeps
<1>3. CASE \E s \in Symbols, b \in 1..MaxBar, closed \in BOOLEAN : UpdateKline(s, b, closed)
  <2>1. PICK s \in Symbols, b \in 1..MaxBar, closed \in BOOLEAN : UpdateKline(s, b, closed)
    BY <1>3
  <2> DEFINE new == Pushed(series[s], [bar |-> b, closed |-> closed])
  <2>2. new \in Seq(CandleType) /\ Len(new) <= CandleLimit
    BY PushedFits DEF StreamInv, CandlesOK, CandleType
  <2>3. series' = [series EXCEPT ![s] = new]
    BY <2>1 DEF UpdateKline
  <2> HIDE DEF new
  <2>4. UNCHANGED <<route, hub, connection, steady, windows, depth, bar>>
    BY <2>1 DEF UpdateKline
  <2>5. CandlesOK'
    BY <2>2, <2>3, <2>4 DEF StreamInv, CandlesOK
  <2> QED
    BY <2>4, <2>5
    DEF StreamInv, LinkOK, DepthOK, IsBook, IsFlow, WindowsOK, hub, connection, depth, windows
<1> QED
  BY <1>1, <1>2, <1>3 DEF Deliver

(* Another universe.                                                       *)
LEMMA SetSymbolsKeeps ==
  ASSUME StreamInv, NEW new \in Universes, SetSymbols(new)
  PROVE  StreamInv'
<1>1. UNCHANGED <<route, connection, windows, depth, candles>>
  BY DEF SetSymbols
<1>2. symbols' = new /\ unseen' = TRUE /\ steady' = steady \cap new
  BY DEF SetSymbols
<1>3. new \subseteq Symbols
  BY SourceAssumption
<1>4. LinkOK'
  BY <1>1, <1>2, <1>3 DEF StreamInv, LinkOK, connection
<1>5. WindowsOK' /\ CandlesOK'
  BY <1>1 DEF StreamInv, WindowsOK, CandlesOK, windows, candles
<1>6. \A s \in Symbols : IsFlow(flow[s], bookId[s], s \in steady)'
  BY <1>1, <1>2 DEF StreamInv, DepthOK, IsFlow, depth, connection
<1>7. DepthOK'
  BY <1>1, <1>6 DEF StreamInv, DepthOK, IsBook, depth
<1> QED
  BY <1>4, <1>5, <1>7 DEF StreamInv

-----------------------------------------------------------------------------
(* Rows.                                                                   *)

FinalRows == [Bars -> {"none", "open", "closed"}]

(* No answer of REST and no merge calls an interval closed too early.      *)
LEMMA RestRowsFinal ==
  ASSUME asked \in Bars, asked <= bar, bar \in Bars, NEW first, NEW last
  PROVE  RestRows(first, last) \in FinalRows
<1>1. \A b \in Bars : b < asked => b < bar
  BY StreamBounds DEF Bars
<1>2. \A b \in Bars : RestRow(b) \in {"open", "closed"}
  BY <1>1 DEF RestRow, ClosedRow
<1> QED
  BY <1>2 DEF RestRows, FinalRows

(* Merging and draining keep rows that are not early.                      *)
LEMMA RowsCombine ==
  ASSUME NEW old \in FinalRows, NEW new \in FinalRows
  PROVE  MergeRows(old, new) \in FinalRows /\ Drained(old) \in FinalRows
BY DEF MergeRows, Merged, Drained, FinalRows

(* The stream only closes intervals by their terminal update.              *)
LEMMA StreamRowsFinal ==
  ASSUME NEW s \in Symbols
  PROVE  StreamRows(s) \in FinalRows
BY DEF StreamRows, FinalRows

(* A bounded batch is of symbols that are due.                             *)
LEMMA BatchOfDue ==
  ASSUME NEW due, NEW limit, NEW S \in Batch(due, limit)
  PROVE  S \subseteq due
BY DEF Batch

-----------------------------------------------------------------------------
(* Frames.                                                                 *)

(* A step that leaves the hub alone keeps what is known about it.          *)
LEMMA HubUntouched ==
  ASSUME StreamInv, UNCHANGED streamVars
  PROVE  StreamInv'
BY DEF StreamInv, LinkOK, WindowsOK, DepthOK, IsBook, IsFlow, CandlesOK, streamVars, hub,
       connection, windows, depth, candles

(* A frame asks for the histories that are missing.                        *)
LEMMA BootstrapKeeps ==
  ASSUME IInv, Bootstrap
  PROVE  IInv'
<1>1. StreamInv'
  BY HubUntouched DEF IInv, Bootstrap
<1>2. UNCHANGED <<cached, rows, bootRetry, repairRetry, served, bar>>
  BY DEF Bootstrap, series_, retries, streamVars, candles
<1>3. RowsOK'
  BY <1>2 DEF IInv, RowsOK
<1>4. requests' \subseteq BootDue
  BY BatchOfDue DEF Bootstrap
<1>5. bar \in Bars
  BY DEF IInv, StreamInv, CandlesOK, Bars
<1>6. asked' = bar /\ pc' = "boot" /\ asked' <= bar'
  BY <1>2, <1>5, StreamBounds DEF Bootstrap, Bars
<1>7. BootDue \subseteq Symbols \ cached
  BY DEF BootDue, IInv, StreamInv, LinkOK
<1>8. FrameOK'
  BY <1>2, <1>4, <1>5, <1>6, <1>7 DEF IInv, FrameOK, Awaits
<1> QED
  BY <1>1, <1>3, <1>8 DEF IInv

(* The histories arrive, and repairs are asked for.                        *)
LEMMA BootstrapAnsweredKeeps ==
  ASSUME IInv, NEW ok \in SUBSET Symbols, BootstrapAnswered(ok)
  PROVE  IInv'
<1>1. StreamInv'
  BY HubUntouched DEF IInv, BootstrapAnswered
<1>2. UNCHANGED <<repairRetry, served, bar>>
  BY DEF BootstrapAnswered, streamVars, candles
<1>3. bar \in Bars /\ asked \in Bars /\ asked <= bar /\ bar <= bar
  BY StreamBounds DEF IInv, FrameOK, StreamInv, CandlesOK, Bars
<1>4. RestRows(1, bar) \in FinalRows
  BY <1>3, RestRowsFinal
<1>5. Drained(RestRows(1, bar)) \in FinalRows
  BY <1>4, RowsCombine
<1>6. rows' = [s \in Symbols |-> IF s \in ok THEN Drained(RestRows(1, bar)) ELSE rows[s]]
  BY DEF BootstrapAnswered
<1>7. rows' \in [Symbols -> FinalRows]
  BY <1>5, <1>6 DEF IInv, RowsOK, FinalRows
<1>8. RowsOK'
  BY <1>2, <1>7 DEF IInv, RowsOK, FinalRows, FrameOK, BootstrapAnswered
<1>9. requests' \subseteq Symbols
  <2>1. cached' \subseteq Symbols
    BY <1>8 DEF RowsOK
  <2>2. PICK ripe \in SUBSET {s \in cached' \ repairRetry : Elapsed(rows'[s], bar) # {}} :
            requests' \in Batch(ripe, RepairLimit)
    BY DEF BootstrapAnswered
  <2>3. ripe \subseteq Symbols
    BY <2>1
  <2> QED
    BY <2>2, <2>3, BatchOfDue
<1>10. asked' = bar /\ pc' = "repair"
  BY DEF BootstrapAnswered
<1>11. FrameOK'
  BY <1>2, <1>3, <1>9, <1>10 DEF IInv, FrameOK, Awaits
<1> QED
  BY <1>1, <1>8, <1>11 DEF IInv

(* The repairs arrive, and books are asked for.                            *)
LEMMA RepairAnsweredKeeps ==
  ASSUME IInv, NEW ok \in SUBSET Symbols, RepairAnswered(ok)
  PROVE  IInv'
<1>1. StreamInv'
  BY HubUntouched DEF IInv, RepairAnswered
<1>2. UNCHANGED <<cached, bootRetry, served, bar>>
  BY DEF RepairAnswered, streamVars, candles
<1>3. bar \in Bars /\ asked \in Bars /\ asked <= bar /\ 1 \in Bars /\ 1 <= bar
  BY StreamBounds DEF IInv, FrameOK, StreamInv, CandlesOK, Bars
<1>4. \A s \in Symbols : Repaired(s) \in FinalRows
  BY <1>3, RestRowsFinal, RowsCombine DEF Repaired, IInv, RowsOK, FinalRows
<1>5. rows' = [s \in Symbols |-> IF s \in ok THEN Repaired(s) ELSE rows[s]]
  BY DEF RepairAnswered
<1>6. rows' \in [Symbols -> FinalRows]
  BY <1>4, <1>5 DEF IInv, RowsOK, FinalRows
<1>7. repairRetry' \subseteq Symbols
  BY DEF IInv, RowsOK, FrameOK, RepairAnswered
<1>8. RowsOK'
  BY <1>2, <1>6, <1>7 DEF IInv, RowsOK, FinalRows
<1>9. requests' \subseteq Symbols
  BY DEF RepairAnswered, IInv, StreamInv, LinkOK
<1>10. asked' = 1 /\ pc' = "depth"
  BY DEF RepairAnswered
<1>11. FrameOK'
  BY <1>2, <1>3, <1>9, <1>10 DEF IInv, FrameOK, Awaits
<1> QED
  BY <1>1, <1>8, <1>11 DEF IInv

(* The frame is served, with what the hub has received by now.             *)
LEMMA FrameServedKeeps ==
  ASSUME IInv, NEW ok \in SUBSET Symbols, FrameServed(ok)
  PROVE  IInv'
<1>1. StreamInv'
  BY HubUntouched DEF IInv, FrameServed
<1>2. UNCHANGED <<cached, bootRetry, repairRetry, bar>>
  BY DEF FrameServed, streamVars, candles, retries
<1>3. 1 \in Bars /\ 1 <= bar
  BY StreamBounds DEF IInv, StreamInv, CandlesOK, Bars
<1>4. \A s \in Symbols : Drained(MergeRows(rows[s], StreamRows(s))) \in FinalRows
  BY StreamRowsFinal, RowsCombine DEF IInv, RowsOK, FinalRows
<1>5. rows' = [s \in Symbols |-> IF s \in symbols \cap cached
                                THEN Drained(MergeRows(rows[s], StreamRows(s)))
                                ELSE rows[s]]
  BY DEF FrameServed
<1>6. rows' \in [Symbols -> FinalRows]
  BY <1>4, <1>5 DEF IInv, RowsOK, FinalRows
<1>7. RowsOK'
  BY <1>2, <1>6 DEF IInv, RowsOK, FinalRows
<1>8. \A s \in Symbols : Quote(s, ok) \in Served
  BY DEF Quote, Served
<1>9. served' \in [Symbols -> Served]
  BY <1>8 DEF FrameServed
<1>10. FrameOK'
  BY <1>2, <1>3, <1>9 DEF IInv, FrameOK, FrameServed, Awaits
<1> QED
  BY <1>1, <1>7, <1>10 DEF IInv

(* Messages and time move on whatever the frame waits for.                 *)
LEMMA StreamStepKeeps ==
  ASSUME IInv, StreamStep
  PROVE  IInv'
<1>1. StreamInv'
  BY QuietKeeps, ConnectKeeps, DeliverKeeps, TimeKeeps DEF IInv, StreamStep, Dial
<1>2. bar' \in Nat /\ bar <= bar'
  <2>1. bar \in Nat
    BY StreamBounds DEF IInv, StreamInv, CandlesOK
  <2>2. bar' \in {bar, bar + 1}
    BY DEF StreamStep, Dial, Look, Wake, Connect, Subscribe, ApplySymbols, Disconnect,
           Deliver, UpdateTrade, UpdateLiquidation, UpdateDepth, UpdateKline,
           Time, TradesAge, FlowAges, BookExpires, IntervalEnds, caches, candles
  <2> QED
    BY <2>1, <2>2
<1>3. UNCHANGED <<cached, rows, bootRetry, repairRetry, pc, asked, requests, served>>
  BY DEF StreamStep, sourceVars, series_, retries, frame
<1>4. RowsOK'
  BY <1>3 DEF IInv, RowsOK
<1>5. FrameOK'
  <2>1. bar \in Nat /\ asked \in Nat
    BY StreamBounds DEF IInv, FrameOK, StreamInv, CandlesOK, Bars
  <2> QED
    BY <1>2, <1>3, <2>1 DEF IInv, FrameOK
<1> QED
  BY <1>1, <1>4, <1>5 DEF IInv

(* The universe moves, and retries fall due.                               *)
LEMMA SettingsKeep ==
  ASSUME IInv,
         MoveUniverse \/ \E s \in Symbols : BootRetryElapses(s) \/ RepairRetryElapses(s)
  PROVE  IInv'
<1>1. CASE MoveUniverse
  <2>1. StreamInv'
    BY <1>1, SetSymbolsKeeps DEF IInv, MoveUniverse
  <2>2. UNCHANGED <<cached, rows, bootRetry, repairRetry, pc, asked, requests, served, bar>>
    BY <1>1 DEF MoveUniverse, sourceVars, series_, retries, frame, SetSymbols, candles
  <2> QED
    BY <2>1, <2>2 DEF IInv, RowsOK, FrameOK
<1>2. CASE \E s \in Symbols : BootRetryElapses(s) \/ RepairRetryElapses(s)
  <2>1. StreamInv'
    BY <1>2, HubUntouched DEF IInv, BootRetryElapses, RepairRetryElapses
  <2>2. UNCHANGED <<cached, rows, pc, asked, requests, served, bar>>
    BY <1>2 DEF BootRetryElapses, RepairRetryElapses, series_, frame, streamVars, candles
  <2>3. bootRetry' \subseteq bootRetry /\ repairRetry' \subseteq repairRetry
    BY <1>2 DEF BootRetryElapses, RepairRetryElapses
  <2> QED
    BY <2>1, <2>2, <2>3 DEF IInv, RowsOK, FrameOK
<1> QED
  BY <1>1, <1>2

-----------------------------------------------------------------------------
(* Theorems.                                                               *)

(* The start: nothing subscribed, nothing received, nothing cached.        *)
LEMMA InitInv == Init => IInv
<1> SUFFICES ASSUME Init PROVE IInv
  OBVIOUS
<1>1. MaxGen \in Nat /\ MaxId \in Nat /\ MaxBar \in Nat \ {0} /\ CandleLimit \in Nat \ {0}
  BY StreamBounds
<1>2. LinkOK
  <2>1. symbols = {} /\ active = {} /\ steady = {} /\ gen = 0 /\ link = "start"
    BY DEF Init, StreamInit
  <2>2. route \in Followed /\ unseen \in BOOLEAN
    BY DEF Init, StreamInit
  <2>3. gen \in 0..MaxGen
    BY <1>1, <2>1
  <2>4. link \in Links /\ link \notin {"recovered", "up"}
    BY <2>1 DEF Links
  <2> QED
    BY <2>1, <2>2, <2>3, <2>4 DEF LinkOK
<1>6. WindowsOK
  BY DEF Init, StreamInit, WindowsOK
<1>3. DepthOK
  BY <1>1 DEF Init, StreamInit, DepthOK, IsBook, IsFlow
<1>4. CandlesOK
  BY <1>1 DEF Init, StreamInit, CandlesOK
<1>5. RowsOK /\ FrameOK
  BY <1>1 DEF Init, StreamInit, SourceInit, RowsOK, FrameOK, Bars, Awaits, Served
<1> QED
  BY <1>2, <1>3, <1>4, <1>5, <1>6 DEF IInv, StreamInv

(* Every step of hub, frame loop, universe and time keeps the invariant.   *)
LEMMA NextInv == IInv /\ [Next]_vars => IInv'
<1> SUFFICES ASSUME IInv, [Next]_vars PROVE IInv'
  OBVIOUS
<1>1. CASE StreamStep
  BY <1>1, StreamStepKeeps
<1>2. CASE Frame
  BY <1>2, BootstrapKeeps, BootstrapAnsweredKeeps, RepairAnsweredKeeps, FrameServedKeeps
  DEF Frame
<1>3. CASE MoveUniverse \/ \E s \in Symbols : BootRetryElapses(s) \/ RepairRetryElapses(s)
  BY <1>3, SettingsKeep
<1>4. CASE UNCHANGED vars
  <2>1. StreamInv'
    BY <1>4, HubUntouched DEF IInv, vars
  <2> QED
    BY <1>4, <2>1
    DEF vars, streamVars, candles, sourceVars, series_, retries, frame, IInv, RowsOK, FrameOK
<1> QED
  BY <1>1, <1>2, <1>3, <1>4 DEF Next

(* So every reachable state of hub and source satisfies it.                *)
LEMMA Invariance == Spec => []IInv
BY InitInv, NextInv, PTL DEF Spec

(* The invariant implies the types the run checks.                         *)
LEMMA InvTypes == IInv => TypeOK
<1> SUFFICES ASSUME IInv PROVE TypeOK
  OBVIOUS
<1>1. \A s \in Symbols : Cardinality(book[s]) <= 1
  <2> SUFFICES ASSUME NEW s \in Symbols
               PROVE  Cardinality(book[s]) <= 1
    OBVIOUS
  <2>1. Cardinality({}) = 0 /\ \A b : Cardinality({b}) = 1
    BY FS_EmptySet, FS_Singleton
  <2>2. book[s] = {} \/ \E b : book[s] = {b}
    BY DEF IInv, StreamInv, DepthOK, IsBook
  <2>3. CASE book[s] = {}
    BY <2>1, <2>3
  <2>4. CASE \E b : book[s] = {b}
    <3>1. Cardinality(book[s]) = 1
      BY <2>1, <2>4
    <3> QED
      BY <3>1
  <2> QED
    BY <2>2, <2>3, <2>4
<1>2. \A s \in Symbols : \A i \in DOMAIN series[s] : series[s][i] \in CandleType
  BY DEF IInv, StreamInv, CandlesOK
<1>3. StreamTypeOK
  BY <1>1, <1>2 DEF IInv, StreamInv, LinkOK, WindowsOK, DepthOK, CandlesOK, StreamTypeOK
<1>4. rows \in [Symbols -> [Bars -> Rows]]
  BY DEF IInv, RowsOK, Rows
<1> QED
  BY <1>3, <1>4 DEF IInv, RowsOK, FrameOK, TypeOK

(* Every variable of the hub and of the frame loop keeps its type, the     *)
(* candle caches their limit, for every universe and every bound.          *)
THEOREM TypeCorrect == Spec => []TypeOK
BY Invariance, InvTypes, PTL

(* Order flow is counted once, in order and against a fresh book, and none *)
(* of a symbol that stayed desired outlives the connection: a reconnect    *)
(* drops the flow of the symbols of its shard, and only those have any     *)
(* (update_depth, mark_route_recovering, public_streams_shard).            *)
THEOREM FlowAlwaysSound == Spec => []FlowIsSound
<1>1. IInv => FlowIsSound
  BY DEF IInv, StreamInv, DepthOK, IsFlow, FlowIsSound
<1> QED
  BY <1>1, Invariance, PTL

(* A book never goes back to an older snapshot, whatever order snapshots   *)
(* arrive in and however often the connection is made anew (update_depth). *)
THEOREM BookOnlyAdvances == Spec => BookNeverGoesBack
<1> DEFINE Ahead == \A s \in Symbols : \A b \in book[s], c \in book'[s] : b.id <= c.id
<1>1. IInv /\ IInv' /\ [Next]_vars => [Ahead]_book
  <2> SUFFICES ASSUME IInv, IInv', [Next]_vars, book' # book PROVE Ahead
    OBVIOUS
  <2>1. \A s \in Symbols : bookId[s] \in Nat /\ bookId'[s] \in Nat
    BY StreamBounds DEF IInv, StreamInv, DepthOK
  <2>2. \A s \in Symbols : bookId[s] <= bookId'[s]
    <3>1. CASE UNCHANGED bookId
      BY <2>1, <3>1
    <3>2. CASE \E s \in Symbols, id \in 1..MaxId : UpdateDepth(s, id)
      <4>1. PICK s \in Symbols, id \in 1..MaxId : UpdateDepth(s, id)
        BY <3>2
      <4> QED
        BY <2>1, <4>1 DEF UpdateDepth, IInv, StreamInv, DepthOK
    <3>3. UNCHANGED bookId \/ \E s \in Symbols, id \in 1..MaxId : UpdateDepth(s, id)
      BY DEF Next, StreamStep, Dial, Look, Wake, Connect, Subscribe, ApplySymbols,
             Disconnect, Deliver, UpdateTrade, UpdateLiquidation, UpdateKline, Time,
             TradesAge, FlowAges, BookExpires, IntervalEnds, MoveUniverse, SetSymbols,
             Frame, Bootstrap, BootstrapAnswered, RepairAnswered, FrameServed,
             BootRetryElapses, RepairRetryElapses, vars, streamVars, caches, depth
    <3> QED
      BY <3>1, <3>2, <3>3
  <2>3. \A s \in Symbols : \A b \in book[s], c \in book'[s] :
            b.id = bookId[s] /\ c.id = bookId'[s]
    BY DEF IInv, StreamInv, DepthOK, IsBook
  <2> QED
    BY <2>2, <2>3
<1>2. Spec => [][Ahead]_book
  BY <1>1, Invariance, PTL DEF Spec
<1> QED
  BY <1>2 DEF BookNeverGoesBack

(* What a frame calls closed has ended at the exchange and carries the     *)
(* data of its end, since a request's clock is never ahead of the answer   *)
(* (klines_at_interval, merge_candles, update_kline).                      *)
THEOREM ClosedAlwaysFinal == Spec => []ClosedIsFinal
<1>1. IInv => ClosedIsFinal
  BY DEF IInv, RowsOK, ClosedIsFinal
<1> QED
  BY <1>1, Invariance, PTL

(* A merge never takes a closed candle back; a drain may drop it.          *)
LEMMA MergeKeepsClosed ==
  ASSUME NEW old \in FinalRows, NEW new \in FinalRows, NEW b \in Bars, old[b] = "closed"
  PROVE  /\ MergeRows(old, new)[b] = "closed"
         /\ Drained(MergeRows(old, new))[b] \in {"closed", "none"}
<1>1. MergeRows(old, new)[b] = "closed"
  BY DEF MergeRows, Merged, FinalRows
<1> QED
  BY <1>1 DEF Drained

(* A closed candle of a symbol with a history stays closed until it leaves *)
(* the series: repairs and frames merge, and a bootstrap, which does not,  *)
(* is never in flight for such a symbol (bootstrap_missing_klines,         *)
(* merge_candles, streamed_klines).                                        *)
THEOREM ClosedAlwaysKept == Spec => ClosedIsKept
<1> DEFINE Kept == \A s \in cached, b \in Bars :
                    rows[s][b] = "closed" => rows'[s][b] \in {"closed", "none"}
<1>1. IInv /\ [Next]_vars => [Kept]_rows
  <2> SUFFICES ASSUME IInv, [Next]_vars, rows' # rows,
                      NEW s \in cached, NEW b \in Bars, rows[s][b] = "closed"
               PROVE  rows'[s][b] \in {"closed", "none"}
    OBVIOUS
  <2>1. s \in Symbols /\ rows[s] \in FinalRows
    BY DEF IInv, RowsOK, FinalRows
  <2>2. CASE \E ok \in SUBSET Symbols : BootstrapAnswered(ok)
    <3>1. PICK ok \in SUBSET Symbols : BootstrapAnswered(ok)
      BY <2>2
    <3>2. s \notin ok
      BY <3>1 DEF BootstrapAnswered, IInv, FrameOK
    <3>3. rows'[s] = rows[s]
      BY <2>1, <3>1, <3>2 DEF BootstrapAnswered
    <3> QED
      BY <3>3
  <2>3. CASE \E ok \in SUBSET Symbols : RepairAnswered(ok)
    <3>1. PICK ok \in SUBSET Symbols : RepairAnswered(ok)
      BY <2>3
    <3>2. rows'[s] \in {rows[s], Repaired(s)}
      BY <2>1, <3>1 DEF RepairAnswered
    <3>3. asked \in Bars /\ asked <= bar /\ bar \in Bars
      BY DEF IInv, FrameOK, StreamInv, CandlesOK, Bars
    <3>4. Repaired(s)[b] = "closed"
      BY <2>1, <3>3, RestRowsFinal, MergeKeepsClosed DEF Repaired
    <3> QED
      BY <3>2, <3>4
  <2>4. CASE \E ok \in SUBSET Symbols : FrameServed(ok)
    <3>1. rows'[s] \in {rows[s], Drained(MergeRows(rows[s], StreamRows(s)))}
      BY <2>1, <2>4 DEF FrameServed
    <3>2. Drained(MergeRows(rows[s], StreamRows(s)))[b] \in {"closed", "none"}
      BY <2>1, StreamRowsFinal, MergeKeepsClosed
    <3> QED
      BY <3>1, <3>2
  <2>5. \E ok \in SUBSET Symbols :
            BootstrapAnswered(ok) \/ RepairAnswered(ok) \/ FrameServed(ok)
    BY DEF Next, StreamStep, Frame, Bootstrap, MoveUniverse, BootRetryElapses,
           RepairRetryElapses, vars, sourceVars, series_
  <2> QED
    BY <2>2, <2>3, <2>4, <2>5
<1>2. Spec => [][Kept]_rows
  BY <1>1, Invariance, PTL DEF Spec
<1> QED
  BY <1>2 DEF ClosedIsKept

=============================================================================
