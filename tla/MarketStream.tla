---------------------------- MODULE MarketStream ----------------------------
(***************************************************************************)
(* The websocket hub of greed-runtime, market_stream.rs: the desired       *)
(* symbols, one dynamic connection with its subscriptions and reconnects,  *)
(* and the caches its messages fill.                                       *)
(*                                                                         *)
(* The hub runs eight dynamic connections: two market (candles), two trade *)
(* (trades and forced orders), four public (depth) shards.  They share     *)
(* only the desired symbols, and each cache is filled by one of them, so a *)
(* behaviour follows one connection, `route', any of them.                 *)
(***************************************************************************)
EXTENDS Naturals, FiniteSets, Sequences

CONSTANTS
    Symbols,      \* contracts
    NameBits,     \* odd bytes of a lowercase name, modulo 2
    DepthHash,    \* hash of "<name>@depth20@500ms", modulo 4
    Followed,     \* the connections a behaviour may follow
    CandleLimit,  \* CANDLE_CACHE_LIMIT
    MaxGen,       \* bound: connections made in a behaviour
    MaxId,        \* bound: depth update ids
    MaxBar        \* bound: candle intervals

Kinds == {"market", "trade", "public"}
Shards == [market |-> 0..1, trade |-> 0..1, public |-> 0..3]

ASSUME NameAssumption ==
    /\ NameBits \in [Symbols -> 0..1]
    /\ DepthHash \in [Symbols -> 0..3]
ASSUME RouteAssumption ==
    \A r \in Followed : r.kind \in Kinds /\ r.shard \in Shards[r.kind]
ASSUME StreamBounds ==
    /\ {MaxGen, MaxId} \subseteq Nat
    /\ {CandleLimit, MaxBar} \subseteq Nat \ {0}

VARIABLES
    route,        \* the connection followed
    symbols,      \* desired_symbols, and the value of the watch channel
    unseen,       \* the connection has not observed the last value yet
    link,         \* where the connection's task is
    active,       \* the streams it subscribed to
    gen,          \* connections made so far
    steady,       \* history: symbols desired without a break since then
    trades,       \* connections whose trades a symbol's window holds
    liquidations, \* the same for forced orders
    book,         \* last depth snapshot of a symbol, an Option
    bookId,       \* book_update_ids, 0 for none
    flow,         \* OFI observations in a symbol's window
    bar,          \* exchange: the interval that is open now
    series        \* the candles received, oldest first

hub == <<symbols, unseen>>
connection == <<link, active, gen>>
windows == <<trades, liquidations>>
depth == <<book, bookId, flow>>
candles == <<bar, series>>
streamVars == <<route, hub, connection, steady, windows, depth, candles>>

-----------------------------------------------------------------------------
(* Streams and shards.                                                     *)

Suffixes == [market |-> {"kline"}, trade |-> {"aggTrade", "forceOrder"},
             public |-> {"depth20"}]

(* FNV-1a multiplies by an odd prime, so the low bit of a hash counts the  *)
(* odd bytes: both suffixes of the trade route have five.                  *)
OddBytes == [none |-> 0, aggTrade |-> 5, forceOrder |-> 5]
TwoShard(s, suffix) == (1 + NameBits[s] + OddBytes[suffix]) % 2

(* The shard whose connection carries a stream: market by the name, trade  *)
(* and public by the whole stream.                                         *)
Carrier(kind, s, suffix) ==
    CASE kind = "market" -> TwoShard(s, "none")
      [] kind = "trade" -> TwoShard(s, suffix)
      [] kind = "public" -> DepthHash[s]

RouteStreams(r, syms) ==
    {st \in syms \X Suffixes[r.kind] :
        Carrier(r.kind, st[1], st[2]) = r.shard}

(* Mutant: the public route forgets to drop its flow.                      *)
RecoveredTradesOnly(r, syms) ==
    {s \in syms : r.kind = "trade" /\ TwoShard(s, "none") = r.shard}
(* mark_route_recovering: the symbols whose windows a reconnect of r drops.*)
Recovered(r, syms) ==
    {s \in syms :
        \/ r.kind = "trade" /\ TwoShard(s, "none") = r.shard
        \/ r.kind = "public" /\ DepthHash[s] = r.shard}

-----------------------------------------------------------------------------

Links == {"start", "idle", "dialing", "recovered", "up"}
Gens == 1..MaxGen
BookType == [id : 1..MaxId, gen : Gens, live : BOOLEAN]
(* An observation joins two snapshots; joined: the first one was live.     *)
FlowType == [from : 1..MaxId, to : 1..MaxId, gen : Gens, joined : BOOLEAN]
CandleType == [bar : 1..MaxBar, closed : BOOLEAN]

StreamTypeOK ==
    /\ route \in Followed
    /\ symbols \subseteq Symbols /\ steady \subseteq symbols
    /\ unseen \in BOOLEAN
    /\ link \in Links
    /\ active \subseteq RouteStreams(route, Symbols)
    /\ gen \in 0..MaxGen
    /\ trades \in [Symbols -> SUBSET Gens]
    /\ liquidations \in [Symbols -> SUBSET Gens]
    /\ \A s \in Symbols :
        /\ book[s] \subseteq BookType /\ Cardinality(book[s]) <= 1
        /\ flow[s] \subseteq FlowType
        /\ Len(series[s]) <= CandleLimit
        /\ \A i \in DOMAIN series[s] : series[s][i] \in CandleType
    /\ bookId \in [Symbols -> 0..MaxId]
    /\ bar \in 1..MaxBar

StreamInit ==
    /\ route \in Followed
    /\ symbols = {} /\ unseen = FALSE
    /\ link = "start" /\ active = {} /\ gen = 0
    /\ steady = {}
    /\ trades = [s \in Symbols |-> {}]
    /\ liquidations = [s \in Symbols |-> {}]
    /\ book = [s \in Symbols |-> {}]
    /\ bookId = [s \in Symbols |-> 0]
    /\ flow = [s \in Symbols |-> {}]
    /\ bar = 1
    /\ series = [s \in Symbols |-> <<>>]

-----------------------------------------------------------------------------
(* The runtime's side: the universe, and time.                             *)

SetSymbols(new) ==
    /\ new # symbols
    /\ symbols' = new
    /\ unseen' = TRUE
    /\ steady' = steady \cap new
    /\ UNCHANGED <<route, connection, windows, depth, candles>>

Oldest(S) == {x \in S : \A y \in S : x <= y}

(* A window forgets its oldest entries: they leave the 60 s read back.     *)
TradesAge(s) ==
    /\ \/ /\ trades[s] # {}
          /\ trades' = [trades EXCEPT ![s] = @ \ Oldest(@)]
          /\ UNCHANGED liquidations
       \/ /\ liquidations[s] # {}
          /\ liquidations' = [liquidations EXCEPT ![s] = @ \ Oldest(@)]
          /\ UNCHANGED trades
    /\ UNCHANGED <<route, hub, connection, steady, depth, candles>>

FlowAges(s) ==
    /\ flow[s] # {}
    /\ \E o \in flow[s] :
        /\ \A p \in flow[s] : o.to <= p.to
        /\ flow' = [flow EXCEPT ![s] = @ \ {o}]
    /\ UNCHANGED <<route, hub, connection, steady, windows, book, bookId,
                   candles>>

(* STREAM_TTL_MS since a depth snapshot arrived.                           *)
BookExpires(s) ==
    /\ \E b \in book[s] :
        b.live /\ book' = [book EXCEPT ![s] = {[b EXCEPT !.live = FALSE]}]
    /\ UNCHANGED <<route, hub, connection, steady, windows, bookId, flow,
                   candles>>

IntervalEnds ==
    /\ route.kind = "market" /\ bar < MaxBar
    /\ bar' = bar + 1
    /\ UNCHANGED <<route, hub, connection, steady, windows, depth, series>>

-----------------------------------------------------------------------------
(* run_dynamic_connection.  A refused or timed-out connect only counts and *)
(* waits, so it is a stuttering step.                                      *)

caches == <<windows, depth, candles>>

(* Top of the loop: an empty shard needs no socket.                        *)
Look ==
    /\ link = "start"
    /\ link' = IF RouteStreams(route, symbols) = {} THEN "idle" ELSE "dialing"
    /\ UNCHANGED <<route, hub, active, gen, steady, caches>>

Wake ==
    /\ link = "idle" /\ unseen
    /\ unseen' = FALSE
    /\ link' = "start"
    /\ UNCHANGED <<route, symbols, active, gen, steady, caches>>

(* Connected: the windows of the route are dropped before it is used.      *)
Connect ==
    /\ link = "dialing" /\ gen < MaxGen
    /\ link' = "recovered"
    /\ gen' = gen + 1
    /\ steady' = symbols
    /\ LET Drop(w) == [s \in Symbols |->
                        IF s \in Recovered(route, symbols) THEN {} ELSE w[s]]
       IN IF route.kind = "public"
          THEN flow' = Drop(flow) /\ UNCHANGED windows
          ELSE /\ trades' = Drop(trades)
               /\ liquidations' = Drop(liquidations)
               /\ UNCHANGED flow
    /\ UNCHANGED <<route, hub, active, book, bookId, candles>>

(* SUBSCRIBE of everything desired by now; the write may fail.             *)
Subscribe ==
    /\ link = "recovered"
    /\ \/ link' = "up" /\ active' = RouteStreams(route, symbols)
       \/ link' = "start" /\ gen < MaxGen /\ UNCHANGED active
    /\ UNCHANGED <<route, hub, gen, steady, caches>>

(* Mutant: the removals are forgotten.                                     *)
ApplyAdditions ==
    /\ link = "up" /\ unseen
    /\ unseen' = FALSE
    /\ active' = active \cup RouteStreams(route, symbols)
    /\ UNCHANGED <<route, symbols, link, gen, steady, caches>>
(* symbols.changed(): SUBSCRIBE the additions, UNSUBSCRIBE the removals.   *)
ApplySymbols ==
    /\ link = "up" /\ unseen
    /\ unseen' = FALSE
    /\ \/ active' = RouteStreams(route, symbols) /\ UNCHANGED link
       \/ link' = "start" /\ gen < MaxGen /\ active' = {}
    /\ UNCHANGED <<route, symbols, gen, steady, caches>>

(* Close, read error, rejection, idle timeout or a failed ping.            *)
Disconnect ==
    /\ link = "up" /\ gen < MaxGen
    /\ link' = "start"
    /\ active' = {}
    /\ UNCHANGED <<route, hub, gen, steady, caches>>

-----------------------------------------------------------------------------
(* handle_payload: one action per kind of message of an active stream.     *)

Carries(s, suffix) == link = "up" /\ <<s, suffix>> \in active

UpdateTrade(s) ==
    /\ Carries(s, "aggTrade")
    /\ trades' = [trades EXCEPT ![s] = @ \cup {gen}]
    /\ UNCHANGED <<route, hub, connection, steady, liquidations, depth,
                   candles>>

UpdateLiquidation(s) ==
    /\ Carries(s, "forceOrder")
    /\ liquidations' = [liquidations EXCEPT ![s] = @ \cup {gen}]
    /\ UNCHANGED <<route, hub, connection, steady, trades, depth, candles>>

(* update_depth.  A snapshot already superseded is dropped; one already    *)
(* seen refreshes the book; a new one is joined to a book still live.      *)
Snapshot(id) == [id |-> id, gen |-> gen, live |-> TRUE]
Join(b, id) == [from |-> b.id, to |-> id, gen |-> gen, joined |-> b.live]

FlowWith(s, id) ==
    IF id = bookId[s] THEN flow[s]
    ELSE flow[s] \cup {Join(b, id) : b \in {c \in book[s] : c.live}}

(* Mutant: a snapshot older than the book replaces it.                     *)
UpdateDepthAnyOrder(s, id) ==
    /\ Carries(s, "depth20")
    /\ bookId' = [bookId EXCEPT ![s] = id]
    /\ flow' = [flow EXCEPT ![s] = FlowWith(s, id)]
    /\ book' = [book EXCEPT ![s] = {Snapshot(id)}]
    /\ UNCHANGED <<route, hub, connection, steady, windows, candles>>
UpdateDepth(s, id) ==
    /\ Carries(s, "depth20")
    /\ id >= bookId[s]
    /\ bookId' = [bookId EXCEPT ![s] = id]
    /\ flow' = [flow EXCEPT ![s] = FlowWith(s, id)]
    /\ book' = [book EXCEPT ![s] = {Snapshot(id)}]
    /\ UNCHANGED <<route, hub, connection, steady, windows, candles>>

(* Mutant: nothing leaves the cache.                                       *)
KeepAll(seq) == seq
KeepLast(seq) == IF Len(seq) > CandleLimit THEN Tail(seq) ELSE seq
Pushed(seq, c) ==
    LET n == Len(seq)
    IN  IF n > 0 /\ seq[n].bar = c.bar
        THEN IF seq[n].closed /\ ~c.closed THEN seq
             ELSE [seq EXCEPT ![n] = c]
        ELSE KeepLast(Append(seq, c))

(* update_kline, of the open interval or the one before it; a delayed      *)
(* partial may follow the terminal update of its interval.                 *)
UpdateKline(s, b, closed) ==
    /\ Carries(s, "kline")
    /\ b \in {bar - 1, bar} \cap 1..MaxBar /\ (closed => b < bar)
    /\ series' = [series EXCEPT
                    ![s] = Pushed(@, [bar |-> b, closed |-> closed])]
    /\ UNCHANGED <<route, hub, connection, steady, windows, depth, bar>>

Deliver ==
    \E s \in Symbols :
        \/ UpdateTrade(s)
        \/ UpdateLiquidation(s)
        \/ \E id \in 1..MaxId : UpdateDepth(s, id)
        \/ \E b \in 1..MaxBar, closed \in BOOLEAN : UpdateKline(s, b, closed)

Time ==
    \/ \E s \in Symbols : TradesAge(s) \/ FlowAges(s) \/ BookExpires(s)
    \/ IntervalEnds

Dial == Look \/ Wake \/ Connect \/ Subscribe \/ ApplySymbols

StreamNext == Dial \/ Disconnect \/ Deliver \/ Time

-----------------------------------------------------------------------------
(* Properties of the hub.                                                  *)

(* A window of a symbol that stayed desired holds what one connection      *)
(* delivered: a reconnect "invalidates the short windows owned by that     *)
(* route" (mark_route_recovering), so nothing is joined across it.         *)
WindowOfOneConnection ==
    \A s \in steady :
        trades[s] \cup liquidations[s] \subseteq {gen}

(* Order flow counts each snapshot once, in the exchange's order, against  *)
(* a book at most STREAM_TTL_MS old; and a symbol that stayed desired only *)
(* has flow that arrived on the present connection (update_depth,          *)
(* mark_route_recovering).                                                 *)
FlowIsSound ==
    \A s \in Symbols : \A o \in flow[s] :
        /\ o.from < o.to /\ o.joined
        /\ \A p \in flow[s] : p.to = o.to => p = o
        /\ s \in steady => o.gen = gen

(* The book of a symbol never goes back to an older snapshot, whatever     *)
(* order redundant or reconnected sockets deliver them in (update_depth).  *)
BookNeverGoesBack ==
    [][\A s \in Symbols : \A b \in book[s], c \in book'[s] :
        b.id <= c.id]_book

(* Once the universe stays the same, the connection ends up subscribed to  *)
(* exactly its streams of it, whatever changed while it was dialing, idle  *)
(* or reconnecting (run_dynamic_connection loses no change of the watch    *)
(* channel).                                                               *)
Settled ==
    /\ link \in {"idle", "up"}
    /\ active = RouteStreams(route, symbols)
SubscriptionsSettle ==
    []<><<symbols' # symbols>>_symbols \/ <>[]Settled
=============================================================================
