--------------------------- MODULE MCMarketSource ---------------------------
(* MarketSource on small instances: see the .cfg files.                    *)
EXTENDS MarketSource

CONSTANTS a, b

Follow(kind, shard) == [kind |-> kind, shard |-> shard]
OneOfEach == {Follow("market", 1), Follow("trade", 0), Follow("public", 2)}
TradeShards == {Follow("trade", 0), Follow("trade", 1)}
BitsOfName == [s \in Symbols |-> IF s = a THEN 0 ELSE 1]
HashOfDepth == [s \in Symbols |-> 2]
OneSymbol == {{}, {a}}
BothSymbols == {{a, b}}
=============================================================================
