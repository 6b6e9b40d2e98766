------------------------------ MODULE Markets ------------------------------
(***************************************************************************)
(* market::Manager (src/src/roq/core/market): every market has a number,   *)
(* given when its exchange and symbol are first met, and an index from the *)
(* two to the number.  Everybody emplaces: the configuration, reference    *)
(* data, positions, parameters, the books.  The operators take the manager *)
(* as a value, since one event may emplace several markets.                *)
(***************************************************************************)
EXTENDS Integers, Tables, SequencesExt

CONSTANTS
    Wildcards     \* symbols with a '*'

VARIABLE markets  \* last_market_id, market_by_id_ and the index of keys

NoMarket == 0
NoTick == 0       \* tick_size is NaN
Unassigned == -1  \* mdata_gateway_id of a market no settings have reached

BestQuotesSource == {"TOP_OF_BOOK", "MARKET_BY_PRICE", "VWAP"}

NoMarkets == [last_market_id |-> 0, by_id |-> <<>>, ident |-> <<>>]

NewMarket(key) ==
    [key |-> key, mdata_gateway_id |-> Unassigned, mdata_gateway_name |-> "",
     best_quotes_source |-> "TOP_OF_BOOK", tick_size |-> NoTick]

get_market_ident(ms, key) == Get(ms.ident, key, NoMarket)

(* Mutant: a market is not looked for before it is inserted.               *)
BlindEmplace(ms, key) ==
    LET id == ms.last_market_id + 1
    IN  [last_market_id |-> id,
         by_id |-> Put(ms.by_id, id, NewMarket(key)),
         ident |-> Put(ms.ident, key, id)]

emplace_market(ms, key) ==
    IF get_market_ident(ms, key) # NoMarket THEN ms
    ELSE LET id == ms.last_market_id + 1
         IN  [last_market_id |-> id,
              by_id |-> Put(ms.by_id, id, NewMarket(key)),
              ident |-> Put(ms.ident, key, id)]

(* configure(): the table and the index are cleared, the last number is    *)
(* not.  node is one [[market]] of the file.                               *)
ConfigureSymbol(ms, node, symbol) ==
    IF symbol \in Wildcards THEN ms
    ELSE LET key == <<node.exchange, symbol>>
             ns == emplace_market(ms, key)
             id == get_market_ident(ns, key)
         IN  [ns EXCEPT !.by_id[id].mdata_gateway_name = node.mdata_gateway,
                        !.by_id[id].best_quotes_source = node.best_quotes_source]

MarketsConfigured(ms, nodes) ==
    FoldLeft(LAMBDA acc, node :
                FoldLeft(LAMBDA ns, symbol : ConfigureSymbol(ns, node, symbol),
                         acc, node.symbols),
             [ms EXCEPT !.by_id = <<>>, !.ident = <<>>], nodes)

(* Mutant: a connection with the number zero is taken for none.            *)
AssignPositive(ms, source, name) ==
    [ms EXCEPT !.by_id = [id \in DOMAIN @ |->
        IF @[id].mdata_gateway_name = name /\ source > 0
        THEN [@[id] EXCEPT !.mdata_gateway_id = source] ELSE @[id]]]

(* GatewaySettings: the markets whose data this gateway brings.            *)
AssignGateway(ms, source, name) ==
    [ms EXCEPT !.by_id = [id \in DOMAIN @ |->
        IF @[id].mdata_gateway_name = name
        THEN [@[id] EXCEPT !.mdata_gateway_id = source] ELSE @[id]]]

(* ReferenceData                                                           *)
SetTickSize(ms, key, tick_size) ==
    LET ns == emplace_market(ms, key)
    IN  [ns EXCEPT !.by_id[ns.ident[key]].tick_size = tick_size]
=============================================================================
