---------------------------- MODULE CoreStrategy ----------------------------
(***************************************************************************)
(* core::Strategy (src/src/roq/core): every event is given to the parts of *)
(* the program in one order: configuration, caches (gateways, markets,     *)
(* portfolios), order manager, pricer.  What a part calls on the way is    *)
(* done before the next part sees the event: a position reaches the pricer *)
(* as an exposure, and the order manager as target quotes, before the      *)
(* order manager is given the position itself.                             *)
(*                                                                         *)
(* One action is one event handled to its end; an operator applied to      *)
(* primed variables reads what an earlier part has just made of them.      *)
(* Of the pricer (lqs::Pricer) there is what it is told: its strategies,   *)
(* their legs with position, quotes and terms.  What quotes it answers     *)
(* with is Lqs; here it sends some of the legs that have quotes.  Of the   *)
(* order manager there are the books; what it does with them is Oms.       *)
(***************************************************************************)
EXTENDS Books, Portfolios, Config

VARIABLES
    best_quotes,   \* core.best_quotes
    strategies,    \* pricer.strategies_
    phase          \* "new", "configured", "running", or "failed"

coreVars == <<gatewayVars, markets, portfolios, bookVars, parameters,
              best_quotes, strategies, phase>>

Phases == {"new", "configured", "running", "failed"}

NoQuote == [price |-> 0, volume |-> 0]
NoQuotes == [buy |-> NoQuote, sell |-> NoQuote]

NewLeg == [position |-> NoExposure, quotes |-> NoQuotes, terms |-> <<>>]
NewStrategy == [enabled |-> FALSE, legs |-> <<>>]
-----------------------------------------------------------------------------
(* Start: the constructor of core::Strategy                                *)

CoreInit ==
    /\ GatewaysInit
    /\ markets = NoMarkets
    /\ portfolios = NoPortfolios
    /\ books = <<>>
    /\ trade_gateways = <<>>
    /\ parameters = <<>>
    /\ best_quotes = <<>>
    /\ strategies = <<>>
    /\ phase = "new"

(* The process starts anew: nothing is kept between two runs of it.        *)
CoreRestarts ==
    /\ gateway_by_id' = <<>> /\ gateway_id_by_name' = <<>>
    /\ markets' = NoMarkets
    /\ portfolios' = NoPortfolios
    /\ books' = <<>> /\ trade_gateways' = <<>>
    /\ parameters' = <<>>
    /\ best_quotes' = <<>>
    /\ strategies' = <<>>
    /\ phase' = "new"

(* A table without a portfolio has an empty one, and the number "0".       *)
PortfolioText(node) == IF node.portfolio = "" THEN "0" ELSE node.portfolio

ConfigureThrows ==
    \/ LoadThrows
    \/ \E i \in DOMAIN File.account : PortfolioText(File.account[i]) \notin DOMAIN Number

Configures ==
    /\ phase = "new"
    /\ IF ConfigureThrows
       THEN phase' = "failed" /\ UNCHANGED <<markets, portfolios, trade_gateways>>
       ELSE /\ phase' = "configured"
            /\ markets' = MarketsConfigured(markets, File.market)
            /\ portfolios' =
                 FoldLeft(LAMBDA ps, node :
                            ConfigureAccount(ps, node, Number[PortfolioText(node)]),
                          portfolios, File.account)
            /\ trade_gateways' = TradeGateways(File.account)
    /\ UNCHANGED <<gatewayVars, books, parameters, best_quotes, strategies>>
-----------------------------------------------------------------------------
(* Parameters                                                              *)

(* oms::Manager::operator()(ParametersUpdate); acc holds markets, books,   *)
(* and whether every assert held.                                          *)
OmsParameter(acc, p) ==
    IF Prefix(p.label) # "oms" THEN acc
    ELSE LET ms == emplace_market(acc.markets, Key(p))
             b == BookKey(p.strategy_id, p.account, ms.ident[Key(p)])
         IN  [markets |-> ms,
              books |-> emplace_book(acc.books, b, Key(p), ""),
              holds |-> acc.holds /\ EmplaceBookAsserts(p.strategy_id, p.account, Key(p), "")]

EmplaceLeg(strategy, leg) ==
    [strategy EXCEPT !.legs = TryEmplace(@, leg, NewLeg)]

SetTerm(leg, label, value) == [leg EXCEPT !.terms = Put(@, label, value)]

Named(p) == p.exchange # "" /\ p.symbol # ""

(* What the label says after "lqs": an underlying, or a term of a leg.     *)
Underlies(label) == label[1] = "underlying"
EmplacesLeg(p, label) ==
    \/ label = <<"underlying">>
    \/ label # <<"enabled">> /\ ~Underlies(label) /\ Named(p)

(* lqs::Strategy::operator()(Parameter).                                   *)
StrategyParameter(strategy, ms, p, label) ==
    LET leg == <<p.account, get_market_ident(ms, Key(p))>>
        emplaced == IF EmplacesLeg(p, label) THEN EmplaceLeg(strategy, leg) ELSE strategy
        told == IF Named(p) THEN {leg} ELSE DOMAIN strategy.legs
    IN  IF label = <<"enabled">> THEN [strategy EXCEPT !.enabled = p.value = <<"true">>]
        ELSE IF Underlies(label) THEN emplaced
        ELSE [emplaced EXCEPT !.legs = [l \in DOMAIN @ |->
                IF l \in told THEN SetTerm(@[l], label, p.value) ELSE @[l]]]

(* The markets a parameter makes known: of its leg or underlying, and the  *)
(* one that the value names.                                               *)
ParameterMarkets(ms, p, label) ==
    LET ns == IF EmplacesLeg(p, label) \/ Underlies(label)
              THEN emplace_market(ms, Key(p)) ELSE ms
    IN  IF label = <<"underlying">> THEN emplace_market(ns, p.value) ELSE ns

(* Pricer::operator()(ParametersUpdate): the strategy named, or all.       *)
PricerParameter(acc, p) ==
    IF Prefix(p.label) # "lqs" THEN acc
    ELSE LET label == Rest(p.label)
             ms == ParameterMarkets(acc.markets, p, label)
             known == IF p.strategy_id = 0 THEN acc.strategies
                      ELSE TryEmplace(acc.strategies, p.strategy_id, NewStrategy)
             told == IF p.strategy_id = 0 THEN DOMAIN known ELSE {p.strategy_id}
         IN  [markets |-> IF told = {} THEN acc.markets ELSE ms,
              strategies |-> [s \in DOMAIN known |->
                                IF s \in told THEN StrategyParameter(known[s], ms, p, label)
                                ELSE known[s]],
              holds |-> acc.holds
                        /\ (EmplacesLeg(p, label) /\ told # {} => p.account # "")]

(* Pricer::dispatch() and oms::Manager::operator()(TargetQuotes): some of  *)
(* the legs with quotes are sent as target quotes.  A market without a     *)
(* tick size is not quoted, a leg without a book is given one, and process *)
(* goes through all books.                                                 *)
Quotable(ss, ms) ==
    {b \in UNION {{BookKey(s, l[1], l[2]) : l \in DOMAIN ss[s].legs} : s \in DOMAIN ss} :
        /\ b.account # ""
        /\ ss[b.strategy].legs[<<b.account, b.market>>].quotes # NoQuotes
        /\ ms.by_id[b.market].tick_size # NoTick}

(* oms::Market::merge() puts the market data gateway into the key.         *)
TargetBook(ms, b) ==
    NewBook(ms.by_id[b.market].key, b.account, ms.by_id[b.market].mdata_gateway_name)

TargetQuotes(bs, ss, ms, holds) ==
    \E sent \in SUBSET Quotable(ss, ms) :
        LET given == [b \in DOMAIN bs \cup sent |->
                        IF b \in DOMAIN bs THEN bs[b] ELSE TargetBook(ms, b)]
        IN  /\ books' = IF sent = {} THEN bs
                       ELSE Processed(given, gateway_id_by_name')
            /\ phase' = IF /\ holds
                           /\ \A b \in sent : given[b].trade_gateway_name # ""
                        THEN "running" ELSE "failed"

(* The parameters go through portfolios, order manager and pricer.         *)
ParametersHandled(update) ==
    LET oms == FoldLeft(OmsParameter,
                        [markets |-> markets, books |-> books, holds |-> TRUE], update)
        pricer == FoldLeft(PricerParameter,
                        [markets |-> oms.markets, strategies |-> strategies,
                         holds |-> /\ oms.holds
                                   /\ \A i \in DOMAIN update : PortfolioAsserts(update[i])],
                        update)
    IN  /\ UNCHANGED <<gatewayVars, trade_gateways, best_quotes>>
        /\ portfolios' = FoldLeft(PortfolioParameter, portfolios, update)
        /\ markets' = pricer.markets
        /\ strategies' = pricer.strategies
        /\ TargetQuotes(oms.books, pricer.strategies, pricer.markets, pricer.holds)

(* config.dispatch(): a snapshot of the file's parameters, which are then  *)
(* cleared.  The configuration ignores it: is_downloading is set.          *)
DispatchesParameters ==
    /\ phase = "configured"
    /\ ParametersHandled(Loaded)
    /\ UNCHANGED parameters

ParametersUpdate(update) ==
    /\ phase = "running"
    /\ ConfigHandles(update)
    /\ ParametersHandled(update)
-----------------------------------------------------------------------------
(* Gateways and markets                                                    *)

GatewaySettings(e) ==
    /\ phase = "running"
    /\ GatewaysHandle(e)
    /\ markets' = AssignGateway(markets, e.source, SourceName[e.source])
    /\ UNCHANGED <<portfolios, bookVars, parameters, best_quotes, strategies, phase>>

ReferenceData(e) ==
    /\ phase = "running"
    /\ markets' = SetTickSize(markets, e.key, e.tick_size)
    /\ UNCHANGED <<gatewayVars, portfolios, bookVars, parameters, best_quotes,
                   strategies, phase>>

(* DownloadBegin and Disconnected change the gateway only.                 *)
GatewayChanges(e) ==
    /\ phase = "running"
    /\ GatewaysHandle(e)
    /\ UNCHANGED <<markets, portfolios, bookVars, parameters, best_quotes,
                   strategies, phase>>

(* After the download of a gateway, not of an account, every leg computes. *)
DownloadEnd(e) ==
    /\ phase = "running"
    /\ GatewaysHandle(e)
    /\ UNCHANGED <<markets, portfolios, trade_gateways, parameters, best_quotes,
                   strategies>>
    /\ IF e.account # "" THEN UNCHANGED <<books, phase>>
       ELSE TargetQuotes(books, strategies, markets, TRUE)

GatewayStatus(e) ==
    /\ phase = "running"
    /\ GatewaysHandle(e)
    /\ books' = NamedGateway(books, e.source, SourceName[e.source])
    /\ UNCHANGED <<markets, portfolios, trade_gateways, parameters, best_quotes,
                   strategies, phase>>

Timer ==
    /\ phase = "running"
    /\ books' = Processed(books, gateway_id_by_name)
    /\ UNCHANGED <<gatewayVars, markets, portfolios, trade_gateways, parameters,
                   best_quotes, strategies, phase>>
-----------------------------------------------------------------------------
(* Market data                                                             *)

(* Mutant: a gateway that is still downloading counts as ready.            *)
ReadyWhileDownloading(market) ==
    /\ market \in DOMAIN markets.by_id
    /\ LET id == markets.by_id[market].mdata_gateway_id
       IN  id # Unassigned /\ is_ready(MdSupport, id)

(* core::Manager::is_ready(): the market data gateway has all it needs.    *)
market_is_ready(market) ==
    /\ market \in DOMAIN markets.by_id
    /\ LET id == markets.by_id[market].mdata_gateway_id
       IN  id # Unassigned /\ is_ready(MdSupport, id) /\ ~is_downloading(id)

(* TopOfBook: the bid's volume is overwritten with the quantity of the ask *)
(* and the ask's volume never written.                                     *)
FromTop(quotes, layer) ==
    [buy |-> [price |-> layer.bid_price, volume |-> layer.ask_quantity],
     sell |-> [quotes.sell EXCEPT !.price = layer.ask_price]]

(* MarketByPriceUpdate: the best layer of the cached book, if it has one.  *)
(* The cache applies the update twice, which makes no difference to it.    *)
FromLayers(layer) ==
    IF layer.bid_price = 0 /\ layer.ask_price = 0 THEN NoQuotes
    ELSE [buy |-> [price |-> layer.bid_price, volume |-> layer.bid_quantity],
          sell |-> [price |-> layer.ask_price, volume |-> layer.ask_quantity]]

Quoted(e, market) ==
    IF e.kind = "TopOfBook"
    THEN FromTop(Get(best_quotes, market, NoQuotes), e.layer)
    ELSE FromLayers(e.layer)

Source(e) == IF e.kind = "TopOfBook" THEN "TOP_OF_BOOK" ELSE "MARKET_BY_PRICE"

(* Pricer::operator()(Quotes): every leg of the market, in all strategies. *)
QuoteLegs(ss, market, quotes) ==
    [s \in DOMAIN ss |->
        [ss[s] EXCEPT !.legs = [l \in DOMAIN @ |->
            IF l[2] = market THEN [@[l] EXCEPT !.quotes = quotes] ELSE @[l]]]]

MarketData(e) ==
    LET market == get_market_ident(markets, e.key)
    IN  /\ phase = "running"
        /\ UNCHANGED <<gatewayVars, markets, portfolios, trade_gateways, parameters>>
        /\ IF market_is_ready(market) /\ markets.by_id[market].best_quotes_source = Source(e)
           THEN /\ best_quotes' = Put(best_quotes, market, Quoted(e, market))
                /\ strategies' = QuoteLegs(strategies, market, Quoted(e, market))
                /\ TargetQuotes(books, strategies', markets, TRUE)
           ELSE UNCHANGED <<books, best_quotes, strategies, phase>>
-----------------------------------------------------------------------------
(* Positions                                                               *)

(* Pricer::operator()(ExposureUpdate): the number of the portfolio is the  *)
(* number of the strategy; an exposure of no known strategy is dropped.    *)
TakeExposure(ss, strategy, account, market, exposure) ==
    IF strategy \notin DOMAIN ss THEN ss
    ELSE [ss EXCEPT ![strategy] =
            LET leg == <<account, market>>
            IN  [EmplaceLeg(@, leg) EXCEPT !.legs[leg].position = exposure]]

(* Mutant: positions are taken when no download is under way.              *)
TakesUpdates(e) ==
    File.position_source = "ORDERS" \/ ~account_is_downloading(e.source, e.account)

(* With ORDERS only the snapshot of a download is taken.                   *)
TakesPosition(e) ==
    File.position_source = "ORDERS" => account_is_downloading(e.source, e.account)

PositionUpdate(e) ==
    LET ms == emplace_market(markets, e.key)
        market == ms.ident[e.key]
        ident == portfolio_by_account(portfolios, e.account, e.key[1])
        exposure == Exposure(e.long_quantity, e.short_quantity)
    IN  /\ phase = "running"
        /\ UNCHANGED <<gatewayVars, trade_gateways, parameters, best_quotes>>
        /\ markets' = ms
        /\ IF TakesPosition(e)
           THEN /\ portfolios' = set_position(portfolios, ident, e.account, market, exposure)
                /\ strategies' = TakeExposure(strategies, ident, e.account, market, exposure)
                /\ TargetQuotes(books, strategies', ms, TRUE)
           ELSE UNCHANGED <<portfolios, books, strategies, phase>>

(* portfolio::Manager::operator()(Trade): looked up by the trade's account. *)
(* The exposure it makes of the trade names no account, and the strategy   *)
(* that is told of it asserts one when it emplaces the leg.                *)
TradeExposure(trade) ==
    LET ident == portfolio_by_account(portfolios, trade.account, trade.key[1])
        exposure == Traded(get_position(portfolios, ident, trade.account, trade.market),
                           trade.side, trade.quantity)
    IN  IF File.position_source = "ORDERS"
        THEN /\ portfolios' = set_position(portfolios, ident, trade.account, trade.market, exposure)
             /\ phase' = IF ident \in DOMAIN strategies THEN "failed" ELSE phase
        ELSE UNCHANGED <<portfolios, phase>>

(* OrderUpdate of an order that was filled: the order manager finds the    *)
(* book and hands on a trade, which carries no account (order_fills); then *)
(* it processes the book.                                                  *)
OrderUpdate(e) ==
    LET b == BookKey(e.strategy_id, e.account, get_market_ident(markets, e.key))
    IN  /\ phase = "running"
        /\ UNCHANGED <<gatewayVars, markets, trade_gateways, parameters, best_quotes,
                       strategies>>
        /\ IF b \in DOMAIN books
           THEN /\ TradeExposure([account |-> "", key |-> e.key, market |-> b.market,
                                  side |-> e.side, quantity |-> e.quantity])
                /\ books' = [books EXCEPT ![b] = Resolved(@, gateway_id_by_name)]
           ELSE UNCHANGED <<books, portfolios, phase>>
=============================================================================
