--------------------------- MODULE CoreProperties ---------------------------
(***************************************************************************)
(* What core::Strategy must make of the events, whatever the order in      *)
(* which the gateways' events are interleaved, connections are lost and    *)
(* the process is started again.                                           *)
(***************************************************************************)
EXTENDS CoreEvents

Legs(s) == DOMAIN strategies[s].legs

(* TypeOK: every table refers to entries that exist: the index of markets  *)
(* to the table of markets and back, books, positions and legs to markets, *)
(* accounts to portfolios.  (market_by_id_, positions_by_market_by_account *)
(* and legs_by_account_ are indexed by numbers that other parts hand out.) *)
TypeOK ==
    /\ phase \in Phases
    /\ \A s \in DOMAIN gateway_by_id :
         s \in Sources /\ gateway_by_id[s].available \in SUBSET MdSupport
    /\ DOMAIN markets.by_id \subseteq 1..markets.last_market_id
    /\ \A k \in DOMAIN markets.ident : markets.by_id[markets.ident[k]].key = k
    /\ \A id \in DOMAIN markets.by_id : markets.ident[markets.by_id[id].key] = id
    /\ DOMAIN best_quotes \subseteq DOMAIN markets.by_id
    /\ \A b \in DOMAIN books : b.market \in DOMAIN markets.by_id
    /\ \A s \in DOMAIN strategies, l \in UNION {Legs(x) : x \in DOMAIN strategies} :
         l[2] \in DOMAIN markets.by_id
    /\ \A x \in DOMAIN portfolios.by_account :
         portfolios.by_account[x] \in DOMAIN portfolios.table

(* Books, legs, positions and requests keep the number of a market, and    *)
(* none is told of a new one: a market that has a number keeps it until    *)
(* the process ends, whoever emplaces it again (market/manager.hpp:62).    *)
IdsStable ==
    [][phase' # "new" =>
         \A k \in DOMAIN markets.ident :
             k \in DOMAIN markets'.ident /\ markets'.ident[k] = markets.ident[k]]_vars

(* The book of an order update is found by exchange and symbol, account    *)
(* and strategy (oms/manager.cpp:785), the gateway of a request by the     *)
(* number that a book has resolved once: every book can be found so, and   *)
(* its number is that of the gateway it names.                             *)
BooksReachable ==
    \A b \in DOMAIN books :
        /\ FindsBook(books, markets, b.strategy, b.account, books[b].key)
        /\ books[b].trade_gateway_id # NoSource =>
             SourceName[books[b].trade_gateway_id] = books[b].trade_gateway_name

(* Every account and symbol of a [[parameter]] table has, after the start, *)
(* the value that stands for it in the file: its own, or the last one when *)
(* there are fewer values than symbols (config/toml_file.hpp:208).         *)
ConfigDelivered ==
    phase = "running" /\ used.changes = 0 =>
    \A i \in DOMAIN File.parameter :
        LET node == File.parameter[i]
            count == Len(node.value.values)
            label == Rest(node.label)
        IN  Prefix(node.label) = "lqs" /\ label \notin {<<"enabled">>, <<"underlying">>} =>
            \A account \in ToSet(node.account.values), j \in DOMAIN node.symbol.values :
                LET key == <<node.exchange, node.symbol.values[j]>>
                    leg == <<account, get_market_ident(markets, key)>>
                IN  strategies[Number[node.strategy]].legs[leg].terms[label] =
                        node.value.values[IF j < count THEN j ELSE count]

(* With a complete file no assert fails and nothing is thrown, however the *)
(* events come: a book always has a gateway to trade through               *)
(* (oms/manager.cpp:103).                                                  *)
NeverFails == phase # "failed"

(* What a trader holds, as the pricer and its portfolio are to see it.     *)
Holds(t, k) ==
    Exposure(IF held[t, k] > 0 THEN held[t, k] ELSE 0,
             IF held[t, k] < 0 THEN -held[t, k] ELSE 0)

(* Nothing about positions is under way.                                   *)
Informed(t) ==
    LET s == TradeSource[t]
    IN  /\ phase = "running"
        /\ s \in linked
        /\ \A i \in DOMAIN queue[s] : IsData(queue[s][i])

(* Once an account's gateway has no more to tell, the portfolio and the    *)
(* pricer hold the position the account really has, in every market, after *)
(* any number of fills, lost connections and restarts, and with two        *)
(* accounts in one portfolio (portfolio/manager.cpp:82, lqs/pricer.cpp:60).*)
ExposureAgrees ==
    \A x \in Holdings :
        Informed(x[1]) =>
        LET t == x[1]
            k == x[2]
            market == get_market_ident(markets, k)
        IN  /\ get_position(portfolios, t.strategy, t.account, market) = Holds(t, k)
            /\ strategies[t.strategy].legs[<<t.account, market>>].position = Holds(t, k)

(* share/config-lqs.toml:10-11: "core::PositionSource::ORDERS takes initial *)
(* snapshot from roq::PositionUpdate, and updates position using           *)
(* roq::OrderUpdate".  The traded position of an account, buys less sells, *)
(* is then what the account holds.  The trade has no account               *)
(* (oms/manager.cpp:564), the portfolio looks it up by one: violated.      *)
OrdersMovePosition ==
    \A x \in Holdings :
        Informed(x[1]) =>
        LET t == x[1]
            has == get_position(portfolios, t.strategy, t.account,
                                get_market_ident(markets, x[2]))
        IN  has.position_buy - has.position_sell = held[x]

(* A leg is given quotes only when the download of its market's gateway is *)
(* done and the connection has not been lost: data that come with the      *)
(* download are not traded upon (core/manager.cpp is_ready).               *)
QuotesOnlyOnceDownloaded ==
    [][\A s \in DOMAIN strategies \cap DOMAIN strategies' :
         \A l \in Legs(s) \cap DOMAIN strategies'[s].legs :
            strategies'[s].legs[l].quotes # strategies[s].legs[l].quotes =>
            LET source == DataSource[markets.by_id[l[2]].key]
            IN  /\ source \in linked
                /\ OfAccount("DownloadEnd", source, "") \notin ToSet(queue[source])]_vars

(* Quotes of a market that is not ready are dropped and asked for by       *)
(* nobody (strategy.cpp:43): still, whatever connects first, is lost and   *)
(* comes back, every leg of the pricer has in the end the prices of its    *)
(* market, as long as the gateway goes on sending them.                    *)
QuotesArrive ==
    <>[](phase = "running" /\ \A s \in DOMAIN strategies : \A l \in Legs(s) :
            LET k == markets.by_id[l[2]].key
                q == strategies[s].legs[l].quotes
            IN  q.buy.price = top[k].bid_price /\ q.sell.price = top[k].ask_price)

(* A book has the number of its gateway in the end, whether the gateway    *)
(* was known before the book was emplaced or not, zero is that number or   *)
(* not, and whatever was lost since: until then process() returns early    *)
(* (oms/manager.cpp:756).                                                  *)
BooksResolve ==
    <>[](phase = "running" /\ \A b \in DOMAIN books : books[b].trade_gateway_id # NoSource)
-----------------------------------------------------------------------------
(* What the theorems assume of the configuration file, and of how it fits  *)
(* the gateways there are.                                                 *)

NamedByFile(key, name) ==
    \E i \in DOMAIN File.market :
        LET node == File.market[i]
        IN  /\ node.exchange = key[1]
            /\ key[2] \in ToSet(node.symbols)
            /\ node.mdata_gateway = name

(* The data of a market come from the gateway that the file names for it.  *)
DataAsConfigured ==
    /\ \A s \in Sources : SourceName[s] # ""
    /\ \A k \in Keys, s \in Sources : NamedByFile(k, SourceName[s]) => DataSource[k] = s

(* The file says through which gateway an account trades.                  *)
FileTrades(exchange, account) ==
    /\ \E i \in DOMAIN File.account :
         <<File.account[i].exchange, File.account[i].account>> = <<exchange, account>>
    /\ \A i \in DOMAIN File.account :
         <<File.account[i].exchange, File.account[i].account>> = <<exchange, account>> =>
             File.account[i].trade_gateway # ""

Emplaces(p) == Prefix(p.label) = "lqs" /\ EmplacesLeg(p, Rest(p.label))

(* A parameter names all that it is about.                                 *)
ParameterComplete(p) ==
    /\ PortfolioAsserts(p)
    /\ Prefix(p.label) = "oms" => p.strategy_id # 0 /\ p.exchange # "" /\ p.symbol # ""
    /\ Prefix(p.label) = "oms" \/ Emplaces(p) =>
         p.account # "" /\ FileTrades(p.exchange, p.account)

AllComplete(update) == \A i \in DOMAIN update : ParameterComplete(update[i])

(* Every account that is traded or holds a position has its gateway in the *)
(* file, and every parameter, of the file or sent later, is complete.      *)
CompleteFile ==
    /\ ~ConfigureThrows
    /\ File.position_source # "ORDERS"
    /\ AllComplete(Loaded)
    /\ \A update \in Updates : AllComplete(update)
    /\ \A x \in Holdings : FileTrades(x[2][1], x[1].account)

(* The tables of an account, and that they agree on its portfolio; c is    *)
(* the exchange with the account, and the portfolio.                       *)
AccountAt(c, i) == <<File.account[i].exchange, File.account[i].account>> = c[1]
AccountAgreed(c) ==
    /\ c[2] # NoPortfolio
    /\ \A i \in DOMAIN File.account :
         AccountAt(c, i) => Number[PortfolioText(File.account[i])] = c[2]

PortfolioOf(x) == <<<<x[2][1], x[1].account>>, x[1].strategy>>

(* The accounts that hold positions are in the file, each in the portfolio *)
(* with the number of its strategy, which a parameter makes known; no two  *)
(* of them have the same name.                                             *)
HoldingsConfigured ==
    /\ ~ConfigureThrows
    /\ File.position_source # "ORDERS"
    /\ \A x \in Holdings :
         /\ AccountAgreed(PortfolioOf(x))
         /\ \E i \in DOMAIN File.account : AccountAt(PortfolioOf(x), i)
         /\ \E j \in DOMAIN Loaded :
              Prefix(Loaded[j].label) = "lqs" /\ Loaded[j].strategy_id = x[1].strategy
    /\ \A x, y \in Holdings : x[1].account = y[1].account /\ x[2] = y[2] => x = y

(* A label names a term of a leg, and a parameter the leg as well.         *)
IsTerm(label) ==
    Prefix(label) = "lqs" /\ Rest(label) # <<"enabled">> /\ ~Underlies(Rest(label))
TellsTerm(p) == IsTerm(p.label) /\ Named(p) /\ p.strategy_id # 0

(* A parameter q sets the term that p has set: one without exchange and    *)
(* symbol is for all legs, one without a strategy for all strategies.      *)
Overwrites(q, p) ==
    /\ Prefix(q.label) = "lqs" /\ Rest(q.label) = Rest(p.label)
    /\ q.strategy_id \in {0, p.strategy_id}
    /\ Named(q) => q.account = p.account /\ Key(q) = Key(p)

(* Every table of terms names its strategy and its markets and has a       *)
(* value, and what one parameter sets no later one sets to something else. *)
ParametersApart ==
    /\ UseTomlParameters
    /\ \A i \in DOMAIN File.parameter :
         LET node == File.parameter[i]
         IN  /\ Prefix(node.label) = "lqs"
             /\ Rest(node.label) \notin {<<"enabled">>, <<"underlying">>}
             /\ node.symbol.values # <<>>
             => /\ IsTerm(node.label)
                /\ node.exchange # "" /\ "" \notin ToSet(node.symbol.values)
                /\ Number[node.strategy] # 0
                /\ node.value.values # <<>>
    /\ \A m, n \in DOMAIN Loaded :
         m < n /\ TellsTerm(Loaded[m]) /\ Overwrites(Loaded[n], Loaded[m]) =>
             Loaded[n].value = Loaded[m].value
=============================================================================
