------------------------------- MODULE Books -------------------------------
(***************************************************************************)
(* The books of oms::Manager (src/src/roq/core/oms): one for each market a *)
(* strategy trades through an account, found by the three, and the gateway *)
(* each sends its requests to.  What a book does with orders is Oms.       *)
(***************************************************************************)
EXTENDS Gateways, Markets

VARIABLES
    books,            \* books_
    trade_gateways    \* trade_gateway_by_account_by_exchange_

bookVars == <<books, trade_gateways>>

(* Mutant: the keys of the two maps are swapped.                           *)
SwappedGateways(nodes) ==
    FoldLeft(LAMBDA acc, node :
                Put(acc, <<node.account, node.exchange>>, node.trade_gateway),
             <<>>, nodes)

(* configure()                                                             *)
TradeGateways(nodes) ==
    FoldLeft(LAMBDA acc, node :
                Put(acc, <<node.exchange, node.account>>, node.trade_gateway),
             <<>>, nodes)

get_trade_gateway(exchange, account) == Get(trade_gateways, <<exchange, account>>, "")

BookKey(strategy, account, market) ==
    [strategy |-> strategy, account |-> account, market |-> market]

(* emplace_book(): a new book trades through the gateway that comes with   *)
(* the key, or through the one configured for the account.                 *)
NewBook(key, account, gateway_name) ==
    [key |-> key, trade_gateway_id |-> NoSource,
     trade_gateway_name |-> IF gateway_name # "" THEN gateway_name
                            ELSE get_trade_gateway(key[1], account)]

emplace_book(bs, bookKey, key, gateway_name) ==
    TryEmplace(bs, bookKey, NewBook(key, bookKey.account, gateway_name))

EmplaceBookAsserts(strategy, account, key, gateway_name) ==
    /\ strategy # 0
    /\ account # ""
    /\ key[1] # "" /\ key[2] # ""
    /\ NewBook(key, account, gateway_name).trade_gateway_name # ""

(* get_book(): by the number of the market.                                *)
FindsBook(bs, ms, strategy, account, key) ==
    BookKey(strategy, account, get_market_ident(ms, key)) \in DOMAIN bs

(* Mutant: the number zero is taken for none.                              *)
ResolvedPositive(book, ids) ==
    IF book.trade_gateway_id < 0 /\ get_source(ids, book.trade_gateway_name) > 0
    THEN [book EXCEPT !.trade_gateway_id = get_source(ids, book.trade_gateway_name)]
    ELSE book

(* resolve_trade_gateway(), which process() does before anything else; ids *)
(* is gateway_id_by_name when it does.                                     *)
Resolved(book, ids) ==
    IF book.trade_gateway_id < 0
    THEN [book EXCEPT !.trade_gateway_id = get_source(ids, book.trade_gateway_name)]
    ELSE book

Processed(bs, ids) == [b \in DOMAIN bs |-> Resolved(bs[b], ids)]

(* Mutant: every book takes the number of the gateway that reports.        *)
NamedAnyway(bs, source, name) ==
    [b \in DOMAIN bs |-> [bs[b] EXCEPT !.trade_gateway_id = source]]

(* GatewayStatus: the books of this gateway learn its number.              *)
NamedGateway(bs, source, name) ==
    [b \in DOMAIN bs |->
        IF bs[b].trade_gateway_name = name
        THEN [bs[b] EXCEPT !.trade_gateway_id = source] ELSE bs[b]]
=============================================================================
