----------------------------- MODULE Portfolios -----------------------------
(***************************************************************************)
(* portfolio::Manager and Portfolio (src/src/roq/core/portfolio): accounts *)
(* are grouped into portfolios, a portfolio keeps the position of each of  *)
(* its accounts in each market.  The number of a portfolio is taken for    *)
(* the number of the strategy that is to be told of its positions.         *)
(***************************************************************************)
EXTENDS Integers, Tables, SequencesExt

VARIABLE portfolios   \* last_portfolio_id and the maps

portfolioVars == <<portfolios>>

NoPortfolio == 0

NoPortfolios ==
    [last_portfolio_id |-> 0, table |-> <<>>, by_name |-> <<>>, by_account |-> <<>>]

NewPortfolio(name) == [portfolio_name |-> name, positions |-> <<>>]

Exposure(buy, sell) == [position_buy |-> buy, position_sell |-> sell]
NoExposure == Exposure(0, 0)

(* emplace_portfolio(): found by its number, else by its name, else new,   *)
(* with the next number when it has none.                                  *)
PortfolioIdent(ps, id, name) ==
    CASE id # NoPortfolio /\ id \in DOMAIN ps.table -> id
      [] name \in DOMAIN ps.by_name -> ps.by_name[name]
      [] id = NoPortfolio -> ps.last_portfolio_id + 1
      [] OTHER -> id

emplace_portfolio(ps, id, name) ==
    LET ident == PortfolioIdent(ps, id, name)
    IN  IF ident \in DOMAIN ps.table THEN ps
        ELSE [ps EXCEPT !.last_portfolio_id = IF ident > @ THEN ident ELSE @,
                        !.table = Put(@, ident, NewPortfolio(name)),
                        !.by_name = TryEmplace(@, name, ident)]

(* configure(), for one [[account]] of the file.  number is the value of   *)
(* parse_uint32 for its portfolio.                                         *)
ConfigureAccount(ps, node, number) ==
    [emplace_portfolio(ps, number, node.portfolio)
        EXCEPT !.by_account = Put(@, <<node.exchange, node.account>>,
                                  PortfolioIdent(ps, number, node.portfolio))]

(* ParametersUpdate: core:portfolio_name names the strategy's portfolio.   *)
PortfolioParameter(ps, p) ==
    IF p.label = <<"core", "portfolio_name">>
    THEN emplace_portfolio(ps, p.strategy_id, p.value[1])
    ELSE ps

PortfolioAsserts(p) ==
    p.label = <<"core", "portfolio_name">> => p.strategy_id # 0

(* get_portfolio_by_account()                                              *)
portfolio_by_account(ps, account, exchange) ==
    LET ident == Get(ps.by_account, <<exchange, account>>, NoPortfolio)
    IN  IF ident \in DOMAIN ps.table THEN ident ELSE NoPortfolio

set_position(ps, ident, account, market, exposure) ==
    IF ident = NoPortfolio THEN ps
    ELSE [ps EXCEPT !.table[ident].positions = Put(@, <<account, market>>, exposure)]

get_position(ps, ident, account, market) ==
    IF ident = NoPortfolio THEN NoExposure
    ELSE Get(ps.table[ident].positions, <<account, market>>, NoExposure)

(* Portfolio::operator()(Trade)                                            *)
Traded(x, side, quantity) ==
    IF side = "BUY" THEN [x EXCEPT !.position_buy = @ + quantity]
    ELSE [x EXCEPT !.position_sell = @ + quantity]
=============================================================================
