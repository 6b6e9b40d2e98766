------------------------------- MODULE MCCore -------------------------------
(* Two gateways, a future and a spot market; one strategy with two         *)
(* accounts in one portfolio, and an account that no strategy trades.      *)
EXTENDS CoreProperties

TwoSources == {0, 1}
Names == 0 :> "x" @@ 1 :> "y"
SomeNumbers == "0" :> 0 @@ "1" :> 1
Stars == {"F*"}

Future == <<"E", "F">>
Spot == <<"E", "S">>
TwoKeys == {Future, Spot}
DataFrom == Future :> 0 @@ Spot :> 1

A == [strategy |-> 1, account |-> "a"]
B == [strategy |-> 1, account |-> "b"]
TwoTraders == {A, B}
ThreeHoldings == {<<A, Future>>, <<A, Spot>>, <<B, Future>>}
OneHolding == {<<A, Future>>}

ThroughX == [t \in Traders |-> 0]

Layer(bid, ask) ==
    [bid_price |-> bid, bid_quantity |-> 1, ask_price |-> ask, ask_quantity |-> 2]
SomeLayers == {Layer(2, 3), Layer(0, 3)}
OneLayer == {Layer(2, 3)}
Long == {1}

MarketNode(symbols, gateway, source) ==
    [exchange |-> "E", symbols |-> symbols, mdata_gateway |-> gateway,
     best_quotes_source |-> source]
AccountNode(account, gateway, portfolio) ==
    [exchange |-> "E", account |-> account, trade_gateway |-> gateway,
     portfolio |-> portfolio]
Node(label, exchange, account, symbol, value) ==
    [label |-> label, exchange |-> exchange, strategy |-> "1", account |-> account,
     symbol |-> symbol, value |-> value]

(* As in share/config-lqs.toml, with two gateways, and with one value for  *)
(* two symbols.                                                            *)
FileWith(position_source) ==
    [position_source |-> position_source,
     market |-> <<MarketNode(<<"F", "F*">>, "x", "TOP_OF_BOOK"),
                  MarketNode(<<"S">>, "y", "MARKET_BY_PRICE")>>,
     account |-> <<AccountNode("a", "x", "1"), AccountNode("b", "x", "1"),
                   AccountNode("c", "x", "")>>,
     parameter |->
        <<Node(<<"core", "portfolio_name">>, "", Missing, Missing, Scalar(<<"P">>)),
          Node(<<"oms", "post_fill_timeout">>, "E", Scalar("a"), Array(<<"F">>), Scalar(<<"1">>)),
          Node(<<"lqs", "enabled">>, "", Missing, Missing, Scalar(<<"true">>)),
          Node(<<"lqs", "underlying">>, "E", Array(<<"a", "b">>), Array(<<"F">>), Scalar(Spot)),
          Node(<<"lqs", "buy_volume">>, "E", Scalar("a"), Array(<<"F", "S">>),
               Array(<<<<"1">>, <<"2">>>>)),
          Node(<<"lqs", "execution_mode">>, "E", Scalar("a"), Array(<<"F", "S">>),
               Array(<<<<"5">>>>)),
          Node(<<"lqs", "sell_volume">>, "E", Array(<<"a", "b">>), Array(<<"F">>), Scalar(<<"3">>)),
          Node(<<"lqs", "slippage">>, "", Missing, Missing, Scalar(<<"4">>))>>]

PositionsFile == FileWith("PORTFOLIO")
OrdersFile == FileWith("ORDERS")

Parameter(label, account, symbol, value) ==
    [label |-> label, exchange |-> "E", account |-> account, strategy_id |-> 1,
     symbol |-> symbol, value |-> value]
SomeUpdates ==
    {<<Parameter(<<"lqs", "buy_volume">>, "a", "F", <<"2">>),
       Parameter(<<"oms", "ban_modify">>, "b", "F", <<"true">>)>>}

(* The theorems are about configurations like this one.                    *)
ASSUME HypothesesHold ==
    /\ DataAsConfigured
    /\ ParametersApart
    /\ File.position_source # "ORDERS" => CompleteFile /\ HoldingsConfigured
=============================================================================
