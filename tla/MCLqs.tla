------------------------------- MODULE MCLqs -------------------------------
(* Two accounts trade one future against the delta of a spot market.       *)
EXTENDS LqsTrading

TwoAccounts == {"a", "b"}
TwoMarkets == {"future", "spot"}
OneFuture == [l \in Legs |-> "future"]

P(label, of, value) == [label |-> label, of |-> of, value |-> value]

(* The parameters of config-lqs.toml, one lot at a time.                   *)
FromFile(min, max) ==
    <<P("underlying", "a", "spot"), P("underlying", "b", "spot"),
      P("delta_min", "spot", min), P("delta_max", "spot", max),
      P("buy_volume", "a", 1), P("sell_volume", "a", 1),
      P("buy_volume", "b", 1), P("sell_volume", "b", 2),
      P("slippage", "", 2), P("enabled", "", TRUE)>>

Narrow == FromFile(-1, 1)

SomeUpdates ==
    <<<<P("enabled", "", FALSE)>>,
      <<P("enabled", "", TRUE)>>,
      <<P("execution_mode", "a", "JOIN_PLUS"), P("delta_greek", "a", 1),
        P("underlying", "b", "spot")>>,
      <<P("contract_style", "b", "LINEAR"), P("execution_mode", "b", "CROSS_MINUS"),
        P("delta_min", "spot", -2)>>>>

At(bid, ask) == [bid |-> bid, ask |-> ask]
SomePrices ==
    [m \in Markets |-> IF m = "spot" THEN {At(1, 3)} ELSE {At(2, 3), At(2, 0)}]

LongAndShort == {[l \in Legs |-> IF l = "a" THEN -1 ELSE 2]}
=============================================================================
