----------------------------- MODULE LqsTrading -----------------------------
(***************************************************************************)
(* The liquidation strategy with what it trades through: a gateway that    *)
(* downloads, markets that move, and an order manager that keeps the       *)
(* target quotes it was given last at the exchange and refills them.  The  *)
(* order manager is Oms reduced to what the strategy can tell: its targets *)
(* (quoted), what rests of them, and that it creates nothing during the    *)
(* ban after a fill.                                                       *)
(***************************************************************************)
EXTENDS Lqs, FiniteSetsExt

CONSTANTS
    Configuration,     \* the parameters of the first update
    Updates,           \* later ones, by number
    Prices,            \* the best prices of each market
    Positions,         \* the positions there may be at the start
    MaxPosition,       \* bound on a position
    MaxReports,        \* bound on the position updates under way for a leg
    MaxChanges,        \* bound on updates of parameters and moves of a market
    BanOutlastsReports \* oms:post_fill_timeout exceeds a report's delay

Uncrossed(q) == TwoSided(q) => q.bid < q.ask

ASSUME TradingAssumption ==
    /\ Configuration \in Seq(Parameter)
    /\ Updates \in Seq(Seq(Parameter))
    /\ Prices \in [Markets -> SUBSET BestPrices]
    /\ \A m \in Markets : \A q \in Prices[m] : Uncrossed(q)
    /\ MaxPosition \in Nat /\ MaxReports \in Nat /\ MaxChanges \in Nat
    /\ Positions \subseteq [Legs -> -MaxPosition..MaxPosition]
    /\ BanOutlastsReports \in BOOLEAN

Sides == {"buy", "sell"}

VARIABLES
    downloading,   \* the gateway of the market data
    best,          \* the best prices of each market
    pos,           \* the position of each leg at the exchange
    resting,       \* the volume of each leg and side that rests there
    reports,       \* the position updates under way
    changes        \* counts up to MaxChanges

outVars == <<downloading, best, pos, resting, reports, changes>>
vars == <<lqsVars, outVars>>

TradingInit ==
    /\ Init
    /\ downloading = TRUE
    /\ best \in [Markets -> UNION {Prices[m] : m \in Markets}]
    /\ \A m \in Markets : best[m] \in Prices[m] /\ TwoSided(best[m])
    /\ pos \in Positions
    /\ resting = [l \in Legs |-> [s \in Sides |-> 0]]
    /\ reports = [l \in Legs |-> <<pos[l]>>]
    /\ changes = 0

Changes == changes < MaxChanges /\ changes' = changes + 1

(* The parameters are stored by the gateway, which sends them once it is   *)
(* connected, and again when it has been connected anew.                   *)
Configured ==
    /\ ~known
    /\ ParametersUpdate(Configuration)
    /\ UNCHANGED outVars

Reconfigured ==
    /\ known
    /\ \E i \in DOMAIN Updates : ParametersUpdate(Updates[i])
    /\ Changes
    /\ UNCHANGED <<downloading, best, pos, resting, reports>>

(* A download brings the tick size of every market, and ends.              *)
TickSizes ==
    /\ downloading
    /\ \E m \in Markets : tick_size[m] = 0 /\ ReferenceData(m, 1)
    /\ UNCHANGED outVars

Downloaded ==
    /\ downloading
    /\ \A m \in Markets : tick_size[m] # 0
    /\ DownloadEnd
    /\ downloading' = FALSE
    /\ UNCHANGED <<best, pos, resting, reports, changes>>

(* Quotes are dispatched for a market whose gateway has been downloaded    *)
(* (core.is_ready).                                                        *)
QuotesAgain(m) ==
    /\ ~downloading
    /\ Quotes(m, best[m])
    /\ UNCHANGED outVars

MarketMoves ==
    /\ ~downloading
    /\ Changes
    /\ \E m \in Markets : \E q \in Prices[m] \ {best[m]} :
          /\ best' = [best EXCEPT ![m] = q]
          /\ Quotes(m, q)
    /\ UNCHANGED <<downloading, pos, resting, reports>>

(* An update of the position, which the portfolios turn into exposure of   *)
(* the strategy.  An update before the parameters is lost; here the        *)
(* snapshot comes after them.                                              *)
Reported(l) ==
    /\ known
    /\ reports[l] # <<>>
    /\ ExposureUpdate(l, Head(reports[l]))
    /\ reports' = [reports EXCEPT ![l] = Tail(@)]
    /\ UNCHANGED <<downloading, best, pos, resting, changes>>

(* The order manager brings what rests to its targets, unless it is banned.*)
Refilled(l) ==
    LET targets == [s \in Sides |-> quoted[l][s].volume]
    IN  /\ phase = "idle"
        /\ resting[l] # targets
        /\ BanOutlastsReports => reports[l] = <<>>
        /\ resting' = [resting EXCEPT ![l] = targets]
        /\ UNCHANGED <<lqsVars, downloading, best, pos, reports, changes>>

(* One lot is filled at the exchange.                                      *)
Filled(l, s) ==
    LET x == IF s = "buy" THEN pos[l] + 1 ELSE pos[l] - 1
    IN  /\ phase = "idle"
        /\ resting[l][s] > 0
        /\ x \in -MaxPosition..MaxPosition       \* bound
        /\ Len(reports[l]) < MaxReports          \* bound
        /\ pos' = [pos EXCEPT ![l] = x]
        /\ resting' = [resting EXCEPT ![l][s] = @ - 1]
        /\ reports' = [reports EXCEPT ![l] = Append(@, x)]
        /\ UNCHANGED <<lqsVars, downloading, best, changes>>

Trades(l) == Reported(l) \/ Refilled(l) \/ \E s \in Sides : Filled(l, s)

LqsWalks == Walk /\ UNCHANGED outVars

Next ==
    \/ LqsWalks
    \/ Configured
    \/ Reconfigured
    \/ TickSizes
    \/ Downloaded
    \/ \E m \in Markets : QuotesAgain(m)
    \/ MarketMoves
    \/ \E l \in Legs : Trades(l)

Spec == TradingInit /\ [][Next]_vars

(* A handler ends; the gateway sends the parameters and its download, and  *)
(* then quotes of every market; trading of each leg goes on: its position  *)
(* is reported, the order manager's timer acts on its targets, or what     *)
(* rests is taken.  Strong, for a handler that runs holds the others.      *)
Fairness ==
    /\ WF_vars(LqsWalks)
    /\ SF_vars(Configured \/ TickSizes \/ Downloaded)
    /\ \A m \in Markets : SF_vars(QuotesAgain(m))
    /\ \A l \in Legs : SF_vars(Trades(l))

FairSpec == Spec /\ Fairness
-----------------------------------------------------------------------------
(* No assert of leg.compute fails: a leg that is quoted by the tick knows  *)
(* the tick size, although reference data never reaches the legs.          *)
(* (leg.cpp compute; strategy.cpp emplace_leg, DownloadEnd)                *)
QuotesNeverAbort == phase # "abort"

(* Once an event has been handled and nothing is under way, the order      *)
(* manager is asked to trade a leg towards zero only, and never through    *)
(* it; unless the strategy withholds the leg's quotes.                     *)
(* (leg.cpp compute; pricer.cpp dispatch)                                  *)
TargetsReducePosition ==
    phase = "idle" =>
        \A l \in DOMAIN legs :
            LET q == legs[l].exec_quotes
            IN  reports[l] = <<>> /\ (q.buy.price # 0 \/ q.sell.price # 0) =>
                    /\ quoted[l].buy.volume <= Greater(-pos[l], 0)
                    /\ quoted[l].sell.volume <= Greater(pos[l], 0)

(* A leg that joins its side of the market rests there: its quotes do not  *)
(* reach the other side's best price.  (leg.cpp compute, JOIN_PLUS)        *)
PassiveQuotesRest ==
    phase = "idle" =>
        \A l \in DOMAIN legs :
            LET leg == legs[l]
                q == leg.exec_quotes
            IN  leg.execution_mode \in {"JOIN", "JOIN_PLUS"} =>
                    /\ q.buy.volume > 0 => q.buy.price < leg.market_quotes.ask
                    /\ q.sell.volume > 0 => q.sell.price > leg.market_quotes.bid

(* The legs registered with underlying u, each of them once.               *)
Registered(u) == {underlyings[u].legs[i] : i \in DOMAIN underlyings[u].legs}
EachOnce(u) == Cardinality(Registered(u)) = Len(underlyings[u].legs)

DeltaOf(u) ==
    MapThenSumSet(LAMBDA l : Contribution(legs[l], underlyings[u]), Registered(u))

(* A leg is asked to trade no more than what keeps the delta of its        *)
(* underlying, as the positions known then make it, between delta_min and  *)
(* delta_max, were it the only leg to trade.  Excepted are linear legs,    *)
(* whose delta is in units of the price, which the volume is not divided   *)
(* by, and underlyings a leg was registered with twice.                    *)
(* (underlying.cpp compute; leg.cpp compute)                               *)
SendsWithinDelta ==
    [][\A l \in Legs : quoted'[l] # quoted[l] =>
          LET u == legs[l].underlying
              lot == legs[l].delta_by_volume
          IN  (/\ u \in DOMAIN underlyings
               /\ u = legs[this_leg].underlying
               /\ EachOnce(u)
               /\ legs[l].contract_style # "LINEAR"
               /\ underlyings[u].delta # NoDelta) =>
              /\ quoted'[l].buy.volume > 0 =>
                    DeltaOf(u) + quoted'[l].buy.volume * lot <= underlyings[u].delta_max
              /\ quoted'[l].sell.volume > 0 =>
                    DeltaOf(u) - quoted'[l].sell.volume * lot >= underlyings[u].delta_min]_vars

(* Trading is on: every leg may trade both ways in a market that is not    *)
(* too wide, and its underlying leaves room for a lot either way.          *)
CanTrade(l) ==
    LET leg == legs[l]
        u == underlyings[leg.underlying]
        m == best[LegMarket[l]]
    IN  /\ TwoSided(m) /\ m.ask - m.bid <= leg.slippage
        /\ leg.buy_volume > 0 /\ leg.sell_volume > 0
        /\ leg.underlying # NoUnderlying =>
              /\ u.delta_min <= -leg.delta_by_volume
              /\ u.delta_max >= leg.delta_by_volume
              /\ \A k \in Registered(leg.underlying) :
                    legs[k].contract_style = "LINEAR" =>
                        TwoSided(best[leg.underlying])

TradingIsOn == enabled /\ \A l \in Legs : l \in DOMAIN legs /\ CanTrade(l)

(* If trading is on for good, every position is liquidated for good,       *)
(* whatever happened before, as long as the ban after a fill lasts until   *)
(* the fill is reported.  (the loop of quotes, fills and exposures)        *)
Liquidates == <>[]TradingIsOn => <>[](\A l \in Legs : pos[l] = 0)

(* src/roq/lqs/README.md: quoting volumes are calculated "to liquidate     *)
(* position (so the absolute position is never increasing)".               *)
Absolute(x) == IF x < 0 THEN -x ELSE x
NeverIncreases == [][\A l \in Legs : Absolute(pos'[l]) <= Absolute(pos[l])]_vars
=============================================================================
