-------------------------------- MODULE Lqs --------------------------------
(***************************************************************************)
(* The liquidation strategy (src/roq/lqs): its legs, the underlyings whose *)
(* delta they share, and the quotes it dispatches to the order manager.    *)
(* One strategy; strategies share nothing but the events.                  *)
(*                                                                         *)
(* A handler walks over parameters, over the legs an event is for, and for *)
(* each of these over the legs of its underlying: once to sum the delta,   *)
(* once to compute and dispatch.  The walks are the phases "parameters",   *)
(* "visit", "sum" and "quote".                                             *)
(*                                                                         *)
(* Prices are ticks and 0 is no price; quantities are lots, and a fraction *)
(* of a lot is rounded down.  A volume that was not set is NaN in the code *)
(* and 0 here: a side has no volume to trade either way.                   *)
(***************************************************************************)
EXTENDS Integers, Sequences

CONSTANTS
    Legs,           \* the pairs of an instrument and an account
    Markets,        \* the instruments
    LegMarket,      \* the instrument of each leg
    NoUnderlying,   \* of a leg that was given none
    NoDelta,        \* NaN, once a term of the sum is unknown
    Infinity        \* larger than any delta or spread of the instance

ASSUME LqsAssumption ==
    /\ Legs # {}
    /\ LegMarket \in [Legs -> Markets]
    /\ NoUnderlying \notin Markets
    /\ NoDelta \notin Int
    /\ Infinity \in Nat

Modes == {"UNDEFINED", "CROSS", "JOIN", "JOIN_PLUS", "CROSS_MINUS"}
Styles == {"UNDEFINED", "SPOT", "INVERSE", "LINEAR"}

Quote == [price : Nat, volume : Nat]
QuotePair == [buy : Quote, sell : Quote]
NoQuote == [price |-> 0, volume |-> 0]
NoQuotes == [buy |-> NoQuote, sell |-> NoQuote]

BestPrices == [bid : Nat, ask : Nat]
TwoSided(m) == m.bid # 0 /\ m.ask # 0

Leg ==
    [underlying : Markets \cup {NoUnderlying},
     contract_style : Styles, execution_mode : Modes, slippage : Nat,
     delta_by_volume : Nat \ {0}, buy_volume : Nat, sell_volume : Nat,
     position : Int, market_quotes : BestPrices, tick_size : Nat,
     exec_quotes : QuotePair]

Underlying ==
    [delta : Int \cup {NoDelta}, delta_min : Int, delta_max : Int,
     market_quotes : BestPrices, legs : Seq(Legs)]

NewLeg ==
    [underlying |-> NoUnderlying,
     contract_style |-> "UNDEFINED", execution_mode |-> "CROSS",
     slippage |-> Infinity, delta_by_volume |-> 1,
     buy_volume |-> 0, sell_volume |-> 0,
     position |-> 0, market_quotes |-> [bid |-> 0, ask |-> 0], tick_size |-> 0,
     exec_quotes |-> NoQuotes]

NewUnderlying ==
    [delta |-> 0, delta_min |-> -Infinity, delta_max |-> Infinity,
     market_quotes |-> [bid |-> 0, ask |-> 0], legs |-> <<>>]

AnyLeg == CHOOSE l \in Legs : TRUE

(* A parameter is for a leg, for all of them (""), or for an underlying.   *)
(* One of "delta_greek" stands for the labels the handlers ignore.         *)
Parameters(labels, whom, values) == [label : labels, of : whom, value : values]
ForLegs(labels, values) == Parameters(labels, Legs \cup {""}, values)

Parameter ==
    Parameters({"underlying"}, Legs, Markets)
        \cup Parameters({"enabled"}, {""}, BOOLEAN)
        \cup Parameters({"delta_min", "delta_max"}, Markets, Int)
        \cup ForLegs({"execution_mode"}, Modes \ {"UNDEFINED"})
        \cup ForLegs({"contract_style"}, Styles)
        \cup ForLegs({"delta_by_volume"}, Nat \ {0})
        \cup ForLegs({"buy_volume", "sell_volume", "slippage", "delta_greek"}, Nat)

VARIABLES
    known,         \* the strategy has been emplaced
    enabled,
    legs,          \* leg_by_market_by_account
    underlyings,
    tick_size,     \* of each market in the market cache
    quoted,        \* the target quotes the order manager was given last
    phase,
    inbox,         \* the parameters of the event not yet handled
    event,         \* what the legs in todo take, one after another
    todo,
    this_leg,
    at             \* position in the legs of the underlying

stateVars == <<known, enabled, legs, underlyings, tick_size, quoted>>
walkVars == <<phase, inbox, event, todo, this_leg, at>>
lqsVars == <<stateVars, walkVars>>

Init ==
    /\ known = FALSE
    /\ enabled = FALSE
    /\ legs = <<>>
    /\ underlyings = <<>>
    /\ tick_size = [m \in Markets |-> 0]
    /\ quoted = [l \in Legs |-> NoQuotes]
    /\ phase = "idle"
    /\ inbox = <<>>
    /\ event = [kind |-> "none"]
    /\ todo = {}
    /\ this_leg = AnyLeg
    /\ at = 1
-----------------------------------------------------------------------------
(* emplace_leg takes the tick size from the market cache each time.        *)
EmplaceLeg(l) ==
    [k \in DOMAIN legs \cup {l} |->
        IF k # l THEN legs[k]
        ELSE [(IF k \in DOMAIN legs THEN legs[k] ELSE NewLeg)
                 EXCEPT !.tick_size = tick_size[LegMarket[l]]]]

EmplaceUnderlying(u) ==
    [m \in DOMAIN underlyings \cup {u} |->
        IF m \in DOMAIN underlyings THEN underlyings[m] ELSE NewUnderlying]

(* strategy.compute for leg l of ls: the delta of its underlying is summed *)
(* first, and the leg is computed alone when it has none.                  *)
Compute(l, ls) ==
    LET u == ls[l].underlying
    IN  /\ legs' = ls
        /\ this_leg' = l
        /\ at' = 1
        /\ IF u \in DOMAIN underlyings
           THEN /\ phase' = "sum"
                /\ underlyings' = [underlyings EXCEPT ![u].delta = 0]
           ELSE phase' = "quote" /\ UNCHANGED underlyings

HasUnderlying == legs[this_leg].underlying \in DOMAIN underlyings
ThisUnderlying == underlyings[legs[this_leg].underlying]

(* The legs that are computed and dispatched with this one.                *)
Affected == IF HasUnderlying THEN ThisUnderlying.legs ELSE <<this_leg>>
-----------------------------------------------------------------------------
Mid(m) == (m.bid + m.ask) \div 2

(* underlying.get_delta_by_volume times the position of the leg.           *)
Contribution(leg, u) ==
    IF leg.contract_style # "LINEAR" THEN leg.position * leg.delta_by_volume
    ELSE IF TwoSided(u.market_quotes)
         THEN leg.position * leg.delta_by_volume * Mid(u.market_quotes)
         ELSE NoDelta

Plus(a, b) == IF NoDelta \in {a, b} THEN NoDelta ELSE a + b

SumLeg ==
    LET u == ThisUnderlying
    IN  /\ phase = "sum"
        /\ at <= Len(u.legs)
        /\ underlyings' = [underlyings EXCEPT
               ![legs[this_leg].underlying].delta =
                   Plus(u.delta, Contribution(legs[u.legs[at]], u))]
        /\ at' = at + 1
        /\ UNCHANGED <<known, enabled, legs, tick_size, quoted,
                       phase, inbox, event, todo, this_leg>>

Summed ==
    /\ phase = "sum"
    /\ at > Len(ThisUnderlying.legs)
    /\ phase' = "quote"
    /\ at' = 1
    /\ UNCHANGED <<stateVars, inbox, event, todo, this_leg>>
-----------------------------------------------------------------------------
Lesser(a, b) == IF a < b THEN a ELSE b
Greater(a, b) == IF a > b THEN a ELSE b

(* Mutants of the next definitions: the whole range is granted, the room   *)
(* of the other side is, a volume is not cut off at zero.                  *)
DeltaPlusWholeRange ==
    IF ~HasUnderlying THEN Infinity ELSE ThisUnderlying.delta_max

(* What may be added to and subtracted from the delta of this underlying.  *)
DeltaPlus ==
    IF ~HasUnderlying THEN Infinity
    ELSE IF ThisUnderlying.delta = NoDelta THEN 0
    ELSE Greater(ThisUnderlying.delta_max - ThisUnderlying.delta, 0)

DeltaMinusOtherSide ==
    IF ~HasUnderlying THEN Infinity
    ELSE IF ThisUnderlying.delta = NoDelta THEN 0
    ELSE Greater(ThisUnderlying.delta_max - ThisUnderlying.delta, 0)

DeltaMinus ==
    IF ~HasUnderlying THEN Infinity
    ELSE IF ThisUnderlying.delta = NoDelta THEN 0
    ELSE Greater(ThisUnderlying.delta - ThisUnderlying.delta_min, 0)

BuyVolumeSigned(leg) ==
    Lesser(Lesser(leg.buy_volume, -leg.position),
           DeltaPlus \div leg.delta_by_volume)

BuyVolume(leg) ==
    Lesser(Lesser(leg.buy_volume, Greater(-leg.position, 0)),
           DeltaPlus \div leg.delta_by_volume)

SellVolume(leg) ==
    Lesser(Lesser(leg.sell_volume, Greater(leg.position, 0)),
           DeltaMinus \div leg.delta_by_volume)

(* Mutant: the price one tick ahead is not kept off the other side.        *)
BuyPriceCrosses(leg) ==
    CASE leg.execution_mode = "CROSS" -> leg.market_quotes.ask
      [] leg.execution_mode = "JOIN" -> leg.market_quotes.bid
      [] leg.execution_mode = "JOIN_PLUS" -> leg.market_quotes.bid + leg.tick_size
      [] leg.execution_mode = "CROSS_MINUS" -> leg.market_quotes.ask - leg.tick_size

BuyPrice(leg) ==
    LET m == leg.market_quotes
    IN  CASE leg.execution_mode = "CROSS" -> m.ask
          [] leg.execution_mode = "JOIN" -> m.bid
          [] leg.execution_mode = "JOIN_PLUS" ->
                Lesser(m.bid + leg.tick_size, m.ask - leg.tick_size)
          [] leg.execution_mode = "CROSS_MINUS" -> m.ask - leg.tick_size

SellPrice(leg) ==
    LET m == leg.market_quotes
    IN  CASE leg.execution_mode = "CROSS" -> m.bid
          [] leg.execution_mode = "JOIN" -> m.ask
          [] leg.execution_mode = "JOIN_PLUS" ->
                Greater(m.ask - leg.tick_size, m.bid + leg.tick_size)
          [] leg.execution_mode = "CROSS_MINUS" -> m.bid + leg.tick_size

(* check_market_quotes, and the strategy is enabled.                       *)
MayQuote(leg) ==
    LET m == leg.market_quotes
    IN  TwoSided(m) /\ m.ask - m.bid <= leg.slippage /\ enabled

(* A side without volume keeps the price it had.                           *)
Priced(old, volume, price) ==
    [price |-> IF volume > 0 THEN price ELSE old.price, volume |-> volume]

ExecQuotes(leg) ==
    IF ~MayQuote(leg) THEN NoQuotes
    ELSE [buy |-> Priced(leg.exec_quotes.buy, BuyVolume(leg), BuyPrice(leg)),
          sell |-> Priced(leg.exec_quotes.sell, SellVolume(leg), SellPrice(leg))]

(* The asserts of leg.compute.                                             *)
AssertFails(leg) ==
    /\ MayQuote(leg)
    /\ \/ leg.execution_mode = "UNDEFINED"
       \/ leg.execution_mode \in {"JOIN_PLUS", "CROSS_MINUS"} /\ leg.tick_size = 0

(* Mutant: quotes without volume are not sent.                             *)
WithheldWithoutVolume(q) == q.buy.volume = 0 /\ q.sell.volume = 0

(* pricer.dispatch sends no quotes without prices.                         *)
Withheld(q) == q.buy.price = 0 /\ q.sell.price = 0

QuoteLeg ==
    LET l == Affected[at]
        q == ExecQuotes(legs[l])
    IN  /\ phase = "quote"
        /\ at <= Len(Affected)
        /\ IF AssertFails(legs[l])
           THEN phase' = "abort" /\ UNCHANGED <<legs, quoted, at>>
           ELSE /\ legs' = [legs EXCEPT ![l].exec_quotes = q]
                /\ quoted' = IF Withheld(q) THEN quoted
                             ELSE [quoted EXCEPT ![l] = q]
                /\ at' = at + 1
                /\ UNCHANGED phase
        /\ UNCHANGED <<known, enabled, underlyings, tick_size,
                       inbox, event, todo, this_leg>>

Quoted ==
    /\ phase = "quote"
    /\ at > Len(Affected)
    /\ phase' = "visit"
    /\ at' = 1
    /\ UNCHANGED <<stateVars, inbox, event, todo, this_leg>>
-----------------------------------------------------------------------------
LegLabels == {"delta_by_volume", "buy_volume", "sell_volume",
              "execution_mode", "slippage", "contract_style"}

(* leg's handler of parameters; it ignores labels it does not know.        *)
WithTerm(ls, l, label, value) ==
    IF label \in LegLabels THEN [ls EXCEPT ![l][label] = value] ELSE ls

(* The next leg takes what the event brings, and is computed.              *)
Taken(l) ==
    CASE event.kind = "parameter" -> WithTerm(legs, l, event.label, event.value)
      [] event.kind = "quotes" -> [legs EXCEPT ![l].market_quotes = event.quotes]
      [] event.kind = "download" ->
            [legs EXCEPT ![l].tick_size = tick_size[LegMarket[l]]]

Visit ==
    /\ phase = "visit"
    /\ \E l \in todo :
          /\ todo' = todo \ {l}
          /\ Compute(l, Taken(l))
    /\ UNCHANGED <<known, enabled, tick_size, quoted, inbox, event>>

AfterParameter(rest) == IF rest = <<>> THEN "idle" ELSE "parameters"

(* Only when its legs have been computed does an underlying take quotes.   *)
Visited ==
    /\ phase = "visit"
    /\ todo = {}
    /\ phase' = AfterParameter(inbox)
    /\ underlyings' =
          IF event.kind = "quotes" /\ event.market \in DOMAIN underlyings
          THEN [underlyings EXCEPT ![event.market].market_quotes = event.quotes]
          ELSE underlyings
    /\ event' = [kind |-> "none"]
    /\ this_leg' = AnyLeg
    /\ UNCHANGED <<known, enabled, legs, tick_size, quoted, inbox, todo, at>>
-----------------------------------------------------------------------------
(* One parameter of the event.  The leg is given another underlying and    *)
(* added to its legs.  It stays among the legs of the one it had:          *)
(* remove_leg looks for the market without an account, and finds none.     *)
UnderlyingParameter(p) ==
    LET us == EmplaceUnderlying(p.value)
    IN  /\ p.label = "underlying"
        /\ legs' = [EmplaceLeg(p.of) EXCEPT ![p.of].underlying = p.value]
        /\ underlyings' = [us EXCEPT ![p.value].legs = Append(@, p.of)]
        /\ phase' = AfterParameter(Tail(inbox))
        /\ UNCHANGED <<enabled, event, todo, this_leg, at>>

EnabledParameter(p) ==
    /\ p.label = "enabled"
    /\ enabled' = p.value
    /\ phase' = AfterParameter(Tail(inbox))
    /\ UNCHANGED <<legs, underlyings, event, todo, this_leg, at>>

DeltaParameter(p) ==
    /\ p.label \in {"delta_min", "delta_max"}
    /\ underlyings' = [EmplaceUnderlying(p.of) EXCEPT ![p.of][p.label] = p.value]
    /\ phase' = AfterParameter(Tail(inbox))
    /\ UNCHANGED <<enabled, legs, event, todo, this_leg, at>>

(* Any other is for one leg, which is emplaced, or for all there are ("").  *)
LegParameter(p) ==
    /\ p.label \notin {"underlying", "enabled", "delta_min", "delta_max"}
    /\ IF p.of = ""
       THEN /\ event' = [kind |-> "parameter", label |-> p.label, value |-> p.value]
            /\ todo' = DOMAIN legs
            /\ phase' = "visit"
            /\ UNCHANGED <<legs, underlyings, this_leg, at>>
       ELSE /\ Compute(p.of, WithTerm(EmplaceLeg(p.of), p.of, p.label, p.value))
            /\ UNCHANGED <<event, todo>>
    /\ UNCHANGED enabled

OneParameter ==
    /\ phase = "parameters"
    /\ LET p == Head(inbox)
       IN  \/ UnderlyingParameter(p)
           \/ EnabledParameter(p)
           \/ DeltaParameter(p)
           \/ LegParameter(p)
    /\ inbox' = Tail(inbox)
    /\ UNCHANGED <<known, tick_size, quoted>>

Walk == SumLeg \/ Summed \/ QuoteLeg \/ Quoted \/ Visit \/ Visited \/ OneParameter
-----------------------------------------------------------------------------
(* The handlers of the pricer.  What is broadcast reaches no strategy      *)
(* before a parameter has emplaced it.                                     *)
ParametersUpdate(ps) ==
    /\ phase = "idle"
    /\ ps # <<>>
    /\ known' = TRUE
    /\ inbox' = ps
    /\ phase' = "parameters"
    /\ UNCHANGED <<enabled, legs, underlyings, tick_size, quoted,
                   event, todo, this_leg, at>>

Broadcast(e, receivers) ==
    /\ phase = "idle"
    /\ IF known
       THEN /\ event' = e
            /\ todo' = receivers
            /\ phase' = "visit"
       ELSE UNCHANGED <<event, todo, phase>>
    /\ UNCHANGED <<stateVars, inbox, this_leg, at>>

Quotes(m, q) ==
    Broadcast([kind |-> "quotes", market |-> m, quotes |-> q],
              {l \in DOMAIN legs : LegMarket[l] = m})

(* Mutant: the end of a download leaves the legs alone.                    *)
DownloadEndIgnored == Broadcast([kind |-> "download"], {})

DownloadEnd == Broadcast([kind |-> "download"], DOMAIN legs)

(* The market cache takes the tick size.  The strategy looks for a leg     *)
(* without an account, and finds none.                                     *)
ReferenceData(m, tick) ==
    /\ phase = "idle"
    /\ tick_size' = [tick_size EXCEPT ![m] = tick]
    /\ UNCHANGED <<known, enabled, legs, underlyings, quoted, walkVars>>

ExposureUpdate(l, position) ==
    /\ phase = "idle"
    /\ IF known
       THEN /\ Compute(l, [EmplaceLeg(l) EXCEPT ![l].position = position])
            /\ UNCHANGED <<known, enabled, tick_size, quoted, inbox, event, todo>>
       ELSE UNCHANGED lqsVars
-----------------------------------------------------------------------------
TypeOK ==
    /\ known \in BOOLEAN /\ enabled \in BOOLEAN
    /\ DOMAIN legs \subseteq Legs
    /\ legs \in [DOMAIN legs -> Leg]
    /\ DOMAIN underlyings \subseteq Markets
    /\ underlyings \in [DOMAIN underlyings -> Underlying]
    /\ tick_size \in [Markets -> Nat]
    /\ quoted \in [Legs -> QuotePair]
    /\ phase \in {"idle", "parameters", "visit", "sum", "quote", "abort"}
    /\ todo \subseteq DOMAIN legs
    /\ this_leg \in Legs
    /\ at \in Nat \ {0}
=============================================================================
