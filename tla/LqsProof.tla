------------------------------- MODULE LqsProof -------------------------------
(***************************************************************************)
(* Theorems about the liquidation strategy and what it trades through, for *)
(* any legs, markets, parameters, prices and positions, and any number of  *)
(* reports and changes.                                                    *)
(***************************************************************************)
EXTENDS LqsTrading, DataLemmas

InboxOK ==
    /\ inbox \in Seq(Parameter)
    /\ phase = "parameters" => inbox # <<>>

(* What the legs take, and that a walk over them ends before the next.     *)
EventOK ==
    /\ event.kind \in {"none", "parameter", "quotes", "download"}
    /\ event.kind = "parameter" =>
          [label |-> event.label, of |-> "", value |-> event.value] \in Parameter
    /\ event.kind = "quotes" =>
          /\ event.market \in Markets
          /\ event.quotes \in BestPrices
          /\ Uncrossed(event.quotes)
    /\ event.kind = "none" => todo = {}
    /\ phase \in {"idle", "parameters"} => event.kind = "none"

WalkOK ==
    /\ phase \in {"sum", "quote"} => this_leg \in DOMAIN legs
    /\ phase = "sum" => HasUnderlying

(* A leg is among the legs of the underlying it has.                       *)
RegisteredOK ==
    /\ \A u \in DOMAIN underlyings : underlyings[u].legs \in Seq(DOMAIN legs)
    /\ \A l \in DOMAIN legs :
          legs[l].underlying # NoUnderlying =>
              /\ legs[l].underlying \in DOMAIN underlyings
              /\ \E i \in 1..Len(underlyings[legs[l].underlying].legs) :
                    underlyings[legs[l].underlying].legs[i] = l

TicksOK ==
    /\ tick_size \in [Markets -> {0, 1}]
    /\ \A l \in DOMAIN legs : legs[l].tick_size \in {0, 1}

OutOK ==
    /\ best \in [Markets -> BestPrices]
    /\ \A m \in Markets : best[m] \in Prices[m]
    /\ pos \in [Legs -> Int]
    /\ reports \in [Legs -> Seq(Int)]

TypeInv == TypeOK /\ InboxOK /\ EventOK /\ WalkOK /\ RegisteredOK /\ TicksOK /\ OutOK

(* No market has quotes before the download has brought the tick sizes,    *)
(* and its end brings them to every leg.                                   *)
DownloadInv ==
    /\ ~known => DOMAIN legs = {} /\ phase = "idle"
    /\ downloading \/ event.kind = "download" =>
          \A l \in DOMAIN legs : ~TwoSided(legs[l].market_quotes)
    /\ downloading => event.kind \notin {"quotes", "download"}
    /\ ~downloading =>
          /\ \A m \in Markets : tick_size[m] = 1
          /\ \A l \in DOMAIN legs :
                legs[l].tick_size = 1 \/ (event.kind = "download" /\ l \in todo)

ModeInv ==
    \A l \in DOMAIN legs :
        legs[l].execution_mode # "UNDEFINED" /\ Uncrossed(legs[l].market_quotes)

SafeInv == phase # "abort" /\ DownloadInv /\ ModeInv

(* What leg.compute promises of a leg, until it is changed again.          *)
Current(leg) ==
    LET q == leg.exec_quotes
        m == leg.market_quotes
    IN  /\ q.buy.volume <= Greater(-leg.position, 0)
        /\ q.sell.volume <= Greater(leg.position, 0)
        /\ leg.execution_mode \in {"JOIN", "JOIN_PLUS"} =>
              /\ q.buy.volume > 0 => q.buy.price < m.ask
              /\ q.sell.volume > 0 => q.sell.price > m.bid

(* The leg that was changed and is not computed yet.                       *)
Pending(l) ==
    /\ l = this_leg
    /\ \/ phase = "sum"
       \/ phase = "quote" /\ \A j \in 1..(at - 1) : Affected[j] # l

CurrentInv == \A l \in DOMAIN legs : Pending(l) \/ Current(legs[l])

SentInv ==
    \A l \in DOMAIN legs :
        Withheld(legs[l].exec_quotes) \/ quoted[l] = legs[l].exec_quotes

(* What is known of the position of a leg is what was reported last.       *)
ReportInv ==
    \A l \in Legs :
        IF reports[l] = <<>>
        THEN l \in DOMAIN legs /\ legs[l].position = pos[l]
        ELSE reports[l][Len(reports[l])] = pos[l]

TradeInv == CurrentInv /\ SentInv /\ ReportInv
-----------------------------------------------------------------------------
LEMMA TermTyped ==
    ASSUME NEW D, NEW ls \in [D -> Leg], NEW l \in D,
           NEW label, NEW of, NEW value,
           [label |-> label, of |-> of, value |-> value] \in Parameter
    PROVE  WithTerm(ls, l, label, value) \in [D -> Leg]
<1> DEFINE p == [label |-> label, of |-> of, value |-> value]
<1>1. CASE label \notin LegLabels
  BY <1>1 DEF WithTerm
<1>2. CASE label \in LegLabels
  <2>1. p.label = label /\ p.value = value /\ p \in Parameter
    OBVIOUS
  <2> HIDE DEF p
  <2>2. CASE label = "delta_by_volume"
    <3>1. value \in Nat \ {0}
      BY <2>1, <2>2 DEF Parameter, Parameters, ForLegs
    <3> QED BY <1>2, <2>2, <3>1 DEF WithTerm, Leg
  <2>3. CASE label = "buy_volume"
    <3>1. value \in Nat
      BY <2>1, <2>3 DEF Parameter, Parameters, ForLegs
    <3> QED BY <1>2, <2>3, <3>1 DEF WithTerm, Leg
  <2>4. CASE label = "sell_volume"
    <3>1. value \in Nat
      BY <2>1, <2>4 DEF Parameter, Parameters, ForLegs
    <3> QED BY <1>2, <2>4, <3>1 DEF WithTerm, Leg
  <2>5. CASE label = "execution_mode"
    <3>1. value \in Modes
      BY <2>1, <2>5 DEF Parameter, Parameters, ForLegs
    <3> QED BY <1>2, <2>5, <3>1 DEF WithTerm, Leg
  <2>6. CASE label = "slippage"
    <3>1. value \in Nat
      BY <2>1, <2>6 DEF Parameter, Parameters, ForLegs
    <3> QED BY <1>2, <2>6, <3>1 DEF WithTerm, Leg
  <2>7. CASE label = "contract_style"
    <3>1. value \in Styles
      BY <2>1, <2>7 DEF Parameter, Parameters, ForLegs
    <3> QED BY <1>2, <2>7, <3>1 DEF WithTerm, Leg
  <2> QED BY <1>2, <2>2, <2>3, <2>4, <2>5, <2>6, <2>7 DEF LegLabels
<1> QED BY <1>1, <1>2

LEMMA NewTyped == NewLeg \in Leg /\ NewUnderlying \in Underlying
BY LqsAssumption DEF NewLeg, Leg, NewUnderlying, Underlying, Modes, Styles,
   BestPrices, NoQuotes, NoQuote, QuotePair, Quote

LEMMA LegEmplaced ==
    ASSUME TypeInv, NEW l \in Legs
    PROVE  /\ EmplaceLeg(l) \in [DOMAIN legs \cup {l} -> Leg]
           /\ \A k \in DOMAIN EmplaceLeg(l) : EmplaceLeg(l)[k].tick_size \in {0, 1}
<1>1. tick_size[LegMarket[l]] \in {0, 1}
  BY LqsAssumption DEF TypeInv, TicksOK
<1>2. ASSUME NEW leg \in Leg
      PROVE  [leg EXCEPT !.tick_size = tick_size[LegMarket[l]]] \in Leg
  BY <1>1 DEF Leg
<1> QED BY <1>1, <1>2, NewTyped DEF EmplaceLeg, TypeInv, TypeOK, TicksOK, Leg

LEMMA UnderlyingEmplaced ==
    ASSUME TypeInv, NEW u \in Markets
    PROVE  EmplaceUnderlying(u) \in [DOMAIN underlyings \cup {u} -> Underlying]
BY NewTyped DEF EmplaceUnderlying, TypeInv, TypeOK

LEMMA VolumeTyped ==
    ASSUME NEW a \in Nat, NEW b \in Int, NEW room \in Nat, NEW d \in Nat \ {0}
    PROVE  Lesser(Lesser(a, Greater(b, 0)), room \div d) \in Nat
BY DEF Lesser, Greater

LEMMA RoomTyped ==
    ASSUME TypeInv
    PROVE  DeltaPlus \in Nat /\ DeltaMinus \in Nat
BY LqsAssumption DEF TypeInv, TypeOK, DeltaPlus, DeltaMinus, HasUnderlying, ThisUnderlying,
   Underlying, Greater

LEMMA QuotesTyped ==
    ASSUME TypeInv, NEW leg \in Leg, leg.tick_size \in {0, 1}, ~AssertFails(leg)
    PROVE  ExecQuotes(leg) \in QuotePair
<1>1. CASE ~MayQuote(leg)
  BY <1>1 DEF ExecQuotes, NoQuotes, NoQuote, QuotePair, Quote
<1>2. CASE MayQuote(leg)
  <2>1. /\ leg.market_quotes \in BestPrices
        /\ leg.market_quotes.bid # 0 /\ leg.market_quotes.ask # 0
    BY <1>2 DEF MayQuote, TwoSided, Leg
  <2>2. leg.execution_mode \in {"CROSS", "JOIN", "JOIN_PLUS", "CROSS_MINUS"}
    BY <1>2 DEF AssertFails, Leg, Modes
  <2>3. BuyPrice(leg) \in Nat /\ SellPrice(leg) \in Nat
    BY <2>1, <2>2 DEF BuyPrice, SellPrice, BestPrices, Lesser, Greater
  <2>4. /\ leg.buy_volume \in Nat /\ leg.sell_volume \in Nat
        /\ leg.position \in Int /\ -leg.position \in Int
        /\ leg.delta_by_volume \in Nat \ {0}
        /\ leg.exec_quotes \in QuotePair
    BY DEF Leg
  <2>5. BuyVolume(leg) \in Nat
    BY <2>4, RoomTyped, VolumeTyped DEF BuyVolume
  <2>6. SellVolume(leg) \in Nat
    BY <2>4, RoomTyped, VolumeTyped DEF SellVolume
  <2> QED BY <1>2, <2>3, <2>4, <2>5, <2>6 DEF ExecQuotes, Priced, QuotePair, Quote
<1> QED BY <1>1, <1>2

LEMMA ContributionTyped ==
    ASSUME NEW leg \in Leg, NEW u \in Underlying
    PROVE  Contribution(leg, u) \in Int \cup {NoDelta}
<1>1. /\ leg.position \in Int /\ leg.delta_by_volume \in Int
      /\ leg.position * leg.delta_by_volume \in Int
  BY DEF Leg
<1>2. Mid(u.market_quotes) \in Int
  BY DEF Underlying, BestPrices, Mid
<1>3. leg.position * leg.delta_by_volume * Mid(u.market_quotes) \in Int
  BY <1>1, <1>2
<1> QED BY <1>1, <1>3 DEF Contribution

(* Every event's leg is changed, and this is what computing it does.       *)
LEMMA Computed ==
    ASSUME TypeInv, NEW D, D \subseteq Legs, DOMAIN legs \subseteq D,
           NEW ls \in [D -> Leg], NEW l \in D, Compute(l, ls),
           \A k \in DOMAIN legs : ls[k].underlying = legs[k].underlying,
           \A k \in D \ DOMAIN legs : ls[k].underlying = NoUnderlying,
           \A k \in D : ls[k].tick_size \in {0, 1},
           UNCHANGED tick_size
    PROVE  /\ legs' = ls /\ DOMAIN legs' = D
           /\ DOMAIN underlyings' = DOMAIN underlyings
           /\ underlyings' \in [DOMAIN underlyings -> Underlying]
           /\ \A u \in DOMAIN underlyings : underlyings'[u].legs = underlyings[u].legs
           /\ this_leg' = l /\ at' = 1
           /\ phase' \in {"sum", "quote"}
           /\ WalkOK' /\ RegisteredOK' /\ TicksOK'
<1>1. /\ legs' = ls /\ DOMAIN legs' = D /\ this_leg' = l /\ at' = 1
      /\ phase' \in {"sum", "quote"}
  BY DEF Compute
<1>2. /\ DOMAIN underlyings' = DOMAIN underlyings
      /\ underlyings' \in [DOMAIN underlyings -> Underlying]
      /\ \A u \in DOMAIN underlyings : underlyings'[u].legs = underlyings[u].legs
  <2> DEFINE u == ls[l].underlying
  <2>1. underlyings \in [DOMAIN underlyings -> Underlying]
    BY DEF TypeInv, TypeOK
  <2>2. CASE u \notin DOMAIN underlyings
    BY <2>1, <2>2 DEF Compute
  <2>3. CASE u \in DOMAIN underlyings
    <3>1. underlyings' = [underlyings EXCEPT ![u].delta = 0]
      BY <2>3 DEF Compute
    <3>2. underlyings[u] \in Underlying
      BY <2>1, <2>3
    <3>3. /\ [underlyings[u] EXCEPT !.delta = 0] \in Underlying
          /\ [underlyings[u] EXCEPT !.delta = 0].legs = underlyings[u].legs
      BY <3>2 DEF Underlying
    <3> QED BY <2>1, <2>3, <3>1, <3>3
  <2> QED BY <2>2, <2>3
<1>3. WalkOK'
  BY <1>1, <1>2 DEF Compute, WalkOK, HasUnderlying
<1>4. RegisteredOK'
  <2>1. ASSUME NEW u \in DOMAIN underlyings
        PROVE  underlyings'[u].legs \in Seq(D)
    BY <1>2 DEF TypeInv, RegisteredOK
  <2>2. ASSUME NEW k \in D, ls[k].underlying # NoUnderlying
        PROVE  /\ k \in DOMAIN legs
               /\ legs[k].underlying = ls[k].underlying
    BY <2>2
  <2>3. ASSUME NEW k \in D, ls[k].underlying # NoUnderlying
        PROVE  /\ ls[k].underlying \in DOMAIN underlyings
               /\ \E i \in 1..Len(underlyings'[ls[k].underlying].legs) :
                     underlyings'[ls[k].underlying].legs[i] = k
    <3> DEFINE u == ls[k].underlying
    <3>1. k \in DOMAIN legs /\ legs[k].underlying = u /\ u # NoUnderlying
      BY <2>2, <2>3
    <3> HIDE DEF u
    <3>2. /\ u \in DOMAIN underlyings
          /\ \E i \in 1..Len(underlyings[u].legs) : underlyings[u].legs[i] = k
      BY <3>1 DEF TypeInv, RegisteredOK
    <3>3. underlyings'[u].legs = underlyings[u].legs
      BY <1>2, <3>2
    <3>4. \E i \in 1..Len(underlyings'[u].legs) : underlyings'[u].legs[i] = k
      BY <3>2, <3>3
    <3> QED BY <3>2, <3>4 DEF u
  <2> QED BY <1>1, <1>2, <2>1, <2>3 DEF RegisteredOK
<1>5. TicksOK'
  BY <1>1 DEF TypeInv, TicksOK
<1> QED BY <1>1, <1>2, <1>3, <1>4, <1>5
-----------------------------------------------------------------------------
LEMMA SumTyped ==
    ASSUME TypeInv, SumLeg, UNCHANGED outVars
    PROVE  TypeInv'
<1> DEFINE u == legs[this_leg].underlying
           k == underlyings[u].legs[at]
           sum == Plus(underlyings[u].delta, Contribution(legs[k], underlyings[u]))
<1> USE DEF TypeInv
<1>1. /\ phase = "sum" /\ at \in Nat \ {0} /\ at <= Len(underlyings[u].legs)
      /\ underlyings' = [underlyings EXCEPT ![u].delta = sum]
      /\ at' = at + 1
      /\ UNCHANGED <<known, enabled, legs, tick_size, quoted, phase, inbox,
                     event, todo, this_leg>>
  BY DEF SumLeg, ThisUnderlying, TypeOK
<1>2. /\ u \in DOMAIN underlyings /\ underlyings[u] \in Underlying
      /\ legs \in [DOMAIN legs -> Leg]
      /\ underlyings \in [DOMAIN underlyings -> Underlying]
  BY <1>1 DEF WalkOK, HasUnderlying, TypeOK
<1>3. underlyings[u].legs \in Seq(DOMAIN legs)
  BY <1>2 DEF RegisteredOK
<1>4. k \in DOMAIN legs
  BY <1>1, <1>3
<1>5. sum \in Int \cup {NoDelta}
  <2>1. Contribution(legs[k], underlyings[u]) \in Int \cup {NoDelta}
    BY <1>2, <1>4, ContributionTyped
  <2>2. underlyings[u].delta \in Int \cup {NoDelta}
    BY <1>2 DEF Underlying
  <2> QED BY <2>1, <2>2 DEF Plus
<1> HIDE DEF sum, k
<1>6. /\ [underlyings[u] EXCEPT !.delta = sum] \in Underlying
      /\ [underlyings[u] EXCEPT !.delta = sum].legs = underlyings[u].legs
  BY <1>2, <1>5 DEF Underlying
<1>7. /\ DOMAIN underlyings' = DOMAIN underlyings
      /\ underlyings' \in [DOMAIN underlyings -> Underlying]
      /\ \A v \in DOMAIN underlyings : underlyings'[v].legs = underlyings[v].legs
  BY <1>1, <1>2, <1>6
<1>8. TypeOK'
  BY <1>1, <1>7 DEF TypeOK
<1>9. WalkOK' /\ RegisteredOK'
  BY <1>1, <1>7 DEF WalkOK, HasUnderlying, RegisteredOK
<1> QED BY <1>1, <1>8, <1>9 DEF InboxOK, EventOK, TicksOK, OutOK, outVars

LEMMA SummedTyped ==
    ASSUME TypeInv, Summed, UNCHANGED outVars
    PROVE  TypeInv'
<1>1. /\ UNCHANGED <<known, enabled, legs, underlyings, tick_size, quoted,
                    inbox, event, todo, this_leg, best, pos, reports>>
      /\ at' = 1 /\ phase' = "quote" /\ phase = "sum"
  BY DEF Summed, stateVars, outVars
<1>2. TypeOK'
  BY <1>1 DEF TypeInv, TypeOK
<1>3. InboxOK' /\ EventOK' /\ WalkOK'
  BY <1>1 DEF TypeInv, InboxOK, EventOK, WalkOK
<1>4. RegisteredOK' /\ TicksOK' /\ OutOK'
  BY <1>1 DEF TypeInv, RegisteredOK, TicksOK, OutOK
<1> QED BY <1>2, <1>3, <1>4 DEF TypeInv

LEMMA AffectedTyped ==
    ASSUME TypeInv, phase = "quote"
    PROVE  Affected \in Seq(DOMAIN legs)
<1>1. this_leg \in DOMAIN legs
  BY DEF TypeInv, WalkOK
<1>2. CASE ~HasUnderlying
  <2>1. Affected = <<this_leg>>
    BY <1>2 DEF Affected
  <2> QED BY <1>1, <2>1
<1>3. CASE HasUnderlying
  BY <1>3 DEF TypeInv, RegisteredOK, Affected, HasUnderlying, ThisUnderlying
<1> QED BY <1>2, <1>3

(* What the dispatch of a leg changes: its quotes, and what was sent.      *)
LEMMA QuoteStep ==
    ASSUME TypeInv, QuoteLeg, phase' # "abort"
    PROVE  \E l \in DOMAIN legs :
              LET q == ExecQuotes(legs[l])
              IN  /\ l = Affected[at] /\ at \in 1..Len(Affected)
                  /\ ~AssertFails(legs[l])
                  /\ q \in QuotePair
                  /\ legs' = [legs EXCEPT ![l].exec_quotes = q]
                  /\ quoted' = IF Withheld(q) THEN quoted ELSE [quoted EXCEPT ![l] = q]
                  /\ at' = at + 1
                  /\ UNCHANGED <<phase, known, enabled, underlyings, tick_size,
                                 inbox, event, todo, this_leg>>
<1> DEFINE l == Affected[at]
<1>1. /\ phase = "quote" /\ at \in Nat \ {0} /\ at <= Len(Affected)
  BY DEF QuoteLeg, TypeInv, TypeOK
<1>2. l \in DOMAIN legs /\ legs[l] \in Leg /\ legs[l].tick_size \in {0, 1}
  BY <1>1, AffectedTyped DEF TypeInv, TypeOK, TicksOK
<1>3. ~AssertFails(legs[l])
  BY DEF QuoteLeg
<1>4. ExecQuotes(legs[l]) \in QuotePair
  BY <1>2, <1>3, QuotesTyped
<1>5. at \in 1..Len(Affected)
  BY <1>1, AffectedTyped
<1> QED BY <1>2, <1>3, <1>4, <1>5 DEF QuoteLeg

LEMMA QuoteTyped ==
    ASSUME TypeInv, QuoteLeg, UNCHANGED outVars
    PROVE  TypeInv'
<1> USE DEF TypeInv
<1>1. CASE phase' = "abort"
  <2>1. UNCHANGED <<known, enabled, legs, underlyings, tick_size, quoted,
                    inbox, event, todo, this_leg, at>>
    BY <1>1 DEF QuoteLeg, TypeOK
  <2> QED BY <1>1, <2>1 DEF outVars, TypeOK, InboxOK, EventOK, WalkOK, RegisteredOK,
          TicksOK, OutOK
<1>2. CASE phase' # "abort"
  <2>1. PICK l \in DOMAIN legs :
            /\ ExecQuotes(legs[l]) \in QuotePair
            /\ legs' = [legs EXCEPT ![l].exec_quotes = ExecQuotes(legs[l])]
            /\ quoted' = IF Withheld(ExecQuotes(legs[l])) THEN quoted
                         ELSE [quoted EXCEPT ![l] = ExecQuotes(legs[l])]
            /\ at' = at + 1
            /\ UNCHANGED <<phase, known, enabled, underlyings, tick_size,
                           inbox, event, todo, this_leg>>
    BY <1>2, QuoteStep
  <2> DEFINE q == ExecQuotes(legs[l])
  <2>2. /\ legs[l] \in Leg /\ legs \in [DOMAIN legs -> Leg] /\ DOMAIN legs \subseteq Legs
    BY DEF TypeOK
  <2> HIDE DEF q
  <2>3. /\ [legs[l] EXCEPT !.exec_quotes = q] \in Leg
        /\ [legs[l] EXCEPT !.exec_quotes = q].underlying = legs[l].underlying
        /\ [legs[l] EXCEPT !.exec_quotes = q].tick_size = legs[l].tick_size
    BY <2>1, <2>2 DEF Leg, q
  <2>4. /\ DOMAIN legs' = DOMAIN legs
        /\ legs' \in [DOMAIN legs -> Leg]
        /\ \A k \in DOMAIN legs : /\ legs'[k].underlying = legs[k].underlying
                                  /\ legs'[k].tick_size = legs[k].tick_size
    BY <2>1, <2>2, <2>3 DEF q
  <2>5. quoted' \in [Legs -> QuotePair]
    BY <2>1, <2>2 DEF TypeOK
  <2>6. TypeOK'
    BY <2>1, <2>4, <2>5 DEF TypeOK
  <2>7. WalkOK' /\ RegisteredOK' /\ TicksOK'
    BY <2>1, <2>4 DEF QuoteLeg, WalkOK, RegisteredOK, TicksOK
  <2> QED BY <2>1, <2>6, <2>7 DEF InboxOK, EventOK, OutOK, outVars
<1> QED BY <1>1, <1>2

LEMMA QuotedTyped ==
    ASSUME TypeInv, Quoted, UNCHANGED outVars
    PROVE  TypeInv'
<1>1. /\ UNCHANGED <<known, enabled, legs, underlyings, tick_size, quoted,
                    inbox, event, todo, this_leg, best, pos, reports>>
      /\ at' = 1 /\ phase' = "visit" /\ phase = "quote"
  BY DEF Quoted, stateVars, outVars
<1>2. TypeOK'
  BY <1>1 DEF TypeInv, TypeOK
<1>3. InboxOK' /\ EventOK' /\ WalkOK'
  BY <1>1 DEF TypeInv, InboxOK, EventOK, WalkOK
<1>4. RegisteredOK' /\ TicksOK' /\ OutOK'
  BY <1>1 DEF TypeInv, RegisteredOK, TicksOK, OutOK
<1> QED BY <1>2, <1>3, <1>4 DEF TypeInv
-----------------------------------------------------------------------------
(* What a term of a leg leaves alone.                                      *)
Kept(new, old) ==
    /\ new.underlying = old.underlying
    /\ new.tick_size = old.tick_size
    /\ new.position = old.position
    /\ new.market_quotes = old.market_quotes
    /\ new.exec_quotes = old.exec_quotes

LEMMA TermKeeps ==
    ASSUME NEW D, NEW ls \in [D -> Leg], NEW l \in D, NEW label, NEW value
    PROVE  /\ DOMAIN WithTerm(ls, l, label, value) = D
           /\ \A k \in D : Kept(WithTerm(ls, l, label, value)[k], ls[k])
           /\ \A k \in D : k # l => WithTerm(ls, l, label, value)[k] = ls[k]
<1>1. CASE label \notin LegLabels
  BY <1>1 DEF WithTerm, Kept
<1>2. CASE label \in LegLabels
  BY <1>2 DEF WithTerm, LegLabels, Leg, Kept
<1> QED BY <1>1, <1>2

LEMMA TakenTyped ==
    ASSUME TypeInv, NEW l \in todo
    PROVE  /\ l \in DOMAIN legs
           /\ Taken(l) \in [DOMAIN legs -> Leg]
           /\ \A k \in DOMAIN legs : /\ Taken(l)[k].underlying = legs[k].underlying
                                     /\ Taken(l)[k].tick_size \in {0, 1}
<1>1. /\ l \in DOMAIN legs /\ l \in Legs
      /\ legs \in [DOMAIN legs -> Leg]
      /\ event.kind # "none"
      /\ \A k \in DOMAIN legs : legs[k].tick_size \in {0, 1}
  BY DEF TypeInv, TypeOK, EventOK, TicksOK
<1>2. CASE event.kind = "parameter"
  <2>1. Taken(l) = WithTerm(legs, l, event.label, event.value)
    BY <1>2 DEF Taken
  <2>2. [label |-> event.label, of |-> "", value |-> event.value] \in Parameter
    BY <1>2 DEF TypeInv, EventOK
  <2>3. WithTerm(legs, l, event.label, event.value) \in [DOMAIN legs -> Leg]
    BY <1>1, <2>2, TermTyped, Zenon
  <2>4. \A k \in DOMAIN legs : Kept(Taken(l)[k], legs[k])
    BY <1>1, <2>1, TermKeeps
  <2> QED BY <1>1, <2>1, <2>3, <2>4 DEF Kept
<1>3. CASE event.kind = "quotes"
  <2>1. Taken(l) = [legs EXCEPT ![l].market_quotes = event.quotes]
    BY <1>3 DEF Taken
  <2>2. event.quotes \in BestPrices
    BY <1>3 DEF TypeInv, EventOK
  <2> QED BY <1>1, <2>1, <2>2 DEF Leg
<1>4. CASE event.kind = "download"
  <2>1. Taken(l) = [legs EXCEPT ![l].tick_size = tick_size[LegMarket[l]]]
    BY <1>4 DEF Taken
  <2>2. tick_size[LegMarket[l]] \in {0, 1}
    BY <1>1, LqsAssumption DEF TypeInv, TicksOK
  <2> QED BY <1>1, <2>1, <2>2 DEF Leg
<1> QED BY <1>1, <1>2, <1>3, <1>4 DEF TypeInv, EventOK

LEMMA VisitTyped ==
    ASSUME TypeInv, Visit, UNCHANGED outVars
    PROVE  TypeInv'
<1>1. PICK l \in todo : todo' = todo \ {l} /\ Compute(l, Taken(l))
  BY DEF Visit
<1>2. UNCHANGED <<known, enabled, tick_size, quoted, inbox, event, best, pos, reports>>
  BY DEF Visit, outVars
<1>3. /\ legs' = Taken(l) /\ DOMAIN legs' = DOMAIN legs
      /\ DOMAIN underlyings' = DOMAIN underlyings
      /\ underlyings' \in [DOMAIN underlyings -> Underlying]
      /\ this_leg' = l /\ at' = 1 /\ phase' \in {"sum", "quote"}
      /\ WalkOK' /\ RegisteredOK' /\ TicksOK'
  <2>1. DOMAIN legs \subseteq Legs
    BY DEF TypeInv, TypeOK
  <2> QED BY <1>1, <1>2, <2>1, TakenTyped, Computed
<1>4. TypeOK'
  BY <1>1, <1>2, <1>3, TakenTyped DEF TypeInv, TypeOK
<1>5. InboxOK' /\ EventOK' /\ OutOK'
  BY <1>1, <1>2, <1>3 DEF TypeInv, InboxOK, EventOK, OutOK
<1> QED BY <1>3, <1>4, <1>5 DEF TypeInv

LEMMA VisitedTyped ==
    ASSUME TypeInv, Visited, UNCHANGED outVars
    PROVE  TypeInv'
<1>1. /\ UNCHANGED <<known, enabled, legs, tick_size, quoted, inbox, todo, at,
                    best, pos, reports>>
      /\ todo = {} /\ event'.kind = "none" /\ this_leg' \in Legs
      /\ phase' = AfterParameter(inbox)
  BY LqsAssumption DEF Visited, outVars, AnyLeg
<1>2. phase' \in {"idle", "parameters"} /\ (phase' = "parameters" => inbox # <<>>)
  BY <1>1 DEF AfterParameter
<1>3. /\ DOMAIN underlyings' = DOMAIN underlyings
      /\ underlyings' \in [DOMAIN underlyings -> Underlying]
      /\ \A u \in DOMAIN underlyings : underlyings'[u].legs = underlyings[u].legs
  <2>1. underlyings \in [DOMAIN underlyings -> Underlying]
    BY DEF TypeInv, TypeOK
  <2>2. CASE event.kind = "quotes" /\ event.market \in DOMAIN underlyings
    <3>1. underlyings' = [underlyings EXCEPT ![event.market].market_quotes = event.quotes]
      BY <2>2 DEF Visited
    <3>2. event.quotes \in BestPrices /\ underlyings[event.market] \in Underlying
      BY <2>1, <2>2 DEF TypeInv, EventOK
    <3>3. /\ [underlyings[event.market] EXCEPT !.market_quotes = event.quotes] \in Underlying
          /\ [underlyings[event.market] EXCEPT !.market_quotes = event.quotes].legs
                = underlyings[event.market].legs
      BY <3>2 DEF Underlying
    <3> QED BY <2>1, <2>2, <3>1, <3>3
  <2>3. CASE ~(event.kind = "quotes" /\ event.market \in DOMAIN underlyings)
    <3>1. underlyings' = underlyings
      BY <2>3 DEF Visited
    <3> QED BY <2>1, <3>1
  <2> QED BY <2>2, <2>3
<1>4. TypeOK'
  BY <1>1, <1>2, <1>3 DEF TypeInv, TypeOK
<1>5. InboxOK' /\ EventOK' /\ WalkOK'
  BY <1>1, <1>2 DEF TypeInv, InboxOK, EventOK, WalkOK
<1>6. RegisteredOK'
  <2>1. legs' = legs
    BY <1>1
  <2> QED BY <2>1, <1>3 DEF TypeInv, RegisteredOK
<1>7. TicksOK' /\ OutOK'
  BY <1>1 DEF TypeInv, TicksOK, OutOK
<1> QED BY <1>4, <1>5, <1>6, <1>7 DEF TypeInv
-----------------------------------------------------------------------------
(* What a parameter that comes to its turn is.                             *)
LEMMA NextParameter ==
    ASSUME TypeInv, OneParameter
    PROVE  /\ Head(inbox) \in Parameter
           /\ inbox' = Tail(inbox) /\ inbox' \in Seq(Parameter)
           /\ AfterParameter(inbox') \in {"idle", "parameters"}
           /\ AfterParameter(inbox') = "parameters" => inbox' # <<>>
           /\ phase = "parameters" /\ event.kind = "none" /\ todo = {}
           /\ UNCHANGED <<known, tick_size, quoted>>
<1>1. inbox \in Seq(Parameter) /\ inbox # <<>> /\ phase = "parameters"
  BY DEF TypeInv, InboxOK, OneParameter
<1>2. inbox' = Tail(inbox) /\ UNCHANGED <<known, tick_size, quoted>>
  BY DEF OneParameter
<1>3. Head(inbox) \in Parameter /\ Tail(inbox) \in Seq(Parameter)
  BY <1>1
<1>4. event.kind = "none" /\ todo = {}
  BY <1>1 DEF TypeInv, EventOK
<1> QED BY <1>1, <1>2, <1>3, <1>4 DEF AfterParameter

LEMMA UnderlyingParameterTyped ==
    ASSUME TypeInv, OneParameter, UnderlyingParameter(Head(inbox)), UNCHANGED outVars
    PROVE  TypeInv'
<1> DEFINE p == Head(inbox)
           ls == EmplaceLeg(p.of)
           us == EmplaceUnderlying(p.value)
<1>1. p.of \in Legs /\ p.value \in Markets
  BY NextParameter DEF UnderlyingParameter, Parameter, Parameters, ForLegs
<1>2. /\ ls \in [DOMAIN legs \cup {p.of} -> Leg]
      /\ us \in [DOMAIN underlyings \cup {p.value} -> Underlying]
      /\ \A k \in DOMAIN ls : ls[k].tick_size \in {0, 1}
  BY <1>1, LegEmplaced, UnderlyingEmplaced
<1>3. /\ legs' = [ls EXCEPT ![p.of].underlying = p.value]
      /\ underlyings' = [us EXCEPT ![p.value].legs = Append(@, p.of)]
      /\ phase' = AfterParameter(inbox')
      /\ UNCHANGED <<enabled, event, todo, this_leg, at>>
  BY NextParameter DEF UnderlyingParameter
<1>4. \A u \in DOMAIN us :
          us[u].legs = IF u \in DOMAIN underlyings THEN underlyings[u].legs ELSE <<>>
  BY DEF EmplaceUnderlying, NewUnderlying
<1>5. \A k \in DOMAIN legs : k \in DOMAIN ls /\ ls[k].underlying = legs[k].underlying
  BY DEF EmplaceLeg, TypeInv, TypeOK, Leg
<1> HIDE DEF ls, us
<1>6. DOMAIN legs \subseteq Legs /\ DOMAIN underlyings \subseteq Markets
  BY DEF TypeInv, TypeOK
<1>7. \A u \in DOMAIN us : us[u].legs \in Seq(DOMAIN legs)
  <2> TAKE u \in DOMAIN us
  <2>1. CASE u \in DOMAIN underlyings
    BY <1>4, <2>1 DEF TypeInv, RegisteredOK
  <2>2. CASE u \notin DOMAIN underlyings
    <3>1. us[u].legs = <<>>
      BY <1>4, <2>2
    <3> QED BY <3>1
  <2> QED BY <2>1, <2>2
<1>8. /\ DOMAIN legs' = DOMAIN legs \cup {p.of}
      /\ legs' \in [DOMAIN legs' -> Leg]
      /\ legs'[p.of].underlying = p.value
      /\ \A k \in DOMAIN legs' : /\ legs'[k].tick_size \in {0, 1}
                                 /\ k # p.of => legs'[k].underlying = ls[k].underlying
  <2>1. ls[p.of] \in Leg
    BY <1>2
  <2>2. /\ [ls[p.of] EXCEPT !.underlying = p.value] \in Leg
        /\ [ls[p.of] EXCEPT !.underlying = p.value].underlying = p.value
        /\ [ls[p.of] EXCEPT !.underlying = p.value].tick_size = ls[p.of].tick_size
    BY <1>1, <2>1 DEF Leg
  <2> QED BY <1>2, <1>3, <2>2
<1>9. /\ DOMAIN underlyings' = DOMAIN us
      /\ DOMAIN us = DOMAIN underlyings \cup {p.value}
      /\ underlyings' \in [DOMAIN us -> Underlying]
      /\ underlyings'[p.value].legs = Append(us[p.value].legs, p.of)
      /\ \A u \in DOMAIN us \ {p.value} : underlyings'[u].legs = us[u].legs
  <2> DEFINE old == us[p.value]
             new == [old EXCEPT !.legs = Append(@, p.of)]
  <2>1. old \in Underlying
    BY <1>2
  <2>2. Append(old.legs, p.of) \in Seq(Legs)
    BY <1>1, <2>1 DEF Underlying
  <2>3. new \in Underlying /\ new.legs = Append(old.legs, p.of)
    BY <2>1, <2>2 DEF Underlying
  <2> QED BY <1>2, <1>3, <2>3
<1>10. TypeOK'
  BY <1>1, <1>3, <1>6, <1>8, <1>9, NextParameter DEF TypeInv, TypeOK
<1>11. RegisteredOK'
  <2>1. Append(us[p.value].legs, p.of) \in Seq(DOMAIN legs')
    BY <1>7, <1>8, <1>9
  <2>2. ASSUME NEW u \in DOMAIN us PROVE underlyings'[u].legs \in Seq(DOMAIN legs')
    <3>1. CASE u = p.value
      BY <1>9, <2>1, <3>1
    <3>2. CASE u # p.value
      <4>1. underlyings'[u].legs = us[u].legs /\ us[u].legs \in Seq(DOMAIN legs)
        BY <1>7, <1>9, <3>2
      <4> QED BY <1>8, <4>1
    <3> QED BY <3>1, <3>2
  <2>3. ASSUME NEW k \in DOMAIN legs', legs'[k].underlying # NoUnderlying
        PROVE  /\ legs'[k].underlying \in DOMAIN us
               /\ \E i \in 1..Len(underlyings'[legs'[k].underlying].legs) :
                     underlyings'[legs'[k].underlying].legs[i] = k
    <3>1. CASE k = p.of
      <4>1. us[p.value].legs \in Seq(DOMAIN legs)
        BY <1>7, <1>9
      <4>2. LET s == Append(us[p.value].legs, p.of)
            IN  Len(s) \in 1..Len(s) /\ s[Len(s)] = p.of
        BY <4>1
      <4> QED BY <1>8, <1>9, <3>1, <4>2
    <3>2. CASE k # p.of
      <4> DEFINE u == legs[k].underlying
      <4>1. k \in DOMAIN legs /\ legs'[k].underlying = u /\ u # NoUnderlying
        BY <1>5, <1>8, <2>3, <3>2
      <4>2. u \in DOMAIN underlyings
        BY <4>1 DEF TypeInv, RegisteredOK
      <4>3. PICK i \in 1..Len(underlyings[u].legs) : underlyings[u].legs[i] = k
        BY <4>1 DEF TypeInv, RegisteredOK
      <4>4. us[u].legs = underlyings[u].legs /\ us[u].legs \in Seq(DOMAIN legs)
        BY <1>4, <1>7, <1>9, <4>2
      <4>5. CASE u # p.value
        BY <1>9, <4>1, <4>2, <4>3, <4>4, <4>5
      <4>6. CASE u = p.value
        <5>1. LET s == Append(us[u].legs, p.of) IN i \in 1..Len(s) /\ s[i] = k
          BY <4>3, <4>4
        <5> QED BY <1>9, <4>1, <4>6, <5>1
      <4> QED BY <4>5, <4>6
    <3> QED BY <3>1, <3>2
  <2> QED BY <1>9, <2>2, <2>3 DEF RegisteredOK
<1>12. InboxOK' /\ EventOK' /\ WalkOK'
  BY <1>3, NextParameter DEF TypeInv, InboxOK, EventOK, WalkOK
<1>13. TicksOK' /\ OutOK'
  BY <1>8, NextParameter DEF TypeInv, TicksOK, OutOK, outVars
<1> QED BY <1>10, <1>11, <1>12, <1>13 DEF TypeInv

LEMMA EnabledParameterTyped ==
    ASSUME TypeInv, OneParameter, EnabledParameter(Head(inbox)), UNCHANGED outVars
    PROVE  TypeInv'
<1>1. /\ enabled' \in BOOLEAN
      /\ phase' = AfterParameter(inbox')
      /\ UNCHANGED <<known, tick_size, quoted, legs, underlyings, event, todo, this_leg, at,
                     best, pos, reports>>
  BY NextParameter DEF EnabledParameter, Parameter, Parameters, ForLegs, outVars
<1>2. TypeOK'
  BY <1>1, NextParameter DEF TypeInv, TypeOK
<1>3. InboxOK' /\ EventOK' /\ WalkOK'
  BY <1>1, NextParameter DEF TypeInv, InboxOK, EventOK, WalkOK
<1>4. RegisteredOK' /\ TicksOK' /\ OutOK'
  BY <1>1 DEF TypeInv, RegisteredOK, TicksOK, OutOK
<1> QED BY <1>2, <1>3, <1>4 DEF TypeInv

LEMMA DeltaParameterTyped ==
    ASSUME TypeInv, OneParameter, DeltaParameter(Head(inbox)), UNCHANGED outVars
    PROVE  TypeInv'
<1> DEFINE p == Head(inbox)
           us == EmplaceUnderlying(p.of)
<1>1. p.of \in Markets /\ p.value \in Int /\ p.label \in {"delta_min", "delta_max"}
  BY NextParameter DEF DeltaParameter, Parameter, Parameters, ForLegs
<1>2. us \in [DOMAIN underlyings \cup {p.of} -> Underlying]
  BY <1>1, UnderlyingEmplaced
<1>3. /\ underlyings' = [us EXCEPT ![p.of][p.label] = p.value]
      /\ phase' = AfterParameter(inbox')
      /\ UNCHANGED <<known, tick_size, quoted, enabled, legs, event, todo, this_leg, at,
                     best, pos, reports>>
  BY NextParameter DEF DeltaParameter, outVars
<1>4. \A u \in DOMAIN us :
          us[u].legs = IF u \in DOMAIN underlyings THEN underlyings[u].legs ELSE <<>>
  BY DEF EmplaceUnderlying, NewUnderlying
<1> HIDE DEF us
<1>5. /\ DOMAIN underlyings' = DOMAIN underlyings \cup {p.of}
      /\ underlyings' \in [DOMAIN underlyings' -> Underlying]
      /\ \A u \in DOMAIN us : underlyings'[u].legs = us[u].legs
  <2>1. us[p.of] \in Underlying
    BY <1>2
  <2>2. /\ [us[p.of] EXCEPT ![p.label] = p.value] \in Underlying
        /\ [us[p.of] EXCEPT ![p.label] = p.value].legs = us[p.of].legs
    BY <1>1, <2>1 DEF Underlying
  <2> QED BY <1>2, <1>3, <2>2
<1>6. TypeOK'
  <2>1. DOMAIN underlyings' \subseteq Markets
    BY <1>1, <1>5 DEF TypeInv, TypeOK
  <2> QED BY <1>3, <1>5, <2>1, NextParameter DEF TypeInv, TypeOK
<1>7. RegisteredOK'
  <2>1. ASSUME NEW u \in DOMAIN underlyings'
        PROVE  underlyings'[u].legs \in Seq(DOMAIN legs)
    <3>1. CASE u \in DOMAIN underlyings
      BY <1>2, <1>4, <1>5, <3>1 DEF TypeInv, RegisteredOK
    <3>2. CASE u \notin DOMAIN underlyings
      <4>1. underlyings'[u].legs = <<>>
        BY <1>2, <1>4, <1>5, <3>2
      <4> QED BY <4>1
    <3> QED BY <3>1, <3>2
  <2>2. \A u \in DOMAIN underlyings :
            u \in DOMAIN underlyings' /\ underlyings'[u].legs = underlyings[u].legs
    BY <1>2, <1>4, <1>5
  <2> QED BY <1>3, <2>1, <2>2 DEF TypeInv, RegisteredOK
<1>8. InboxOK' /\ EventOK' /\ WalkOK'
  BY <1>3, NextParameter DEF TypeInv, InboxOK, EventOK, WalkOK
<1>9. TicksOK' /\ OutOK'
  BY <1>3 DEF TypeInv, TicksOK, OutOK
<1> QED BY <1>6, <1>7, <1>8, <1>9 DEF TypeInv

(* An emplaced leg is the one there was, or a new one.                     *)
LEMMA LegEmplacedKeeps ==
    ASSUME TypeInv, NEW l \in Legs
    PROVE  /\ DOMAIN EmplaceLeg(l) = DOMAIN legs \cup {l}
           /\ \A k \in DOMAIN EmplaceLeg(l) :
                 LET old == IF k \in DOMAIN legs THEN legs[k] ELSE NewLeg
                     new == EmplaceLeg(l)[k]
                 IN  /\ new.underlying = old.underlying
                     /\ new.position = old.position
                     /\ new.market_quotes = old.market_quotes
                     /\ new.exec_quotes = old.exec_quotes
                     /\ new.execution_mode = old.execution_mode
                     /\ new.tick_size = IF k = l THEN tick_size[LegMarket[l]]
                                        ELSE old.tick_size
BY DEF EmplaceLeg, NewLeg, TypeInv, TypeOK, Leg

(* A leg computed on its own: by a parameter for it, or by an exposure.    *)
LEMMA LegComputed ==
    ASSUME TypeInv, NEW l \in Legs, NEW ls \in [DOMAIN legs \cup {l} -> Leg],
           Compute(l, ls),
           \A k \in DOMAIN ls : /\ ls[k].underlying = EmplaceLeg(l)[k].underlying
                                /\ ls[k].tick_size = EmplaceLeg(l)[k].tick_size,
           UNCHANGED <<known, enabled, tick_size, quoted, event, todo, best, pos>>,
           reports' \in [Legs -> Seq(Int)],
           inbox' \in Seq(Parameter)
    PROVE  TypeInv'
<1>1. DOMAIN legs \subseteq Legs
  BY DEF TypeInv, TypeOK
<1>2. /\ \A k \in DOMAIN legs : ls[k].underlying = legs[k].underlying
      /\ \A k \in (DOMAIN legs \cup {l}) \ DOMAIN legs : ls[k].underlying = NoUnderlying
      /\ \A k \in DOMAIN legs \cup {l} : ls[k].tick_size \in {0, 1}
  <2> DEFINE e == EmplaceLeg(l)
  <2>1. /\ DOMAIN e = DOMAIN legs \cup {l} /\ DOMAIN ls = DOMAIN legs \cup {l}
        /\ \A k \in DOMAIN e : e[k].tick_size \in {0, 1}
    BY LegEmplacedKeeps, LegEmplaced
  <2>2. \A k \in DOMAIN e : e[k].underlying = IF k \in DOMAIN legs THEN legs[k].underlying
                                           ELSE NoUnderlying
    BY LegEmplacedKeeps DEF NewLeg
  <2> HIDE DEF e
  <2> QED BY <2>1, <2>2 DEF e
<1>3. /\ legs' = ls /\ DOMAIN legs' = DOMAIN legs \cup {l}
      /\ DOMAIN underlyings' = DOMAIN underlyings
      /\ underlyings' \in [DOMAIN underlyings -> Underlying]
      /\ this_leg' = l /\ at' = 1 /\ phase' \in {"sum", "quote"}
      /\ WalkOK' /\ RegisteredOK' /\ TicksOK'
  BY <1>1, <1>2, Computed
<1>4. TypeOK'
  BY <1>1, <1>3 DEF TypeInv, TypeOK
<1>5. InboxOK' /\ EventOK' /\ OutOK'
  BY <1>3 DEF TypeInv, InboxOK, EventOK, OutOK
<1> QED BY <1>3, <1>4, <1>5 DEF TypeInv

(* A leg that is emplaced and given a term.                                *)
LEMMA TermOfEmplaced ==
    ASSUME TypeInv, NEW l \in Legs, NEW label, NEW value
    PROVE  LET e == EmplaceLeg(l)
               ls == WithTerm(e, l, label, value)
           IN  /\ DOMAIN ls = DOMAIN legs \cup {l}
               /\ \A k \in DOMAIN legs \cup {l} : Kept(ls[k], e[k])
               /\ \A k \in DOMAIN legs \cup {l} : k # l => ls[k] = e[k]
<1> DEFINE D == DOMAIN legs \cup {l}
           e == EmplaceLeg(l)
<1>1. e \in [D -> Leg] /\ l \in D
  BY LegEmplaced
<1> HIDE DEF D, e
<1>2. /\ DOMAIN WithTerm(e, l, label, value) = D
      /\ \A k \in D : Kept(WithTerm(e, l, label, value)[k], e[k])
      /\ \A k \in D : k # l => WithTerm(e, l, label, value)[k] = e[k]
  BY <1>1, TermKeeps
<1> QED BY <1>2 DEF D, e

(* A parameter for one leg is one of its terms.                            *)
TermComputed(l, label, value) ==
    /\ Compute(l, WithTerm(EmplaceLeg(l), l, label, value))
    /\ UNCHANGED <<known, enabled, tick_size, quoted, event, todo>>

LEMMA TermForLeg ==
    ASSUME TypeInv, OneParameter, LegParameter(Head(inbox)), Head(inbox).of # ""
    PROVE  \E l \in Legs : \E label, value :
              /\ [label |-> label, of |-> l, value |-> value] \in Parameter
              /\ TermComputed(l, label, value)
<1> DEFINE p == Head(inbox)
<1>1. p \in Parameter
  BY NextParameter
<1>2. p.label \notin {"underlying", "enabled", "delta_min", "delta_max"} /\ p.of # ""
  BY DEF LegParameter
<1> HIDE DEF p
<1>3. p.of \in Legs
  BY <1>1, <1>2 DEF Parameter, Parameters, ForLegs
<1>4. p = [label |-> p.label, of |-> p.of, value |-> p.value]
  BY <1>1 DEF Parameter, Parameters, ForLegs
<1>5. TermComputed(p.of, p.label, p.value)
  BY <1>2, NextParameter DEF LegParameter, TermComputed, p
<1> QED BY <1>1, <1>3, <1>4, <1>5

LEMMA TermComputedTyped ==
    ASSUME TypeInv, NEW l \in Legs, NEW label, NEW value,
           [label |-> label, of |-> l, value |-> value] \in Parameter,
           TermComputed(l, label, value),
           UNCHANGED <<best, pos, reports>>, inbox' \in Seq(Parameter)
    PROVE  TypeInv'
<1> DEFINE ls == WithTerm(EmplaceLeg(l), l, label, value)
<1>1. ls \in [DOMAIN legs \cup {l} -> Leg]
  <2>1. EmplaceLeg(l) \in [DOMAIN legs \cup {l} -> Leg] /\ l \in DOMAIN legs \cup {l}
    BY LegEmplaced
  <2> QED BY <2>1, TermTyped, Zenon
<1>2. \A k \in DOMAIN ls : /\ ls[k].underlying = EmplaceLeg(l)[k].underlying
                           /\ ls[k].tick_size = EmplaceLeg(l)[k].tick_size
  <2>1. DOMAIN ls = DOMAIN legs \cup {l} /\ \A k \in DOMAIN ls : Kept(ls[k], EmplaceLeg(l)[k])
    BY TermOfEmplaced
  <2> QED BY <2>1 DEF Kept
<1>3. /\ Compute(l, ls)
      /\ UNCHANGED <<known, enabled, tick_size, quoted, event, todo, best, pos, reports>>
  BY DEF TermComputed
<1>4. reports' \in [Legs -> Seq(Int)]
  BY <1>3 DEF TypeInv, OutOK
<1> HIDE DEF ls
<1> QED BY <1>1, <1>2, <1>3, <1>4, LegComputed

LEMMA LegParameterTyped ==
    ASSUME TypeInv, OneParameter, LegParameter(Head(inbox)), UNCHANGED outVars
    PROVE  TypeInv'
<1> DEFINE p == Head(inbox)
<1>1. UNCHANGED <<known, enabled, tick_size, quoted, best, pos, reports>>
  BY NextParameter DEF LegParameter, outVars
<1>2. CASE p.of = ""
  <2>1. /\ event' = [kind |-> "parameter", label |-> p.label, value |-> p.value]
        /\ todo' = DOMAIN legs /\ phase' = "visit"
        /\ UNCHANGED <<legs, underlyings, this_leg, at>>
    BY <1>2 DEF LegParameter
  <2>2. [label |-> p.label, of |-> "", value |-> p.value] \in Parameter
    <3>1. p = [label |-> p.label, of |-> p.of, value |-> p.value]
      BY NextParameter DEF Parameter, Parameters, ForLegs
    <3> QED BY <1>2, <3>1, NextParameter
  <2> HIDE DEF p
  <2>3. EventOK'
    BY <2>1, <2>2 DEF EventOK
  <2>4. TypeOK' /\ InboxOK' /\ WalkOK'
    BY <1>1, <2>1, NextParameter DEF TypeInv, TypeOK, InboxOK, WalkOK
  <2>5. RegisteredOK' /\ TicksOK' /\ OutOK'
    BY <1>1, <2>1 DEF TypeInv, RegisteredOK, TicksOK, OutOK
  <2> QED BY <2>3, <2>4, <2>5 DEF TypeInv
<1>3. CASE p.of # ""
  <2>1. PICK l \in Legs : \E label, value :
            /\ [label |-> label, of |-> l, value |-> value] \in Parameter
            /\ TermComputed(l, label, value)
    BY <1>3, TermForLeg
  <2>2. inbox' \in Seq(Parameter) /\ UNCHANGED <<best, pos, reports>>
    BY <1>1, NextParameter
  <2> QED BY <2>1, <2>2, TermComputedTyped
<1> QED BY <1>2, <1>3
-----------------------------------------------------------------------------
LEMMA ParametersTyped ==
    ASSUME TypeInv, NEW ps \in Seq(Parameter), ParametersUpdate(ps),
           UNCHANGED <<best, pos, reports>>
    PROVE  TypeInv'
<1>1. /\ phase = "idle" /\ phase' = "parameters" /\ known' = TRUE
      /\ ps # <<>> /\ inbox' = ps
      /\ UNCHANGED <<enabled, legs, underlyings, tick_size, quoted,
                     event, todo, this_leg, at>>
  BY DEF ParametersUpdate
<1>2. TypeOK'
  BY <1>1 DEF TypeInv, TypeOK
<1>3. InboxOK' /\ EventOK' /\ WalkOK'
  BY <1>1 DEF TypeInv, InboxOK, EventOK, WalkOK
<1>4. RegisteredOK' /\ TicksOK' /\ OutOK'
  BY <1>1 DEF TypeInv, RegisteredOK, TicksOK, OutOK
<1> QED BY <1>2, <1>3, <1>4 DEF TypeInv

(* An event for the legs of a set.                                         *)
LEMMA BroadcastTyped ==
    ASSUME TypeInv, NEW e, NEW receivers \in SUBSET DOMAIN legs, Broadcast(e, receivers),
           \/ e.kind = "download"
           \/ /\ e.kind = "quotes" /\ e.market \in Markets
              /\ e.quotes \in BestPrices /\ Uncrossed(e.quotes),
           OutOK'
    PROVE  TypeInv'
<1>1. /\ phase = "idle"
      /\ UNCHANGED <<known, enabled, legs, underlyings, tick_size, quoted, inbox, this_leg, at>>
  BY DEF Broadcast, stateVars
<1>2. \/ event' = e /\ todo' = receivers /\ phase' = "visit"
      \/ UNCHANGED <<event, todo, phase>>
  BY DEF Broadcast
<1>3. TypeOK'
  BY <1>1, <1>2 DEF TypeInv, TypeOK
<1>4. InboxOK' /\ EventOK' /\ WalkOK'
  BY <1>1, <1>2 DEF TypeInv, InboxOK, EventOK, WalkOK
<1>5. RegisteredOK' /\ TicksOK'
  BY <1>1 DEF TypeInv, RegisteredOK, TicksOK
<1> QED BY <1>3, <1>4, <1>5 DEF TypeInv

LEMMA QuotesEventTyped ==
    ASSUME TypeInv, NEW m \in Markets, NEW q \in Prices[m], Quotes(m, q), OutOK'
    PROVE  TypeInv'
<1>1. q \in BestPrices /\ Uncrossed(q)
  BY TradingAssumption
<1> QED BY <1>1, BroadcastTyped DEF Quotes

LEMMA ReferenceTyped ==
    ASSUME TypeInv, NEW m \in Markets, ReferenceData(m, 1), UNCHANGED outVars
    PROVE  TypeInv'
<1>1. /\ tick_size' = [tick_size EXCEPT ![m] = 1]
      /\ UNCHANGED <<known, enabled, legs, underlyings, quoted, phase, inbox, event, todo,
                     this_leg, at, best, pos, reports>>
  BY DEF ReferenceData, walkVars, outVars
<1>2. TypeOK' /\ TicksOK'
  BY <1>1 DEF TypeInv, TypeOK, TicksOK
<1>3. InboxOK' /\ EventOK' /\ WalkOK' /\ RegisteredOK' /\ OutOK'
  BY <1>1 DEF TypeInv, InboxOK, EventOK, WalkOK, RegisteredOK, OutOK, HasUnderlying
<1> QED BY <1>2, <1>3 DEF TypeInv

LEMMA ReportedTyped ==
    ASSUME TypeInv, NEW l \in Legs, Reported(l)
    PROVE  TypeInv'
<1> DEFINE ls == [EmplaceLeg(l) EXCEPT ![l].position = Head(reports[l])]
<1>1. /\ known /\ phase = "idle"
      /\ Compute(l, ls)
      /\ UNCHANGED <<known, enabled, tick_size, quoted, inbox, event, todo, best, pos>>
      /\ reports[l] # <<>>
      /\ reports' = [reports EXCEPT ![l] = Tail(@)]
  BY DEF Reported, ExposureUpdate
<1>2. /\ reports \in [Legs -> Seq(Int)]
      /\ Head(reports[l]) \in Int /\ Tail(reports[l]) \in Seq(Int)
  BY <1>1 DEF TypeInv, OutOK
<1>3. ls \in [DOMAIN legs \cup {l} -> Leg]
      /\ \A k \in DOMAIN ls : /\ ls[k].underlying = EmplaceLeg(l)[k].underlying
                              /\ ls[k].tick_size = EmplaceLeg(l)[k].tick_size
  <2> DEFINE e == EmplaceLeg(l)
  <2>1. e \in [DOMAIN legs \cup {l} -> Leg]
    BY LegEmplaced
  <2> HIDE DEF e
  <2>2. /\ [e EXCEPT ![l].position = Head(reports[l])] \in [DOMAIN legs \cup {l} -> Leg]
        /\ \A k \in DOMAIN legs \cup {l} :
              LET new == [e EXCEPT ![l].position = Head(reports[l])][k]
              IN  new.underlying = e[k].underlying /\ new.tick_size = e[k].tick_size
    BY <1>2, <2>1 DEF Leg
  <2> QED BY <2>2 DEF e
<1>4. reports' \in [Legs -> Seq(Int)] /\ inbox' \in Seq(Parameter)
  BY <1>1, <1>2 DEF TypeInv, InboxOK
<1> HIDE DEF ls
<1> QED BY <1>1, <1>3, <1>4, LegComputed

LEMMA FilledTyped ==
    ASSUME TypeInv, NEW l \in Legs, NEW s \in Sides, Filled(l, s)
    PROVE  TypeInv'
<1> DEFINE x == IF s = "buy" THEN pos[l] + 1 ELSE pos[l] - 1
<1>1. /\ pos' = [pos EXCEPT ![l] = x]
      /\ reports' = [reports EXCEPT ![l] = Append(@, x)]
      /\ UNCHANGED <<known, enabled, legs, underlyings, tick_size, quoted, phase, inbox,
                     event, todo, this_leg, at, best>>
  BY DEF Filled, lqsVars, stateVars, walkVars
<1>2. pos \in [Legs -> Int] /\ reports \in [Legs -> Seq(Int)]
  BY DEF TypeInv, OutOK
<1>3. x \in Int /\ Append(reports[l], x) \in Seq(Int)
  BY <1>2
<1> HIDE DEF x
<1>4. OutOK'
  BY <1>1, <1>2, <1>3 DEF TypeInv, OutOK
<1>5. TypeOK' /\ InboxOK' /\ EventOK' /\ WalkOK' /\ RegisteredOK' /\ TicksOK'
  BY <1>1 DEF TypeInv, TypeOK, InboxOK, EventOK, WalkOK, RegisteredOK, TicksOK, HasUnderlying
<1> QED BY <1>4, <1>5 DEF TypeInv

LEMMA StillTyped ==
    ASSUME TypeInv, UNCHANGED lqsVars, UNCHANGED <<best, pos, reports>>
    PROVE  TypeInv'
BY DEF lqsVars, stateVars, walkVars, TypeInv, TypeOK, InboxOK, EventOK, WalkOK, RegisteredOK,
   TicksOK, OutOK, HasUnderlying
-----------------------------------------------------------------------------
LEMMA TypeInit == TradingInit => TypeInv
<1> SUFFICES ASSUME TradingInit PROVE TypeInv
  OBVIOUS
<1>1. /\ known = FALSE /\ enabled = FALSE /\ legs = <<>> /\ underlyings = <<>>
      /\ tick_size = [m \in Markets |-> 0] /\ quoted = [l \in Legs |-> NoQuotes]
      /\ phase = "idle" /\ inbox = <<>> /\ event = [kind |-> "none"]
      /\ todo = {} /\ this_leg \in Legs /\ at = 1
  BY LqsAssumption DEF TradingInit, Init, AnyLeg
<1>2. DOMAIN legs = {} /\ DOMAIN underlyings = {}
  BY <1>1
<1>3. NoQuotes \in QuotePair
  BY DEF NoQuotes, NoQuote, QuotePair, Quote
<1>4. legs \in [DOMAIN legs -> Leg] /\ underlyings \in [DOMAIN underlyings -> Underlying]
  BY <1>1, <1>2
<1>5. TypeOK
  <2>1. quoted \in [Legs -> QuotePair] /\ tick_size \in [Markets -> Nat]
    BY <1>1, <1>3
  <2>2. DOMAIN legs \subseteq Legs /\ DOMAIN underlyings \subseteq Markets /\ todo \subseteq DOMAIN legs
    BY <1>1, <1>2
  <2>3. at \in Nat \ {0} /\ this_leg \in Legs
    BY <1>1
  <2>4. known \in BOOLEAN /\ enabled \in BOOLEAN
    BY <1>1
  <2> QED BY <1>1, <1>4, <2>1, <2>2, <2>3, <2>4 DEF TypeOK
<1>6. InboxOK /\ EventOK /\ WalkOK /\ RegisteredOK /\ TicksOK
  BY <1>1, <1>2 DEF InboxOK, EventOK, WalkOK, RegisteredOK, TicksOK
<1>7. OutOK
  <2>1. best \in [Markets -> BestPrices] /\ \A m \in Markets : best[m] \in Prices[m]
    BY TradingAssumption DEF TradingInit
  <2>2. pos \in [Legs -> Int]
    BY TradingAssumption DEF TradingInit
  <2>3. reports \in [Legs -> Seq(Int)]
    BY <2>2 DEF TradingInit
  <2> QED BY <2>1, <2>2, <2>3 DEF OutOK
<1> QED BY <1>5, <1>6, <1>7 DEF TypeInv

LEMMA TypeStep == TypeInv /\ [Next]_vars => TypeInv'
<1> SUFFICES ASSUME TypeInv, [Next]_vars PROVE TypeInv'
  OBVIOUS
<1>1. CASE LqsWalks
  <2> USE <1>1
  <2>1. CASE SumLeg
    BY <2>1, SumTyped DEF LqsWalks
  <2>2. CASE Summed
    BY <2>2, SummedTyped DEF LqsWalks
  <2>3. CASE QuoteLeg
    BY <2>3, QuoteTyped DEF LqsWalks
  <2>4. CASE Quoted
    BY <2>4, QuotedTyped DEF LqsWalks
  <2>5. CASE Visit
    BY <2>5, VisitTyped DEF LqsWalks
  <2>6. CASE Visited
    BY <2>6, VisitedTyped DEF LqsWalks
  <2>7. CASE OneParameter
    <3>1. \/ UnderlyingParameter(Head(inbox)) \/ EnabledParameter(Head(inbox))
          \/ DeltaParameter(Head(inbox)) \/ LegParameter(Head(inbox))
      BY <2>7 DEF OneParameter
    <3> QED BY <2>7, <3>1, UnderlyingParameterTyped, EnabledParameterTyped,
            DeltaParameterTyped, LegParameterTyped DEF LqsWalks
  <2> QED BY <2>1, <2>2, <2>3, <2>4, <2>5, <2>6, <2>7 DEF LqsWalks, Walk
<1>2. CASE Configured
  <2>1. Configuration \in Seq(Parameter)
    BY TradingAssumption
  <2> QED BY <1>2, <2>1, ParametersTyped DEF Configured, outVars
<1>3. CASE Reconfigured
  <2>1. PICK i \in DOMAIN Updates : ParametersUpdate(Updates[i])
    BY <1>3 DEF Reconfigured
  <2>2. Updates[i] \in Seq(Parameter)
    BY TradingAssumption
  <2> QED BY <1>3, <2>1, <2>2, ParametersTyped DEF Reconfigured
<1>4. CASE TickSizes
  BY <1>4, ReferenceTyped DEF TickSizes
<1>5. CASE Downloaded
  <2>1. OutOK'
    BY <1>5 DEF Downloaded, TypeInv, OutOK
  <2> QED BY <1>5, <2>1, BroadcastTyped DEF Downloaded, DownloadEnd
<1>6. ASSUME NEW m \in Markets, QuotesAgain(m) PROVE TypeInv'
  <2>1. OutOK' /\ best[m] \in Prices[m]
    BY <1>6 DEF QuotesAgain, outVars, TypeInv, OutOK
  <2> QED BY <1>6, <2>1, QuotesEventTyped DEF QuotesAgain
<1>7. CASE MarketMoves
  <2>0. PICK m \in Markets :
            \E q \in Prices[m] : best' = [best EXCEPT ![m] = q] /\ Quotes(m, q)
    BY <1>7 DEF MarketMoves
  <2>1. PICK q \in Prices[m] : best' = [best EXCEPT ![m] = q] /\ Quotes(m, q)
    BY <2>0
  <2>2. q \in BestPrices
    BY TradingAssumption
  <2>3. OutOK'
    BY <1>7, <2>1, <2>2 DEF MarketMoves, TypeInv, OutOK
  <2> QED BY <2>1, <2>3, QuotesEventTyped
<1>8. ASSUME NEW l \in Legs, Trades(l) PROVE TypeInv'
  <2>1. CASE Reported(l)
    BY <2>1, ReportedTyped
  <2>2. CASE Refilled(l)
    BY <2>2, StillTyped DEF Refilled
  <2>3. ASSUME NEW s \in Sides, Filled(l, s) PROVE TypeInv'
    BY <2>3, FilledTyped
  <2> QED BY <1>8, <2>1, <2>2, <2>3 DEF Trades
<1>9. CASE UNCHANGED vars
  BY <1>9, StillTyped DEF vars, outVars
<1> QED BY <1>1, <1>2, <1>3, <1>4, <1>5, <1>6, <1>7, <1>8, <1>9 DEF Next

LEMMA AlwaysTyped == Spec => []TypeInv
BY TypeInit, TypeStep, PTL DEF Spec

(* Whatever the parameters, the prices and the fills, every leg and every  *)
(* underlying keeps the types the code declares: volumes that leg.compute  *)
(* cuts off at zero never become negative, and no leg without an entry is  *)
(* computed.  (leg.cpp, underlying.cpp, strategy.cpp)                      *)
THEOREM TypeCorrect == Spec => []TypeOK
<1>1. TypeInv => TypeOK
  BY DEF TypeInv
<1> QED BY <1>1, AlwaysTyped, PTL
-----------------------------------------------------------------------------
(* How the legs change.  Leg l is emplaced, and changed in what its caller *)
(* is about.                                                               *)
Old(l) == IF l \in DOMAIN legs THEN legs[l] ELSE NewLeg

(* The execution mode is the one it was, or a defined one.                 *)
ModeKept(new, old) ==
    \/ new.execution_mode = old.execution_mode
    \/ new.execution_mode # "UNDEFINED"

Emplaced(l) ==
    /\ l \in Legs
    /\ DOMAIN legs' = DOMAIN legs \cup {l}
    /\ \A k \in DOMAIN legs : k # l => legs'[k] = legs[k]
    /\ legs'[l].exec_quotes = Old(l).exec_quotes
    /\ legs'[l].market_quotes = Old(l).market_quotes
    /\ legs'[l].tick_size = tick_size[LegMarket[l]]
    /\ ModeKept(legs'[l], Old(l))

(* Leg l is what is computed next.                                         *)
Starts(l) == this_leg' = l /\ at' = 1 /\ phase' \in {"sum", "quote"}

LEMMA EmplaceKeepsOthers ==
    ASSUME TypeInv, NEW l \in Legs
    PROVE  \A k \in DOMAIN legs : k # l => EmplaceLeg(l)[k] = legs[k]
BY DEF EmplaceLeg

LEMMA TermMode ==
    ASSUME NEW D, NEW ls \in [D -> Leg], NEW l \in D,
           NEW label, NEW of, NEW value,
           [label |-> label, of |-> of, value |-> value] \in Parameter
    PROVE  ModeKept(WithTerm(ls, l, label, value)[l], ls[l])
<1>1. CASE label # "execution_mode"
  BY <1>1 DEF WithTerm, LegLabels, Leg, ModeKept
<1>2. CASE label = "execution_mode"
  <2> DEFINE p == [label |-> label, of |-> of, value |-> value]
  <2>1. p \in Parameter /\ p.label = "execution_mode" /\ p.value = value
    BY <1>2
  <2> HIDE DEF p
  <2>2. value # "UNDEFINED"
    BY <2>1 DEF Parameter, Parameters, ForLegs
  <2> QED BY <1>2, <2>2 DEF WithTerm, LegLabels, Leg, ModeKept
<1> QED BY <1>1, <1>2

LEMMA UnderlyingParameterEffect ==
    ASSUME TypeInv, OneParameter, UnderlyingParameter(Head(inbox))
    PROVE  \E l \in Legs :
              /\ Emplaced(l)
              /\ legs'[l].position = Old(l).position
              /\ legs'[l].execution_mode = Old(l).execution_mode
              /\ phase' \in {"idle", "parameters"}
              /\ UNCHANGED <<known, event, todo, tick_size, quoted>>
<1> DEFINE p == Head(inbox)
           e == EmplaceLeg(p.of)
<1>1. p.of \in Legs
  BY NextParameter DEF UnderlyingParameter, Parameter, Parameters, ForLegs
<1>2. /\ e \in [DOMAIN legs \cup {p.of} -> Leg]
      /\ \A k \in DOMAIN legs : k # p.of => e[k] = legs[k]
      /\ e[p.of].position = Old(p.of).position
      /\ e[p.of].market_quotes = Old(p.of).market_quotes
      /\ e[p.of].exec_quotes = Old(p.of).exec_quotes
      /\ e[p.of].execution_mode = Old(p.of).execution_mode
      /\ e[p.of].tick_size = tick_size[LegMarket[p.of]]
  BY <1>1, LegEmplaced, LegEmplacedKeeps, EmplaceKeepsOthers DEF Old
<1>3. /\ legs' = [e EXCEPT ![p.of].underlying = p.value]
      /\ phase' \in {"idle", "parameters"}
      /\ UNCHANGED <<known, event, todo, tick_size, quoted>>
  BY NextParameter DEF UnderlyingParameter
<1> HIDE DEF e
<1>4. /\ Emplaced(p.of) /\ legs'[p.of].position = Old(p.of).position
      /\ legs'[p.of].execution_mode = Old(p.of).execution_mode
  BY <1>1, <1>2, <1>3 DEF Emplaced, Leg, ModeKept
<1> QED BY <1>1, <1>3, <1>4

LEMMA TermComputedEffect ==
    ASSUME TypeInv, NEW l \in Legs, NEW label, NEW value,
           [label |-> label, of |-> l, value |-> value] \in Parameter,
           TermComputed(l, label, value)
    PROVE  /\ Emplaced(l) /\ Starts(l)
           /\ legs'[l].position = Old(l).position
<1> DEFINE e == EmplaceLeg(l)
           ls == WithTerm(e, l, label, value)
<1>1. /\ e \in [DOMAIN legs \cup {l} -> Leg] /\ l \in DOMAIN legs \cup {l}
      /\ \A k \in DOMAIN legs : k # l => e[k] = legs[k]
      /\ e[l].position = Old(l).position
      /\ e[l].market_quotes = Old(l).market_quotes
      /\ e[l].exec_quotes = Old(l).exec_quotes
      /\ e[l].execution_mode = Old(l).execution_mode
      /\ e[l].tick_size = tick_size[LegMarket[l]]
  BY LegEmplaced, LegEmplacedKeeps, EmplaceKeepsOthers DEF Old
<1>2. /\ DOMAIN ls = DOMAIN legs \cup {l}
      /\ \A k \in DOMAIN legs : k # l => ls[k] = e[k]
      /\ ls[l].tick_size = e[l].tick_size
      /\ ls[l].position = e[l].position
      /\ ls[l].market_quotes = e[l].market_quotes
      /\ ls[l].exec_quotes = e[l].exec_quotes
  <2>1. /\ DOMAIN ls = DOMAIN legs \cup {l}
        /\ \A k \in DOMAIN legs \cup {l} : Kept(ls[k], e[k])
        /\ \A k \in DOMAIN legs \cup {l} : k # l => ls[k] = e[k]
    BY TermOfEmplaced
  <2> HIDE DEF ls, e
  <2> QED BY <2>1 DEF Kept
<1> HIDE DEF e
<1>3. ModeKept(ls[l], e[l])
  BY <1>1, TermMode, Zenon
<1>4. legs' = ls /\ Starts(l)
  BY DEF TermComputed, Compute, Starts, e
<1> HIDE DEF ls
<1> QED BY <1>1, <1>2, <1>3, <1>4 DEF Emplaced, ModeKept

LEMMA ReportedEffect ==
    ASSUME TypeInv, NEW l \in Legs, Reported(l)
    PROVE  /\ Emplaced(l) /\ Starts(l)
           /\ legs'[l].position = Head(reports[l])
           /\ known /\ phase = "idle"
           /\ reports[l] # <<>> /\ reports' = [reports EXCEPT ![l] = Tail(@)]
           /\ UNCHANGED <<known, event, todo, tick_size, quoted, pos, downloading>>
<1> DEFINE e == EmplaceLeg(l)
<1>1. /\ Compute(l, [e EXCEPT ![l].position = Head(reports[l])])
      /\ known /\ phase = "idle"
      /\ reports[l] # <<>> /\ reports' = [reports EXCEPT ![l] = Tail(@)]
      /\ UNCHANGED <<known, event, todo, tick_size, quoted, pos, downloading>>
  BY DEF Reported, ExposureUpdate
<1>2. /\ e \in [DOMAIN legs \cup {l} -> Leg]
      /\ \A k \in DOMAIN legs : k # l => e[k] = legs[k]
      /\ e[l].market_quotes = Old(l).market_quotes
      /\ e[l].exec_quotes = Old(l).exec_quotes
      /\ e[l].execution_mode = Old(l).execution_mode
      /\ e[l].tick_size = tick_size[LegMarket[l]]
  BY LegEmplaced, LegEmplacedKeeps, EmplaceKeepsOthers DEF Old
<1> HIDE DEF e
<1>3. legs' = [e EXCEPT ![l].position = Head(reports[l])] /\ Starts(l)
  BY <1>1 DEF Compute, Starts
<1>4. Emplaced(l) /\ legs'[l].position = Head(reports[l])
  BY <1>2, <1>3 DEF Emplaced, Leg, ModeKept
<1> QED BY <1>1, <1>3, <1>4

LEMMA VisitEffect ==
    ASSUME TypeInv, Visit
    PROVE  \E l \in todo :
              /\ l \in DOMAIN legs /\ DOMAIN legs' = DOMAIN legs
              /\ Starts(l) /\ phase = "visit" /\ todo' = todo \ {l}
              /\ \A k \in DOMAIN legs : k # l => legs'[k] = legs[k]
              /\ legs'[l].exec_quotes = legs[l].exec_quotes
              /\ legs'[l].position = legs[l].position
              /\ ModeKept(legs'[l], legs[l])
              /\ legs'[l].market_quotes = IF event.kind = "quotes" THEN event.quotes
                                          ELSE legs[l].market_quotes
              /\ legs'[l].tick_size = IF event.kind = "download" THEN tick_size[LegMarket[l]]
                                      ELSE legs[l].tick_size
              /\ UNCHANGED <<known, event, tick_size, quoted>>
<1>1. PICK l \in todo : todo' = todo \ {l} /\ Compute(l, Taken(l))
  BY DEF Visit
<1>2. /\ phase = "visit" /\ legs' = Taken(l) /\ Starts(l)
      /\ UNCHANGED <<known, event, tick_size, quoted>>
  BY <1>1 DEF Visit, Compute, Starts
<1>3. /\ l \in DOMAIN legs /\ legs \in [DOMAIN legs -> Leg]
      /\ event.kind \in {"parameter", "quotes", "download"}
  BY DEF TypeInv, TypeOK, EventOK
<1>4. CASE event.kind = "parameter"
  <2>1. legs' = WithTerm(legs, l, event.label, event.value)
    BY <1>2, <1>4 DEF Taken
  <2>2. ModeKept(legs'[l], legs[l])
    <3>1. [label |-> event.label, of |-> "", value |-> event.value] \in Parameter
      BY <1>4 DEF TypeInv, EventOK
    <3>2. ModeKept(WithTerm(legs, l, event.label, event.value)[l], legs[l])
      BY <1>3, <3>1, TermMode, Zenon
    <3> QED BY <2>1, <3>2
  <2>3. /\ DOMAIN legs' = DOMAIN legs
        /\ \A k \in DOMAIN legs : k # l => legs'[k] = legs[k]
        /\ legs'[l].exec_quotes = legs[l].exec_quotes
        /\ legs'[l].position = legs[l].position
        /\ legs'[l].market_quotes = legs[l].market_quotes
        /\ legs'[l].tick_size = legs[l].tick_size
    <3>1. /\ DOMAIN legs' = DOMAIN legs
          /\ Kept(legs'[l], legs[l])
          /\ \A k \in DOMAIN legs : k # l => legs'[k] = legs[k]
      BY <1>3, <2>1, TermKeeps
    <3> QED BY <3>1 DEF Kept
  <2> QED BY <1>1, <1>2, <1>3, <1>4, <2>2, <2>3
<1>5. CASE event.kind = "quotes"
  <2>1. legs' = [legs EXCEPT ![l].market_quotes = event.quotes]
    BY <1>2, <1>5 DEF Taken
  <2> QED BY <1>1, <1>2, <1>3, <1>5, <2>1 DEF Leg, ModeKept
<1>6. CASE event.kind = "download"
  <2>1. legs' = [legs EXCEPT ![l].tick_size = tick_size[LegMarket[l]]]
    BY <1>2, <1>6 DEF Taken
  <2> QED BY <1>1, <1>2, <1>3, <1>6, <2>1 DEF Leg, ModeKept
<1> QED BY <1>3, <1>4, <1>5, <1>6
-----------------------------------------------------------------------------
LEMMA SafeStill ==
    ASSUME SafeInv, phase' # "abort", known \in BOOLEAN,
           known' = TRUE \/ (known' = known /\ phase' = phase),
           UNCHANGED <<legs, event, todo, tick_size, downloading>>
    PROVE  SafeInv'
BY DEF SafeInv, DownloadInv, ModeInv

LEMMA SafeEmplaced ==
    ASSUME TypeInv, SafeInv, NEW l, Emplaced(l), known, known', event.kind = "none",
           phase' # "abort",
           UNCHANGED <<event, todo, tick_size, downloading>>
    PROVE  SafeInv'
<1>1. /\ l \in Legs /\ DOMAIN legs' = DOMAIN legs \cup {l}
      /\ \A k \in DOMAIN legs : k # l => legs'[k] = legs[k]
      /\ legs'[l].market_quotes = Old(l).market_quotes
      /\ legs'[l].tick_size = tick_size[LegMarket[l]]
      /\ ModeKept(legs'[l], Old(l))
  BY DEF Emplaced
<1>2. LegMarket[l] \in Markets
  BY <1>1, LqsAssumption
<1>3. DownloadInv'
  <2>1. downloading => ~TwoSided(legs'[l].market_quotes)
    BY <1>1 DEF SafeInv, DownloadInv, Old, NewLeg, TwoSided
  <2>2. ~downloading => legs'[l].tick_size = 1
    BY <1>1, <1>2 DEF SafeInv, DownloadInv
  <2> QED BY <1>1, <2>1, <2>2 DEF SafeInv, DownloadInv
<1>4. ModeInv'
  <2>1. legs'[l].execution_mode # "UNDEFINED"
    BY <1>1 DEF SafeInv, ModeInv, Old, NewLeg, ModeKept
  <2>2. Uncrossed(legs'[l].market_quotes)
    BY <1>1 DEF SafeInv, ModeInv, Old, NewLeg, Uncrossed, TwoSided
  <2> QED BY <1>1, <2>1, <2>2 DEF SafeInv, ModeInv
<1> QED BY <1>3, <1>4 DEF SafeInv

(* A leg with quotes knows its tick size: this is why no assert fails.     *)
LEMMA NoAssertFails ==
    ASSUME TypeInv, SafeInv, NEW l \in DOMAIN legs
    PROVE  ~AssertFails(legs[l])
<1> SUFFICES ASSUME MayQuote(legs[l]) PROVE legs[l].tick_size = 1
  BY DEF AssertFails, SafeInv, ModeInv
<1>1. TwoSided(legs[l].market_quotes)
  BY DEF MayQuote
<1> QED BY <1>1 DEF SafeInv, DownloadInv

LEMMA SafeQuoteLeg ==
    ASSUME TypeInv, SafeInv, QuoteLeg, UNCHANGED outVars
    PROVE  SafeInv'
<1>1. /\ phase = "quote" /\ at \in 1..Len(Affected) /\ Affected[at] \in DOMAIN legs
  BY AffectedTyped DEF QuoteLeg, TypeInv, TypeOK
<1>2. phase' = "quote"
  BY <1>1, NoAssertFails DEF QuoteLeg
<1>3. PICK l \in DOMAIN legs :
          /\ legs' = [legs EXCEPT ![l].exec_quotes = ExecQuotes(legs[l])]
          /\ UNCHANGED <<known, tick_size, event, todo>>
  BY <1>2, QuoteStep
<1>4. /\ DOMAIN legs' = DOMAIN legs
      /\ \A k \in DOMAIN legs : /\ legs'[k].market_quotes = legs[k].market_quotes
                                /\ legs'[k].tick_size = legs[k].tick_size
                                /\ legs'[k].execution_mode = legs[k].execution_mode
  BY <1>3 DEF TypeInv, TypeOK, Leg
<1>5. known /\ known' /\ downloading' = downloading
  BY <1>1, <1>3 DEF SafeInv, DownloadInv, outVars
<1> QED BY <1>2, <1>3, <1>4, <1>5 DEF SafeInv, DownloadInv, ModeInv

LEMMA SafeVisit ==
    ASSUME TypeInv, SafeInv, Visit, UNCHANGED outVars
    PROVE  SafeInv'
<1>1. PICK l \in todo :
          /\ l \in DOMAIN legs /\ DOMAIN legs' = DOMAIN legs
          /\ Starts(l) /\ phase = "visit" /\ todo' = todo \ {l}
          /\ \A k \in DOMAIN legs : k # l => legs'[k] = legs[k]
          /\ ModeKept(legs'[l], legs[l])
          /\ legs'[l].market_quotes = IF event.kind = "quotes" THEN event.quotes
                                      ELSE legs[l].market_quotes
          /\ legs'[l].tick_size = IF event.kind = "download" THEN tick_size[LegMarket[l]]
                                  ELSE legs[l].tick_size
          /\ UNCHANGED <<known, event, tick_size, quoted>>
  BY VisitEffect
<1>2. downloading' = downloading /\ known /\ phase' # "abort"
  BY <1>1 DEF outVars, Starts, SafeInv, DownloadInv
<1>3. LegMarket[l] \in Markets
  BY <1>1, LqsAssumption DEF TypeInv, TypeOK
<1>4. DownloadInv'
  <2>1. downloading \/ event.kind = "download" => ~TwoSided(legs'[l].market_quotes)
    BY <1>1 DEF SafeInv, DownloadInv
  <2>2. ~downloading => legs'[l].tick_size = 1
    BY <1>1, <1>3 DEF SafeInv, DownloadInv
  <2> QED BY <1>1, <1>2, <2>1, <2>2 DEF SafeInv, DownloadInv
<1>5. ModeInv'
  <2>1. legs'[l].execution_mode # "UNDEFINED"
    BY <1>1 DEF SafeInv, ModeInv, ModeKept
  <2>2. Uncrossed(legs'[l].market_quotes)
    BY <1>1 DEF SafeInv, ModeInv, TypeInv, EventOK
  <2> QED BY <1>1, <2>1, <2>2 DEF SafeInv, ModeInv
<1> QED BY <1>2, <1>4, <1>5 DEF SafeInv

LEMMA SafeVisited ==
    ASSUME TypeInv, SafeInv, Visited, UNCHANGED outVars
    PROVE  SafeInv'
<1>1. /\ phase = "visit" /\ todo = {} /\ event'.kind = "none"
      /\ phase' \in {"idle", "parameters"}
      /\ UNCHANGED <<known, legs, tick_size, todo, downloading>>
  BY DEF Visited, AfterParameter, outVars
<1> QED BY <1>1 DEF SafeInv, DownloadInv, ModeInv

LEMMA SafeParameter ==
    ASSUME TypeInv, SafeInv, OneParameter, UNCHANGED outVars
    PROVE  SafeInv'
<1> DEFINE p == Head(inbox)
<1>1. /\ known /\ known' /\ event.kind = "none" /\ known \in BOOLEAN /\ known' = known
      /\ UNCHANGED <<tick_size, downloading>>
  BY NextParameter DEF SafeInv, DownloadInv, outVars, TypeInv, TypeOK
<1>2. CASE UnderlyingParameter(p)
  <2>1. PICK l \in Legs : /\ Emplaced(l) /\ phase' \in {"idle", "parameters"}
                          /\ UNCHANGED <<event, todo>>
    BY <1>2, UnderlyingParameterEffect
  <2> QED BY <1>1, <2>1, SafeEmplaced
<1>3. CASE EnabledParameter(p)
  <2>1. /\ phase' \in {"idle", "parameters"} /\ UNCHANGED <<legs, event, todo>>
    BY <1>3, NextParameter DEF EnabledParameter
  <2> QED BY <1>1, <2>1, SafeStill
<1>4. CASE DeltaParameter(p)
  <2>1. /\ phase' \in {"idle", "parameters"} /\ UNCHANGED <<legs, event, todo>>
    BY <1>4, NextParameter DEF DeltaParameter
  <2> QED BY <1>1, <2>1, SafeStill
<1>5. CASE LegParameter(p) /\ p.of # ""
  <2>1. PICK l \in Legs : \E label, value :
            /\ [label |-> label, of |-> l, value |-> value] \in Parameter
            /\ TermComputed(l, label, value)
    BY <1>5, TermForLeg
  <2>2. Emplaced(l) /\ Starts(l)
    BY <2>1, TermComputedEffect
  <2>3. UNCHANGED <<event, todo>> /\ phase' # "abort"
    BY <2>1, <2>2 DEF TermComputed, Starts
  <2> QED BY <1>1, <2>2, <2>3, SafeEmplaced
<1>6. CASE LegParameter(p) /\ p.of = ""
  <2>1. /\ event' = [kind |-> "parameter", label |-> p.label, value |-> p.value]
        /\ phase' = "visit" /\ UNCHANGED legs
    BY <1>6 DEF LegParameter
  <2>2. event'.kind = "parameter"
    BY <2>1
  <2> QED BY <1>1, <2>1, <2>2 DEF SafeInv, DownloadInv, ModeInv
<1> QED BY <1>2, <1>3, <1>4, <1>5, <1>6 DEF OneParameter

LEMMA SafeQuotes ==
    ASSUME TypeInv, SafeInv, NEW m, NEW q, Quotes(m, q), ~downloading, ~downloading'
    PROVE  SafeInv'
<1>1. /\ phase = "idle" /\ UNCHANGED <<known, legs, tick_size>>
      /\ \/ known /\ event'.kind = "quotes" /\ phase' = "visit"
         \/ UNCHANGED <<event, todo, phase>>
  BY DEF Quotes, Broadcast, stateVars
<1>2. event.kind = "none"
  BY <1>1 DEF TypeInv, EventOK
<1> QED BY <1>1, <1>2 DEF SafeInv, DownloadInv, ModeInv

LEMMA SafeDownloaded ==
    ASSUME TypeInv, SafeInv, Downloaded
    PROVE  SafeInv'
<1>1. /\ phase = "idle" /\ downloading /\ ~downloading'
      /\ UNCHANGED <<known, legs, tick_size>>
      /\ \A m \in Markets : tick_size[m] # 0
  BY DEF Downloaded, DownloadEnd, Broadcast, stateVars
<1>2. /\ known => event'.kind = "download" /\ todo' = DOMAIN legs /\ phase' = "visit"
      /\ ~known => UNCHANGED <<event, todo, phase>>
  BY DEF Downloaded, DownloadEnd, Broadcast
<1>3. \A m \in Markets : tick_size[m] = 1
  BY <1>1 DEF TypeInv, TicksOK
<1>4. ~known => DOMAIN legs = {}
  BY DEF SafeInv, DownloadInv
<1> QED BY <1>1, <1>2, <1>3, <1>4 DEF SafeInv, DownloadInv, ModeInv

LEMMA SafeInit == TradingInit => SafeInv
<1> SUFFICES ASSUME TradingInit PROVE SafeInv
  OBVIOUS
<1>1. legs = <<>> /\ phase = "idle" /\ event.kind = "none" /\ downloading = TRUE
  BY DEF TradingInit, Init
<1>2. DOMAIN legs = {}
  BY <1>1
<1> QED BY <1>1, <1>2 DEF SafeInv, DownloadInv, ModeInv

LEMMA SafeStep == TypeInv /\ SafeInv /\ [Next]_vars => SafeInv'
<1> SUFFICES ASSUME TypeInv, SafeInv, [Next]_vars PROVE SafeInv'
  OBVIOUS
<1> known \in BOOLEAN
  BY DEF TypeInv, TypeOK
<1>1. CASE LqsWalks
  <2> UNCHANGED outVars /\ UNCHANGED downloading
    BY <1>1 DEF LqsWalks, outVars
  <2>1. CASE SumLeg \/ Summed \/ Quoted
    <3>1. /\ phase # "idle" /\ phase' # "abort"
          /\ UNCHANGED <<known, legs, event, todo, tick_size>>
      BY <2>1 DEF SumLeg, Summed, Quoted, stateVars
    <3> QED BY <3>1, SafeStill DEF SafeInv, DownloadInv
  <2>2. CASE QuoteLeg
    BY <2>2, SafeQuoteLeg
  <2>3. CASE Visit
    BY <2>3, SafeVisit
  <2>4. CASE Visited
    BY <2>4, SafeVisited
  <2>5. CASE OneParameter
    BY <2>5, SafeParameter
  <2> QED BY <1>1, <2>1, <2>2, <2>3, <2>4, <2>5 DEF LqsWalks, Walk
<1>2. CASE Configured \/ Reconfigured
  <2>1. PICK ps : ParametersUpdate(ps) /\ UNCHANGED downloading
    BY <1>2 DEF Configured, Reconfigured, outVars
  <2>2. /\ known' = TRUE /\ phase' = "parameters"
        /\ UNCHANGED <<legs, event, todo, tick_size>>
    BY <2>1 DEF ParametersUpdate
  <2> QED BY <2>1, <2>2, SafeStill
<1>3. CASE TickSizes
  <2>1. downloading /\ UNCHANGED <<downloading, known, legs, event, todo, phase>>
    BY <1>3 DEF TickSizes, ReferenceData, walkVars, outVars
  <2> QED BY <2>1 DEF SafeInv, DownloadInv, ModeInv
<1>4. CASE Downloaded
  BY <1>4, SafeDownloaded
<1>5. ASSUME NEW m \in Markets, QuotesAgain(m) PROVE SafeInv'
  BY <1>5, SafeQuotes DEF QuotesAgain, outVars
<1>6. CASE MarketMoves
  BY <1>6, SafeQuotes DEF MarketMoves
<1>7. ASSUME NEW l \in Legs, Trades(l) PROVE SafeInv'
  <2>1. CASE Reported(l)
    <3>1. /\ Emplaced(l) /\ Starts(l) /\ known /\ phase = "idle"
          /\ UNCHANGED <<known, event, todo, tick_size, downloading>>
      BY <2>1, ReportedEffect
    <3>2. event.kind = "none"
      BY <3>1 DEF TypeInv, EventOK
    <3> QED BY <3>1, <3>2, SafeEmplaced DEF Starts
  <2>2. CASE Refilled(l) \/ \E s \in Sides : Filled(l, s)
    <3>1. UNCHANGED <<lqsVars, downloading>>
      BY <2>2 DEF Refilled, Filled
    <3> QED BY <3>1, SafeStill DEF lqsVars, stateVars, walkVars, SafeInv
  <2> QED BY <1>7, <2>1, <2>2 DEF Trades
<1>8. CASE UNCHANGED vars
  BY <1>8, SafeStill DEF vars, lqsVars, stateVars, walkVars, outVars, SafeInv
<1> QED BY <1>1, <1>2, <1>3, <1>4, <1>5, <1>6, <1>7, <1>8 DEF Next

LEMMA AlwaysSafe == Spec => []SafeInv
BY SafeInit, SafeStep, AlwaysTyped, PTL DEF Spec

(* No assert of leg.compute fails, whatever the order of parameters,       *)
(* reference data, the end of the download, quotes, exposures and fills:   *)
(* a leg that has quotes has been given its tick size before.              *)
(* (leg.cpp compute; strategy.cpp emplace_leg, DownloadEnd)                *)
THEOREM AssertsHold == Spec => []QuotesNeverAbort
<1>1. SafeInv => QuotesNeverAbort
  BY DEF SafeInv, QuotesNeverAbort
<1> QED BY <1>1, AlwaysSafe, PTL
-----------------------------------------------------------------------------
LEMMA VolumeBound ==
    ASSUME NEW a \in Nat, NEW b \in Int, NEW room \in Nat, NEW d \in Nat \ {0}
    PROVE  Lesser(Lesser(a, Greater(b, 0)), room \div d) <= Greater(b, 0)
BY DEF Lesser, Greater

(* What leg.compute makes of a leg.                                        *)
LEMMA ComputedIsCurrent ==
    ASSUME TypeInv, NEW leg \in Leg, leg.tick_size \in {0, 1}, ~AssertFails(leg),
           Uncrossed(leg.market_quotes)
    PROVE  LET q == ExecQuotes(leg)
               m == leg.market_quotes
           IN  /\ q.buy.volume <= Greater(-leg.position, 0)
               /\ q.sell.volume <= Greater(leg.position, 0)
               /\ leg.execution_mode \in {"JOIN", "JOIN_PLUS"} =>
                     /\ q.buy.volume > 0 => q.buy.price < m.ask
                     /\ q.sell.volume > 0 => q.sell.price > m.bid
<1>1. leg.position \in Int /\ leg.market_quotes \in BestPrices
  BY DEF Leg
<1>2. CASE ~MayQuote(leg)
  <2>1. ExecQuotes(leg).buy.volume = 0 /\ ExecQuotes(leg).sell.volume = 0
    BY <1>2 DEF ExecQuotes, NoQuotes, NoQuote
  <2> QED BY <1>1, <2>1 DEF Greater
<1>3. CASE MayQuote(leg)
  <2> DEFINE q == ExecQuotes(leg)
  <2>1. /\ q.buy.volume = BuyVolume(leg) /\ q.sell.volume = SellVolume(leg)
        /\ BuyVolume(leg) > 0 => q.buy.price = BuyPrice(leg)
        /\ SellVolume(leg) > 0 => q.sell.price = SellPrice(leg)
    BY <1>3 DEF ExecQuotes, Priced
  <2>2. /\ BuyVolume(leg) <= Greater(-leg.position, 0)
        /\ SellVolume(leg) <= Greater(leg.position, 0)
    <3>1. /\ leg.buy_volume \in Nat /\ leg.sell_volume \in Nat
          /\ -leg.position \in Int /\ leg.delta_by_volume \in Nat \ {0}
      BY DEF Leg
    <3> QED BY <1>1, <3>1, RoomTyped, VolumeBound DEF BuyVolume, SellVolume
  <2>3. /\ leg.market_quotes.bid \in Nat /\ leg.market_quotes.ask \in Nat
        /\ leg.market_quotes.bid < leg.market_quotes.ask
    BY <1>1, <1>3 DEF MayQuote, Uncrossed, BestPrices
  <2>4. leg.execution_mode \in {"JOIN", "JOIN_PLUS"} =>
            BuyPrice(leg) < leg.market_quotes.ask /\ SellPrice(leg) > leg.market_quotes.bid
    <3>1. CASE leg.execution_mode = "JOIN"
      BY <2>3, <3>1 DEF BuyPrice, SellPrice
    <3>2. CASE leg.execution_mode = "JOIN_PLUS"
      <4>1. leg.tick_size = 1
        BY <1>3, <3>2 DEF AssertFails
      <4> QED BY <2>3, <3>2, <4>1 DEF BuyPrice, SellPrice, Lesser, Greater
    <3> QED BY <3>1, <3>2
  <2> HIDE DEF q
  <2> QED BY <2>1, <2>2, <2>4 DEF q
<1> QED BY <1>2, <1>3

LEMMA NewIsCurrent == Current(NewLeg) /\ Withheld(NewLeg.exec_quotes)
BY DEF Current, NewLeg, NoQuotes, NoQuote, Withheld, Greater

(* Legs stay current that keep what Current is about.                      *)
LEMMA StaysCurrent ==
    ASSUME NEW old, NEW new, Current(old),
           new.exec_quotes = old.exec_quotes, new.market_quotes = old.market_quotes,
           new.position = old.position, new.execution_mode = old.execution_mode
    PROVE  Current(new)
BY DEF Current

LEMMA NothingPending ==
    ASSUME TypeInv, CurrentInv, phase \notin {"sum", "quote"}
    PROVE  \A l \in DOMAIN legs : Current(legs[l])
BY DEF CurrentInv, Pending

(* When the walk is over, the leg it was for has been computed.            *)
LEMMA ThisIsAffected ==
    ASSUME TypeInv, phase = "quote"
    PROVE  \E i \in 1..Len(Affected) : Affected[i] = this_leg
<1>1. this_leg \in DOMAIN legs
  BY DEF TypeInv, WalkOK
<1>2. CASE ~HasUnderlying
  <2>1. Affected = <<this_leg>>
    BY <1>2 DEF Affected
  <2> QED BY <2>1
<1>3. CASE HasUnderlying
  <2>1. legs[this_leg].underlying # NoUnderlying
    BY <1>3, LqsAssumption DEF HasUnderlying, TypeInv, TypeOK
  <2> QED BY <1>1, <1>3, <2>1 DEF TypeInv, RegisteredOK, Affected, ThisUnderlying
<1> QED BY <1>2, <1>3
-----------------------------------------------------------------------------
LEMMA TradeStill ==
    ASSUME TypeInv, CurrentInv, SentInv, phase \notin {"sum", "quote"},
           phase' \notin {"sum", "quote"}, UNCHANGED <<legs, quoted>>
    PROVE  CurrentInv' /\ SentInv'
<1>1. \A l \in DOMAIN legs : Current(legs[l])
  BY NothingPending
<1> QED BY <1>1 DEF CurrentInv, SentInv

LEMMA TradeEmplaced ==
    ASSUME TypeInv, CurrentInv, SentInv, NEW l, Emplaced(l), Starts(l),
           phase \notin {"sum", "quote"}, UNCHANGED quoted
    PROVE  CurrentInv' /\ SentInv'
<1>1. /\ DOMAIN legs' = DOMAIN legs \cup {l}
      /\ \A k \in DOMAIN legs : k # l => legs'[k] = legs[k]
      /\ legs'[l].exec_quotes = Old(l).exec_quotes
  BY DEF Emplaced
<1>2. Pending(l)'
  BY DEF Starts, Pending
<1>3. CurrentInv'
  BY <1>1, <1>2, NothingPending DEF CurrentInv
<1>4. Withheld(legs'[l].exec_quotes) \/ quoted[l] = legs'[l].exec_quotes
  BY <1>1, NewIsCurrent DEF SentInv, Old
<1> QED BY <1>1, <1>3, <1>4 DEF SentInv

LEMMA TradeVisit ==
    ASSUME TypeInv, CurrentInv, SentInv, Visit
    PROVE  CurrentInv' /\ SentInv'
<1>1. PICK l \in todo :
          /\ l \in DOMAIN legs /\ DOMAIN legs' = DOMAIN legs
          /\ Starts(l) /\ phase = "visit"
          /\ \A k \in DOMAIN legs : k # l => legs'[k] = legs[k]
          /\ legs'[l].exec_quotes = legs[l].exec_quotes
          /\ UNCHANGED quoted
  BY VisitEffect
<1>2. Pending(l)'
  BY <1>1 DEF Starts, Pending
<1>3. CurrentInv'
  BY <1>1, <1>2, NothingPending DEF CurrentInv
<1> QED BY <1>1, <1>3 DEF SentInv

LEMMA TradeWalk ==
    ASSUME TypeInv, CurrentInv, SentInv, SumLeg \/ Summed \/ Quoted
    PROVE  CurrentInv' /\ SentInv'
<1>1. UNCHANGED <<legs, quoted>>
  BY DEF SumLeg, Summed, Quoted, stateVars
<1>2. CurrentInv'
  <2>1. CASE SumLeg
    BY <1>1, <2>1 DEF SumLeg, CurrentInv, Pending
  <2>2. CASE Summed
    <3>1. phase = "sum" /\ phase' = "quote" /\ at' = 1 /\ this_leg' = this_leg
      BY <2>2 DEF Summed
    <3> QED BY <1>1, <3>1 DEF CurrentInv, Pending
  <2>3. CASE Quoted
    <3>1. phase = "quote" /\ at > Len(Affected) /\ phase' = "visit"
      BY <2>3 DEF Quoted
    <3>2. PICK i \in 1..Len(Affected) : Affected[i] = this_leg
      BY <3>1, ThisIsAffected
    <3>3. i \in 1..(at - 1)
      BY <3>1, AffectedTyped DEF TypeInv, TypeOK
    <3>4. \A l \in DOMAIN legs : ~Pending(l)
      BY <3>1, <3>2, <3>3 DEF Pending
    <3> QED BY <1>1, <3>4 DEF CurrentInv
  <2> QED BY <2>1, <2>2, <2>3
<1> QED BY <1>1, <1>2 DEF SentInv

LEMMA TradeQuoteLeg ==
    ASSUME TypeInv, SafeInv, CurrentInv, SentInv, QuoteLeg
    PROVE  CurrentInv' /\ SentInv'
<1>1. /\ phase = "quote" /\ at \in 1..Len(Affected) /\ Affected[at] \in DOMAIN legs
  BY AffectedTyped DEF QuoteLeg, TypeInv, TypeOK
<1>2. phase' = "quote"
  BY <1>1, NoAssertFails DEF QuoteLeg
<1>3. PICK l \in DOMAIN legs :
          LET q == ExecQuotes(legs[l])
          IN  /\ l = Affected[at] /\ ~AssertFails(legs[l])
              /\ legs' = [legs EXCEPT ![l].exec_quotes = q]
              /\ quoted' = IF Withheld(q) THEN quoted ELSE [quoted EXCEPT ![l] = q]
              /\ at' = at + 1
              /\ UNCHANGED <<underlyings, this_leg>>
  BY <1>2, QuoteStep
<1> DEFINE q == ExecQuotes(legs[l])
<1>4. /\ legs[l] \in Leg /\ legs[l].tick_size \in {0, 1} /\ Uncrossed(legs[l].market_quotes)
      /\ legs \in [DOMAIN legs -> Leg] /\ l \in Legs /\ quoted \in [Legs -> QuotePair]
  BY DEF TypeInv, TypeOK, TicksOK, SafeInv, ModeInv
<1>5. /\ q.buy.volume <= Greater(-legs[l].position, 0)
      /\ q.sell.volume <= Greater(legs[l].position, 0)
      /\ legs[l].execution_mode \in {"JOIN", "JOIN_PLUS"} =>
            /\ q.buy.volume > 0 => q.buy.price < legs[l].market_quotes.ask
            /\ q.sell.volume > 0 => q.sell.price > legs[l].market_quotes.bid
  BY <1>3, <1>4, ComputedIsCurrent
<1>6. /\ legs' = [legs EXCEPT ![l].exec_quotes = q]
      /\ quoted' = IF Withheld(q) THEN quoted ELSE [quoted EXCEPT ![l] = q]
  BY <1>3
<1> HIDE DEF q
<1>7. /\ DOMAIN legs' = DOMAIN legs
      /\ \A k \in DOMAIN legs : k # l => legs'[k] = legs[k]
      /\ \A k \in DOMAIN legs : legs'[k].underlying = legs[k].underlying
      /\ legs'[l].exec_quotes = q
      /\ legs'[l].position = legs[l].position
      /\ legs'[l].market_quotes = legs[l].market_quotes
      /\ legs'[l].execution_mode = legs[l].execution_mode
  BY <1>4, <1>6 DEF Leg
<1>8. Current(legs'[l])
  BY <1>5, <1>7 DEF Current
<1>9. ASSUME NEW k \in DOMAIN legs, k # l, Pending(k) PROVE Pending(k)'
  <2>1. k = this_leg /\ this_leg' = this_leg /\ \A j \in 1..(at - 1) : Affected[j] # k
    BY <1>1, <1>3, <1>9 DEF Pending
  <2>2. Affected' = Affected
    BY <1>3, <1>7, <2>1 DEF Affected, HasUnderlying, ThisUnderlying
  <2>3. \A j \in 1..at : Affected[j] # k
    BY <1>1, <1>3, <1>9, <2>1
  <2>4. at' - 1 = at
    BY <1>1, <1>3, AffectedTyped
  <2> QED BY <1>2, <2>1, <2>2, <2>3, <2>4 DEF Pending
<1>10. CurrentInv'
  BY <1>7, <1>8, <1>9 DEF CurrentInv
<1>11. SentInv'
  BY <1>4, <1>6, <1>7 DEF SentInv
<1> QED BY <1>10, <1>11

LEMMA TradeParameter ==
    ASSUME TypeInv, CurrentInv, SentInv, OneParameter
    PROVE  CurrentInv' /\ SentInv'
<1> DEFINE p == Head(inbox)
<1>1. phase = "parameters" /\ UNCHANGED quoted
  BY NextParameter
<1>2. CASE UnderlyingParameter(p)
  <2>1. PICK l \in Legs : /\ Emplaced(l)
                          /\ legs'[l].position = Old(l).position
                          /\ legs'[l].execution_mode = Old(l).execution_mode
                          /\ phase' \in {"idle", "parameters"}
    BY <1>2, UnderlyingParameterEffect
  <2>2. /\ DOMAIN legs' = DOMAIN legs \cup {l}
        /\ \A k \in DOMAIN legs : k # l => legs'[k] = legs[k]
        /\ legs'[l].exec_quotes = Old(l).exec_quotes
        /\ legs'[l].market_quotes = Old(l).market_quotes
    BY <2>1 DEF Emplaced
  <2>3. /\ Current(Old(l))
        /\ Withheld(Old(l).exec_quotes) \/ quoted[l] = Old(l).exec_quotes
    BY <1>1, NothingPending, NewIsCurrent DEF Old, SentInv
  <2>4. Current(legs'[l])
    BY <2>1, <2>2, <2>3, StaysCurrent
  <2>5. CurrentInv'
    BY <1>1, <2>2, <2>4, NothingPending DEF CurrentInv
  <2> QED BY <1>1, <2>2, <2>3, <2>5 DEF SentInv
<1>3. CASE EnabledParameter(p) \/ DeltaParameter(p)
  <2>1. phase' \in {"idle", "parameters"} /\ UNCHANGED legs
    BY <1>3, NextParameter DEF EnabledParameter, DeltaParameter
  <2> QED BY <1>1, <2>1, TradeStill
<1>4. CASE LegParameter(p) /\ p.of # ""
  <2>1. PICK l \in Legs : \E label, value :
            /\ [label |-> label, of |-> l, value |-> value] \in Parameter
            /\ TermComputed(l, label, value)
    BY <1>4, TermForLeg
  <2>2. Emplaced(l) /\ Starts(l)
    BY <2>1, TermComputedEffect
  <2> QED BY <1>1, <2>2, TradeEmplaced
<1>5. CASE LegParameter(p) /\ p.of = ""
  <2>1. phase' = "visit" /\ UNCHANGED legs
    BY <1>5 DEF LegParameter
  <2> QED BY <1>1, <2>1, TradeStill
<1> QED BY <1>2, <1>3, <1>4, <1>5 DEF OneParameter

LEMMA TradeInit == TradingInit => TradeInv
<1> SUFFICES ASSUME TradingInit PROVE TradeInv
  OBVIOUS
<1>1. DOMAIN legs = {}
  <2>1. legs = <<>>
    BY DEF TradingInit, Init
  <2> QED BY <2>1
<1>2. pos \in [Legs -> Int] /\ reports = [l \in Legs |-> <<pos[l]>>]
  BY TradingAssumption DEF TradingInit
<1>3. ReportInv
  BY <1>2 DEF ReportInv
<1> QED BY <1>1, <1>3 DEF TradeInv, CurrentInv, SentInv

LEMMA TargetsStep == TypeInv /\ SafeInv /\ CurrentInv /\ SentInv /\ [Next]_vars
                        => CurrentInv' /\ SentInv'
<1> SUFFICES ASSUME TypeInv, SafeInv, CurrentInv, SentInv, [Next]_vars
             PROVE  CurrentInv' /\ SentInv'
  OBVIOUS
<1>1. CASE LqsWalks
  <2>1. CASE Visited
    <3>1. /\ phase = "visit" /\ phase' \in {"idle", "parameters"}
          /\ UNCHANGED <<legs, quoted>>
      BY <2>1 DEF Visited, AfterParameter
    <3> QED BY <3>1, TradeStill
  <2> QED BY <1>1, <2>1, TradeWalk, TradeQuoteLeg, TradeVisit, TradeParameter
          DEF LqsWalks, Walk
<1>2. CASE Configured \/ Reconfigured
  <2>1. phase = "idle" /\ phase' = "parameters" /\ UNCHANGED <<legs, quoted>>
    BY <1>2 DEF Configured, Reconfigured, ParametersUpdate
  <2> QED BY <2>1, TradeStill
<1>3. CASE TickSizes
  <2>1. phase = "idle" /\ UNCHANGED <<legs, quoted, phase>>
    BY <1>3 DEF TickSizes, ReferenceData, walkVars
  <2> QED BY <2>1, TradeStill
<1>4. CASE Downloaded \/ MarketMoves \/ \E m \in Markets : QuotesAgain(m)
  <2>1. PICK e, receivers : Broadcast(e, receivers)
    BY <1>4 DEF Downloaded, DownloadEnd, MarketMoves, QuotesAgain, Quotes
  <2>2. phase = "idle" /\ phase' \in {"idle", "visit"} /\ UNCHANGED <<legs, quoted>>
    BY <2>1 DEF Broadcast, stateVars
  <2> QED BY <2>2, TradeStill
<1>5. ASSUME NEW l \in Legs, Trades(l) PROVE CurrentInv' /\ SentInv'
  <2>1. CASE Reported(l)
    BY <2>1, ReportedEffect, TradeEmplaced
  <2>2. CASE Refilled(l) \/ \E s \in Sides : Filled(l, s)
    <3>1. phase = "idle" /\ UNCHANGED <<legs, quoted, phase>>
      BY <2>2 DEF Refilled, Filled, lqsVars, stateVars, walkVars
    <3> QED BY <3>1, TradeStill
  <2> QED BY <1>5, <2>1, <2>2 DEF Trades
<1>6. CASE UNCHANGED vars
  <2>1. UNCHANGED <<legs, quoted, phase, at, this_leg, underlyings>>
    BY <1>6 DEF vars, lqsVars, stateVars, walkVars
  <2> QED BY <2>1 DEF CurrentInv, SentInv, Pending, Affected, HasUnderlying, ThisUnderlying
<1> QED BY <1>1, <1>2, <1>3, <1>4, <1>5, <1>6 DEF Next
-----------------------------------------------------------------------------
LEMMA ReportStill ==
    ASSUME ReportInv, UNCHANGED <<pos, reports>>, DOMAIN legs \subseteq DOMAIN legs',
           \A l \in DOMAIN legs : legs'[l].position = legs[l].position
    PROVE  ReportInv'
BY DEF ReportInv

LEMMA ReportReported ==
    ASSUME TypeInv, ReportInv, NEW l \in Legs, Reported(l)
    PROVE  ReportInv'
<1>1. /\ Emplaced(l) /\ legs'[l].position = Head(reports[l])
      /\ reports[l] # <<>> /\ reports' = [reports EXCEPT ![l] = Tail(@)]
      /\ UNCHANGED pos
  BY ReportedEffect
<1>2. /\ DOMAIN legs' = DOMAIN legs \cup {l}
      /\ \A k \in DOMAIN legs : k # l => legs'[k] = legs[k]
  BY <1>1 DEF Emplaced
<1>3. reports \in [Legs -> Seq(Int)] /\ reports[l] \in Seq(Int)
  BY DEF TypeInv, OutOK
<1>4. reports[l][Len(reports[l])] = pos[l]
  BY <1>1 DEF ReportInv
<1>5. reports'[l] = Tail(reports[l]) /\ \A k \in Legs : k # l => reports'[k] = reports[k]
  BY <1>1, <1>3
<1>6. CASE Tail(reports[l]) = <<>>
  <2>1. Head(reports[l]) = pos[l]
    <3> DEFINE r == reports[l]
    <3>1. r \in Seq(Int) /\ r # <<>>
      BY <1>1, <1>3
    <3> HIDE DEF r
    <3>2. Len(Tail(r)) = Len(r) - 1 /\ Len(r) \in Nat
      BY <3>1
    <3>3. Len(Tail(r)) = 0
      <4>1. Tail(r) = <<>>
        BY <1>6 DEF r
      <4>2. Len(<<>>) = 0
        OBVIOUS
      <4> QED BY <4>1, <4>2, Zenon
    <3>4. Len(r) = 1
      BY <3>2, <3>3
    <3>5. Head(r) = r[1]
      BY <3>1
    <3> QED BY <1>4, <3>4, <3>5 DEF r
  <2> QED BY <1>1, <1>2, <1>5, <1>6, <2>1 DEF ReportInv
<1>7. CASE Tail(reports[l]) # <<>>
  <2>1. Tail(reports[l])[Len(Tail(reports[l]))] = pos[l]
    BY <1>1, <1>3, <1>4, <1>7
  <2> QED BY <1>1, <1>2, <1>5, <1>7, <2>1 DEF ReportInv
<1> QED BY <1>6, <1>7

LEMMA ReportFilled ==
    ASSUME TypeInv, ReportInv, NEW l \in Legs, NEW s \in Sides, Filled(l, s)
    PROVE  ReportInv'
<1> DEFINE x == IF s = "buy" THEN pos[l] + 1 ELSE pos[l] - 1
<1>1. /\ pos' = [pos EXCEPT ![l] = x]
      /\ reports' = [reports EXCEPT ![l] = Append(@, x)]
      /\ UNCHANGED legs
  BY DEF Filled, lqsVars, stateVars
<1>2. /\ pos \in [Legs -> Int] /\ reports \in [Legs -> Seq(Int)]
      /\ reports[l] \in Seq(Int) /\ x \in Int
  BY DEF TypeInv, OutOK
<1> HIDE DEF x
<1>3. LET r == Append(reports[l], x) IN r # <<>> /\ r[Len(r)] = x
  BY <1>2
<1>4. /\ reports'[l] = Append(reports[l], x) /\ pos'[l] = x
      /\ \A k \in Legs : k # l => reports'[k] = reports[k] /\ pos'[k] = pos[k]
  BY <1>1, <1>2
<1> QED BY <1>1, <1>3, <1>4 DEF ReportInv

LEMMA ReportStep == TypeInv /\ SafeInv /\ ReportInv /\ [Next]_vars => ReportInv'
<1> SUFFICES ASSUME TypeInv, SafeInv, ReportInv, [Next]_vars PROVE ReportInv'
  OBVIOUS
<1>1. CASE LqsWalks
  <2>1. UNCHANGED <<pos, reports>>
    BY <1>1 DEF LqsWalks, outVars
  <2>2. /\ DOMAIN legs \subseteq DOMAIN legs'
        /\ \A l \in DOMAIN legs : legs'[l].position = legs[l].position
    <3>1. CASE SumLeg \/ Summed \/ Quoted \/ Visited
      BY <3>1 DEF SumLeg, Summed, Quoted, Visited, stateVars
    <3>2. CASE QuoteLeg
      <4>1. \/ UNCHANGED legs
            \/ \E l \in DOMAIN legs :
                  legs' = [legs EXCEPT ![l].exec_quotes = ExecQuotes(legs[l])]
        BY <3>2, QuoteStep DEF QuoteLeg
      <4> QED BY <4>1 DEF TypeInv, TypeOK, Leg
    <3>3. CASE Visit
      BY <3>3, VisitEffect
    <3>4. CASE OneParameter
      <4> DEFINE p == Head(inbox)
      <4>1. CASE UnderlyingParameter(p)
        <5>1. PICK l \in Legs : Emplaced(l) /\ legs'[l].position = Old(l).position
          BY <3>4, <4>1, UnderlyingParameterEffect
        <5> QED BY <5>1 DEF Emplaced, Old
      <4>2. CASE LegParameter(p) /\ p.of # ""
        <5>1. PICK l \in Legs : \E label, value :
                  /\ [label |-> label, of |-> l, value |-> value] \in Parameter
                  /\ TermComputed(l, label, value)
          BY <3>4, <4>2, TermForLeg
        <5>2. Emplaced(l) /\ legs'[l].position = Old(l).position
          BY <5>1, TermComputedEffect
        <5> QED BY <5>2 DEF Emplaced, Old
      <4>3. CASE EnabledParameter(p) \/ DeltaParameter(p) \/ (LegParameter(p) /\ p.of = "")
        <5>1. UNCHANGED legs
          BY <4>3 DEF EnabledParameter, DeltaParameter, LegParameter
        <5> QED BY <5>1
      <4> QED BY <3>4, <4>1, <4>2, <4>3 DEF OneParameter
    <3> QED BY <1>1, <3>1, <3>2, <3>3, <3>4 DEF LqsWalks, Walk
  <2> QED BY <2>1, <2>2, ReportStill
<1>2. ASSUME NEW l \in Legs, Trades(l) PROVE ReportInv'
  <2>1. CASE Refilled(l)
    <3>1. UNCHANGED <<legs, pos, reports>>
      BY <2>1 DEF Refilled, lqsVars, stateVars
    <3> QED BY <3>1, ReportStill
  <2> QED BY <1>2, <2>1, ReportReported, ReportFilled DEF Trades
<1>3. CASE \/ Configured \/ Reconfigured \/ TickSizes \/ Downloaded \/ MarketMoves
           \/ \E m \in Markets : QuotesAgain(m)
  <2>1. UNCHANGED <<legs, pos, reports>>
    BY <1>3 DEF Configured, Reconfigured, ParametersUpdate, TickSizes, ReferenceData, Downloaded,
       DownloadEnd, MarketMoves, QuotesAgain, Quotes, Broadcast, stateVars, outVars
  <2> QED BY <2>1, ReportStill
<1>4. CASE UNCHANGED vars
  BY <1>4, ReportStill DEF vars, lqsVars, stateVars, outVars
<1> QED BY <1>1, <1>2, <1>3, <1>4 DEF Next

LEMMA AlwaysTrading == Spec => []TradeInv
<1>1. TypeInv /\ SafeInv /\ TradeInv /\ [Next]_vars => TradeInv'
  BY TargetsStep, ReportStep DEF TradeInv
<1> QED BY <1>1, TradeInit, AlwaysTyped, AlwaysSafe, PTL DEF Spec

(* A leg that joins its side of the market rests there, whatever changed   *)
(* its mode, its tick size or its market since it was quoted.              *)
(* (leg.cpp compute, JOIN and JOIN_PLUS)                                   *)
THEOREM QuotesRest == Spec => []PassiveQuotesRest
<1>1. TypeInv /\ TradeInv => PassiveQuotesRest
  <2> SUFFICES ASSUME TypeInv, TradeInv, phase = "idle" PROVE PassiveQuotesRest
    BY DEF PassiveQuotesRest
  <2>1. \A l \in DOMAIN legs : Current(legs[l])
    BY NothingPending DEF TradeInv
  <2> QED BY <2>1 DEF PassiveQuotesRest, Current
<1> QED BY <1>1, AlwaysTyped, AlwaysTrading, PTL

(* Once an event has been handled and every fill of a leg is reported, the *)
(* order manager is asked to trade the leg towards zero only and never     *)
(* through it, unless the quotes were withheld.                            *)
(* (leg.cpp compute; pricer.cpp dispatch)                                  *)
THEOREM TargetsReduce == Spec => []TargetsReducePosition
<1>1. TypeInv /\ TradeInv => TargetsReducePosition
  <2> SUFFICES ASSUME TypeInv, TradeInv, phase = "idle", NEW l \in DOMAIN legs,
                      reports[l] = <<>>, ~Withheld(legs[l].exec_quotes)
               PROVE  /\ quoted[l].buy.volume <= Greater(-pos[l], 0)
                      /\ quoted[l].sell.volume <= Greater(pos[l], 0)
    BY DEF TargetsReducePosition, Withheld
  <2>1. Current(legs[l])
    BY NothingPending DEF TradeInv
  <2>2. quoted[l] = legs[l].exec_quotes
    BY DEF TradeInv, SentInv
  <2>3. legs[l].position = pos[l]
    BY DEF TradeInv, ReportInv, TypeInv, TypeOK
  <2> QED BY <2>1, <2>2, <2>3 DEF Current
<1> QED BY <1>1, AlwaysTyped, AlwaysTrading, PTL
-----------------------------------------------------------------------------
(* The legs of an underlying, in the order its delta is summed in.         *)
Terms(u) == [i \in 1..Len(u.legs) |-> Contribution(legs[u.legs[i]], u)]

(* The delta of this underlying adds up its first n terms, unless one of   *)
(* them is unknown.                                                        *)
AddsUp(n) ==
    ThisUnderlying.delta # NoDelta =>
        AddUpTo(Terms(ThisUnderlying), n, ThisUnderlying.delta)

(* The first walk over the legs adds them up; what it found is what the    *)
(* second walk computes the quotes from.                                   *)
DeltaInv ==
    /\ phase = "sum" => /\ at - 1 <= Len(ThisUnderlying.legs)
                        /\ AddsUp(at - 1)
    /\ phase = "quote" /\ HasUnderlying => AddsUp(Len(ThisUnderlying.legs))

LEMMA DeltaStarts ==
    ASSUME TypeInv, NEW l, NEW ls, Compute(l, ls)
    PROVE  DeltaInv'
<1> DEFINE u == ls[l].underlying
<1>1. legs' = ls /\ this_leg' = l /\ at' = 1
  BY DEF Compute
<1>2. CASE u \in DOMAIN underlyings
  <2>1. phase' = "sum" /\ underlyings' = [underlyings EXCEPT ![u].delta = 0]
    BY <1>2 DEF Compute
  <2>2. ThisUnderlying' = underlyings'[u]
    BY <1>1 DEF ThisUnderlying
  <2>3. underlyings \in [DOMAIN underlyings -> Underlying]
    BY DEF TypeInv, TypeOK
  <2>4. underlyings'[u].delta = 0 /\ underlyings'[u].legs = underlyings[u].legs
    BY <1>2, <2>1, <2>3 DEF Underlying
  <2>5. underlyings[u].legs \in Seq(Legs)
    BY <1>2, <2>3 DEF Underlying
  <2>6. AddsUp(0)'
    BY <2>2, <2>4, NoTerms DEF AddsUp
  <2>7. at' - 1 = 0 /\ Len(underlyings[u].legs) \in Nat
    BY <1>1, <2>5
  <2> HIDE DEF u
  <2> QED BY <2>1, <2>2, <2>4, <2>6, <2>7 DEF DeltaInv
<1>3. CASE u \notin DOMAIN underlyings
  <2>1. phase' = "quote" /\ underlyings' = underlyings
    BY <1>3 DEF Compute
  <2> QED BY <1>1, <1>3, <2>1 DEF DeltaInv, HasUnderlying
<1> QED BY <1>2, <1>3

LEMMA DeltaSum ==
    ASSUME TypeInv, DeltaInv, SumLeg
    PROVE  DeltaInv'
<1> DEFINE u == legs[this_leg].underlying
           d == underlyings[u].delta
           s == underlyings[u].legs
           t == Terms(underlyings[u])
<1>1. /\ phase = "sum" /\ phase' = "sum" /\ at \in Nat \ {0} /\ at <= Len(s)
      /\ at' = at + 1 /\ legs' = legs /\ this_leg' = this_leg
      /\ AddsUp(at - 1)
  BY DEF SumLeg, ThisUnderlying, TypeInv, TypeOK, DeltaInv
<1>2. /\ u \in DOMAIN underlyings /\ underlyings[u] \in Underlying
      /\ underlyings \in [DOMAIN underlyings -> Underlying]
      /\ s \in Seq(DOMAIN legs)
  BY <1>1 DEF TypeInv, TypeOK, WalkOK, RegisteredOK, HasUnderlying
<1>3. at \in 1..Len(s) /\ Len(s) \in Nat /\ s[at] \in DOMAIN legs
  BY <1>1, <1>2
<1>4. t[at] = Contribution(legs[s[at]], underlyings[u])
  BY <1>3 DEF Terms
<1>5. underlyings' = [underlyings EXCEPT ![u].delta = Plus(d, t[at])]
  BY <1>4 DEF SumLeg, ThisUnderlying
<1>6. /\ underlyings'[u].delta = Plus(d, t[at])
      /\ underlyings'[u].legs = s
      /\ underlyings'[u].market_quotes = underlyings[u].market_quotes
  BY <1>2, <1>5 DEF Underlying
<1>7. ThisUnderlying = underlyings[u] /\ ThisUnderlying' = underlyings'[u]
  BY <1>1 DEF ThisUnderlying
<1>8. Terms(ThisUnderlying)' = t
  BY <1>1, <1>6, <1>7 DEF Terms, Contribution
<1>9. t[at] \in Int \cup {NoDelta} /\ d \in Int \cup {NoDelta}
  <2>1. legs[s[at]] \in Leg
    BY <1>3 DEF TypeInv, TypeOK
  <2> QED BY <1>2, <1>4, <2>1, ContributionTyped DEF Underlying
<1> HIDE DEF t
<1>10. Plus(d, t[at]) # NoDelta => AddUpTo(t, at, Plus(d, t[at]))
  <2>1. SUFFICES ASSUME Plus(d, t[at]) # NoDelta
                 PROVE  AddUpTo(t, at, Plus(d, t[at]))
    OBVIOUS
  <2>2. d # NoDelta /\ t[at] \in Int /\ Plus(d, t[at]) = d + t[at]
    BY <1>9, <2>1 DEF Plus
  <2> HIDE DEF d
  <2>3. AddUpTo(t, at - 1, d)
    BY <1>1, <1>7, <2>2 DEF AddsUp, d, t
  <2>4. at - 1 \in Nat /\ (at - 1) + 1 = at
    BY <1>3
  <2>5. AddUpTo(t, (at - 1) + 1, d + t[(at - 1) + 1])
    BY <2>2, <2>3, <2>4, OneMoreTerm
  <2> QED BY <2>2, <2>4, <2>5
<1>11. at' - 1 = at
  BY <1>1
<1>12. AddsUp(at - 1)'
  <2>1. ThisUnderlying'.delta = Plus(d, t[at])
    BY <1>6, <1>7
  <2> HIDE DEF d
  <2> QED BY <1>8, <1>10, <1>11, <2>1 DEF AddsUp
<1>13. at' - 1 <= Len(ThisUnderlying'.legs)
  BY <1>1, <1>6, <1>7, <1>11
<1> QED BY <1>1, <1>12, <1>13 DEF DeltaInv

LEMMA DeltaSummed ==
    ASSUME TypeInv, DeltaInv, Summed
    PROVE  DeltaInv'
<1>1. /\ phase = "sum" /\ phase' = "quote" /\ at > Len(ThisUnderlying.legs)
      /\ UNCHANGED <<legs, underlyings, this_leg>>
  BY DEF Summed, stateVars
<1>2. ThisUnderlying' = ThisUnderlying
  BY <1>1 DEF ThisUnderlying
<1>3. at \in Nat /\ Len(ThisUnderlying.legs) \in Nat
  BY <1>1 DEF TypeInv, TypeOK, WalkOK, HasUnderlying, ThisUnderlying, RegisteredOK
<1>4. at - 1 = Len(ThisUnderlying.legs)
  BY <1>1, <1>3 DEF DeltaInv
<1> QED BY <1>1, <1>2, <1>4 DEF DeltaInv, AddsUp, Terms, Contribution

LEMMA DeltaQuote ==
    ASSUME TypeInv, SafeInv, DeltaInv, QuoteLeg
    PROVE  DeltaInv'
<1>1. phase = "quote" /\ at \in 1..Len(Affected) /\ Affected[at] \in DOMAIN legs
  BY AffectedTyped DEF QuoteLeg, TypeInv, TypeOK
<1>2. phase' = "quote"
  BY <1>1, NoAssertFails DEF QuoteLeg
<1>3. PICK l \in DOMAIN legs :
          /\ legs' = [legs EXCEPT ![l].exec_quotes = ExecQuotes(legs[l])]
          /\ UNCHANGED <<underlyings, this_leg>>
  BY <1>2, QuoteStep
<1>4. /\ DOMAIN legs' = DOMAIN legs
      /\ \A k \in DOMAIN legs : /\ legs'[k].underlying = legs[k].underlying
                                /\ legs'[k].contract_style = legs[k].contract_style
                                /\ legs'[k].delta_by_volume = legs[k].delta_by_volume
                                /\ legs'[k].position = legs[k].position
  BY <1>3 DEF TypeInv, TypeOK, Leg
<1>5. this_leg \in DOMAIN legs
  BY <1>1 DEF TypeInv, WalkOK
<1>6. HasUnderlying' = HasUnderlying /\ ThisUnderlying' = ThisUnderlying
  BY <1>3, <1>4, <1>5 DEF HasUnderlying, ThisUnderlying
<1> SUFFICES ASSUME HasUnderlying PROVE DeltaInv'
  BY <1>2, <1>6 DEF DeltaInv
<1> DEFINE u == ThisUnderlying
<1>7. \A i \in 1..Len(u.legs) : u.legs[i] \in DOMAIN legs
  BY DEF TypeInv, RegisteredOK, HasUnderlying, ThisUnderlying
<1> HIDE DEF u
<1>8. ASSUME NEW i \in 1..Len(u.legs)
      PROVE  Contribution(legs'[u.legs[i]], u) = Contribution(legs[u.legs[i]], u)
  BY <1>4, <1>7 DEF Contribution
<1>9. Terms(u)' = Terms(u)
  <2>1. u' = u
    BY <1>6 DEF u
  <2> QED BY <1>8, <2>1 DEF Terms, Contribution
<1>10. AddsUp(Len(u.legs))' = AddsUp(Len(u.legs))
  BY <1>6, <1>9 DEF AddsUp, u
<1> QED BY <1>1, <1>2, <1>6, <1>10 DEF DeltaInv, u

LEMMA DeltaStill ==
    ASSUME phase' \notin {"sum", "quote"}
    PROVE  DeltaInv'
BY DEF DeltaInv

LEMMA DeltaOneParameter ==
    ASSUME TypeInv, OneParameter
    PROVE  DeltaInv'
<1> DEFINE p == Head(inbox)
<1>1. CASE UnderlyingParameter(p) \/ EnabledParameter(p) \/ DeltaParameter(p)
  <2>1. phase' \in {"idle", "parameters"}
    BY <1>1 DEF UnderlyingParameter, EnabledParameter, DeltaParameter, AfterParameter
  <2> QED BY <2>1, DeltaStill
<1>2. CASE LegParameter(p) /\ p.of # ""
  BY <1>2, DeltaStarts DEF LegParameter
<1>3. CASE LegParameter(p) /\ p.of = ""
  <2>1. phase' = "visit"
    BY <1>3 DEF LegParameter
  <2> QED BY <2>1, DeltaStill
<1> QED BY <1>1, <1>2, <1>3 DEF OneParameter

LEMMA DeltaStep == TypeInv /\ SafeInv /\ DeltaInv /\ [Next]_vars => DeltaInv'
<1> SUFFICES ASSUME TypeInv, SafeInv, DeltaInv, [Next]_vars PROVE DeltaInv'
  OBVIOUS
<1>1. CASE LqsWalks
  <2>1. CASE Visited
    <3>1. phase' \in {"idle", "parameters"}
      BY <2>1 DEF Visited, AfterParameter
    <3> QED BY <3>1, DeltaStill
  <2>2. CASE Quoted
    BY <2>2, DeltaStill DEF Quoted
  <2>3. CASE Visit
    BY <2>3, DeltaStarts DEF Visit
  <2> QED BY <1>1, <2>1, <2>2, <2>3, DeltaSum, DeltaSummed, DeltaQuote, DeltaOneParameter
          DEF LqsWalks, Walk
<1>2. CASE Configured \/ Reconfigured
  <2>1. phase' = "parameters"
    BY <1>2 DEF Configured, Reconfigured, ParametersUpdate
  <2> QED BY <2>1, DeltaStill
<1>3. CASE TickSizes
  <2>1. phase = "idle" /\ phase' = phase
    BY <1>3 DEF TickSizes, ReferenceData, walkVars
  <2> QED BY <2>1, DeltaStill
<1>4. CASE Downloaded \/ MarketMoves \/ \E m \in Markets : QuotesAgain(m)
  <2>1. PICK e, receivers : Broadcast(e, receivers)
    BY <1>4 DEF Downloaded, DownloadEnd, MarketMoves, QuotesAgain, Quotes
  <2>2. phase' \in {"idle", "visit"}
    BY <2>1 DEF Broadcast
  <2> QED BY <2>2, DeltaStill
<1>5. ASSUME NEW l \in Legs, Trades(l) PROVE DeltaInv'
  <2>1. CASE Reported(l)
    BY <2>1, DeltaStarts DEF Reported, ExposureUpdate
  <2>2. CASE Refilled(l) \/ \E s \in Sides : Filled(l, s)
    <3>1. phase = "idle" /\ phase' = phase
      BY <2>2 DEF Refilled, Filled, lqsVars, walkVars
    <3> QED BY <3>1, DeltaStill
  <2> QED BY <1>5, <2>1, <2>2 DEF Trades
<1>6. CASE UNCHANGED vars
  <2>1. UNCHANGED <<legs, phase, at, this_leg, underlyings>>
    BY <1>6 DEF vars, lqsVars, stateVars, walkVars
  <2> QED BY <2>1 DEF DeltaInv, AddsUp, Terms, Contribution, HasUnderlying, ThisUnderlying
<1> QED BY <1>1, <1>2, <1>3, <1>4, <1>5, <1>6 DEF Next

LEMMA AlwaysDelta == Spec => []DeltaInv
<1>1. TradingInit => DeltaInv
  BY DEF TradingInit, Init, DeltaInv
<1> QED BY <1>1, DeltaStep, AlwaysTyped, AlwaysSafe, PTL DEF Spec

(* Only the dispatch of a leg gives the order manager targets.             *)
LEMMA QuotedByDispatch ==
    ASSUME TypeInv, [Next]_vars, quoted' # quoted
    PROVE  QuoteLeg
<1>1. ~QuoteLeg => ~LqsWalks
  <2>1. OneParameter => UNCHANGED quoted
    BY DEF OneParameter
  <2> QED BY <2>1 DEF LqsWalks, Walk, SumLeg, Summed, Quoted, Visit, Visited, stateVars
<1>2. CASE Configured \/ Reconfigured \/ TickSizes
  BY <1>2 DEF Configured, Reconfigured, ParametersUpdate, TickSizes, ReferenceData
<1>3. CASE Downloaded \/ MarketMoves \/ \E m \in Markets : QuotesAgain(m)
  <2>1. PICK e, receivers : Broadcast(e, receivers)
    BY <1>3 DEF Downloaded, DownloadEnd, MarketMoves, QuotesAgain, Quotes
  <2> QED BY <2>1 DEF Broadcast, stateVars
<1>4. ASSUME NEW l \in Legs, Trades(l) PROVE FALSE
  BY <1>4 DEF Trades, Reported, ExposureUpdate, Refilled, Filled, lqsVars, stateVars
<1>5. CASE UNCHANGED vars
  BY <1>5 DEF vars, lqsVars, stateVars
<1> QED BY <1>1, <1>2, <1>3, <1>4, <1>5 DEF Next, LqsWalks

(* A sequence that names each of its members once.                         *)
LEMMA NamedOnce ==
    ASSUME NEW T, NEW s \in Seq(T),
           Cardinality({s[i] : i \in DOMAIN s}) = Len(s)
    PROVE  /\ IsFiniteSet({s[i] : i \in DOMAIN s})
           /\ \A i, j \in 1..Len(s) : s[i] = s[j] => i = j
<1> DEFINE D == 1..Len(s)
           R == {s[i] : i \in DOMAIN s}
<1>1. DOMAIN s = D /\ Len(s) \in Nat
  OBVIOUS
<1>2. s \in Surjection(D, R)
  <2>1. s \in [D -> R] /\ \A y \in R : \E i \in D : s[i] = y
    <3>1. s \in [D -> T]
      OBVIOUS
    <3>2. \A i \in D : s[i] \in R
      BY <1>1
    <3> HIDE DEF D
    <3>3. s = [i \in D |-> s[i]]
      BY <3>1
    <3>4. s \in [D -> R]
      BY <3>2, <3>3
    <3>5. \A y \in R : \E i \in D : s[i] = y
      BY <1>1
    <3> QED BY <3>4, <3>5
  <2> QED BY <2>1 DEF Surjection
<1>3. IsFiniteSet(D) /\ Cardinality(D) = Len(s)
  <2> DEFINE n == Len(s)
  <2>1. n \in Nat
    BY <1>1
  <2> HIDE DEF n
  <2>2. n \in Int /\ 1 \in Int
    BY <2>1
  <2>3. IsFiniteSet(1..n) /\ Cardinality(1..n) = IF 1 > n THEN 0 ELSE n - 1 + 1
    BY <2>2, FS_Interval
  <2>4. Cardinality(1..n) = n
    BY <2>1, <2>3
  <2> QED BY <2>3, <2>4 DEF n
<1> HIDE DEF D, R
<1>4. IsFiniteSet(R) /\ (Cardinality(R) = Cardinality(D) <=> s \in Injection(D, R))
  BY <1>2, <1>3, FS_Surjection
<1>5. s \in Injection(D, R)
  BY <1>3, <1>4 DEF R
<1>6. \A i, j \in D : s[i] = s[j] => i = j
  BY <1>5 DEF Injection, IsInjective
<1> QED BY <1>4, <1>6 DEF D, R

(* The sum that DeltaOf takes is one that DataLemmas is about.             *)
LEMMA DeltaOfIsSum ==
    ASSUME NEW u, NEW F \in [Registered(u) -> Int], IsFiniteSet(Registered(u)),
           \A l \in Registered(u) : F[l] = Contribution(legs[l], underlyings[u])
    PROVE  \E sum : /\ IsSumOver(Registered(u), F, sum)
                    /\ DeltaOf(u) = sum[Registered(u)]
<1> DEFINE S == Registered(u)
           Added(f) == [s \in SUBSET S |->
                           IF s = {} THEN 0
                           ELSE Contribution(legs[Chosen(s)], underlyings[u])
                                    + f[s \ {Chosen(s)}]]
           sum == CHOOSE f : f = Added(f)
<1>1. DeltaOf(u) = sum[S]
  BY DEF DeltaOf, MapThenSumSet, MapThenFoldSet, Chosen
<1> HIDE DEF S
<1>2. ASSUME NEW f
      PROVE  Added(f) = [s \in SUBSET S |->
                            IF s = {} THEN 0 ELSE F[Chosen(s)] + f[s \ {Chosen(s)}]]
  <2>1. \A s \in SUBSET S : s # {} =>
            F[Chosen(s)] = Contribution(legs[Chosen(s)], underlyings[u])
    BY DEF Chosen, S
  <2> QED BY <2>1
<1> HIDE DEF Added
<1>3. \A f : f = Added(f) <=> IsSumOver(S, F, f)
  BY <1>2 DEF IsSumOver, S
<1>4. \E f : f = Added(f)
  BY <1>3, SumExists DEF S
<1>5. sum = Added(sum)
  BY <1>4
<1> HIDE DEF sum
<1> QED BY <1>1, <1>3, <1>5 DEF S

(* When the quotes are computed, the delta of the underlying is that of    *)
(* all its legs.                                                           *)
LEMMA DeltaIsThatOfLegs ==
    ASSUME TypeInv, DeltaInv, phase = "quote", HasUnderlying,
           NEW u, u = legs[this_leg].underlying, EachOnce(u),
           underlyings[u].delta # NoDelta
    PROVE  DeltaOf(u) = underlyings[u].delta
<1> DEFINE s == underlyings[u].legs
           d == underlyings[u].delta
           n == Len(s)
           t == Terms(underlyings[u])
           R == Registered(u)
           F == [l \in R |-> Contribution(legs[l], underlyings[u])]
<1>1. ThisUnderlying = underlyings[u] /\ s \in Seq(DOMAIN legs)
  BY DEF ThisUnderlying, HasUnderlying, TypeInv, RegisteredOK
<1>2. AddUpTo(t, n, d)
  BY <1>1 DEF DeltaInv, AddsUp
<1>3. n \in Nat /\ DOMAIN s = 1..n
  BY <1>1
<1>4. R = {s[i] : i \in 1..n} /\ R = {s[i] : i \in DOMAIN s}
  BY <1>3 DEF Registered
<1>5. IsFiniteSet(R) /\ \A i, j \in 1..n : s[i] = s[j] => i = j
  <2>1. Cardinality({s[i] : i \in DOMAIN s}) = Len(s)
    BY DEF EachOnce, Registered
  <2> HIDE DEF s, n, R
  <2>2. /\ IsFiniteSet({s[i] : i \in DOMAIN s})
        /\ \A i, j \in 1..Len(s) : s[i] = s[j] => i = j
    BY <1>1, <2>1, NamedOnce
  <2> QED BY <1>4, <2>2 DEF n
<1>6. \A i \in 1..n : t[i] \in Int
  BY <1>2 DEF AddUpTo
<1>7. \A i \in 1..n : s[i] \in R /\ t[i] = F[s[i]]
  BY <1>4 DEF Terms
<1>8. F \in [R -> Int]
  <2>1. ASSUME NEW l \in R PROVE F[l] \in Int
    <3>1. PICK i \in 1..n : l = s[i]
      BY <1>4
    <3> QED BY <1>6, <1>7, <3>1
  <2> QED BY <2>1
<1>9. \A l \in R : F[l] = Contribution(legs[l], underlyings[u])
  OBVIOUS
<1> HIDE DEF F, t, s, n, d
<1>10. PICK sum : IsSumOver(R, F, sum) /\ DeltaOf(u) = sum[R]
  BY <1>5, <1>8, <1>9, DeltaOfIsSum
<1>11. NamesOnce(s, n, R)
  <2>1. s = [i \in 1..n |-> s[i]]
    BY <1>1, <1>3
  <2>2. s \in [1..n -> R]
    BY <1>7, <2>1
  <2> QED BY <1>4, <1>5, <2>2 DEF NamesOnce
<1> HIDE DEF R
<1>12. sum[R] = d
  <2>1. \A i \in 1..n : t[i] = F[s[i]]
    BY <1>7
  <2> QED BY <1>2, <1>3, <1>10, <1>11, <2>1, SumOfTerms
<1> QED BY <1>10, <1>12 DEF d

(* A volume within the room for it, in lots, is within it in units.        *)
LEMMA WithinRoom ==
    ASSUME NEW room \in Nat, NEW lot \in Nat \ {0}, NEW v \in Nat,
           v <= room \div lot
    PROVE  v * lot <= room
<1> DEFINE k == room \div lot
<1>1. k \in Nat /\ room = k * lot + (room % lot) /\ room % lot \in Nat
  OBVIOUS
<1> HIDE DEF k
<1>2. k - v \in Nat
  BY <1>1 DEF k
<1>3. (k - v) * lot \in Nat /\ k * lot = (k - v) * lot + v * lot /\ v * lot \in Nat
  BY <1>1, <1>2
<1> QED BY <1>1, <1>3

(* What leg.compute grants, when the delta of the underlying is known.     *)
LEMMA ComputedWithinRoom ==
    ASSUME TypeInv, HasUnderlying, ThisUnderlying.delta # NoDelta,
           NEW leg \in Leg
    PROVE  LET q == ExecQuotes(leg)
               u == ThisUnderlying
               lot == leg.delta_by_volume
           IN  /\ q.buy.volume > 0 => u.delta + q.buy.volume * lot <= u.delta_max
               /\ q.sell.volume > 0 => u.delta - q.sell.volume * lot >= u.delta_min
<1> DEFINE lot == leg.delta_by_volume
           d == ThisUnderlying.delta
           v == BuyVolume(leg)
           w == SellVolume(leg)
           hi == ThisUnderlying.delta_max
           lo == ThisUnderlying.delta_min
<1>1. /\ d \in Int /\ hi \in Int /\ lo \in Int
  BY DEF TypeInv, TypeOK, HasUnderlying, ThisUnderlying, Underlying
<1>2. /\ lot \in Nat \ {0} /\ leg.buy_volume \in Nat /\ leg.sell_volume \in Nat
      /\ leg.position \in Int
  BY DEF Leg
<1>3. /\ DeltaPlus = Greater(hi - d, 0) /\ DeltaPlus \in Nat
      /\ DeltaMinus = Greater(d - lo, 0) /\ DeltaMinus \in Nat
  BY <1>1 DEF DeltaPlus, DeltaMinus, Greater
<1>4. /\ v \in Nat /\ v <= DeltaPlus \div lot
      /\ w \in Nat /\ w <= DeltaMinus \div lot
  <2>1. DeltaPlus \div lot \in Nat /\ DeltaMinus \div lot \in Nat
    BY <1>2, <1>3
  <2> QED BY <1>2, <2>1 DEF BuyVolume, SellVolume, Lesser, Greater
<1>5. /\ ExecQuotes(leg).buy.volume \in {0, v}
      /\ ExecQuotes(leg).sell.volume \in {0, w}
  BY DEF ExecQuotes, NoQuotes, NoQuote, Priced
<1> HIDE DEF lot, d, v, w, hi, lo
<1>6. v * lot <= DeltaPlus /\ w * lot <= DeltaMinus
  BY <1>2, <1>3, <1>4, WithinRoom
<1>7. v > 0 => d + v * lot <= hi
  <2>1. SUFFICES ASSUME v > 0 PROVE d + v * lot <= hi
    OBVIOUS
  <2>2. v * lot \in Nat /\ v * lot > 0
    BY <1>2, <1>4, <2>1
  <2> QED BY <1>1, <1>3, <1>6, <2>2 DEF Greater
<1>8. w > 0 => d - w * lot >= lo
  <2>1. SUFFICES ASSUME w > 0 PROVE d - w * lot >= lo
    OBVIOUS
  <2>2. w * lot \in Nat /\ w * lot > 0
    BY <1>2, <1>4, <2>1
  <2> QED BY <1>1, <1>3, <1>6, <2>2 DEF Greater
<1>9. ~(0 > 0)
  OBVIOUS
<1>10. /\ ExecQuotes(leg).buy.volume > 0 =>
              d + ExecQuotes(leg).buy.volume * lot <= hi
       /\ ExecQuotes(leg).sell.volume > 0 =>
              d - ExecQuotes(leg).sell.volume * lot >= lo
  BY <1>5, <1>7, <1>8, <1>9
<1> QED BY <1>10 DEF lot, d, hi, lo

(* A leg is asked to trade no more than what keeps the delta of its        *)
(* underlying, summed over all its legs, between delta_min and delta_max,  *)
(* were it the only leg to trade; with the exceptions of SendsWithinDelta: *)
(* linear legs, and underlyings a leg was registered with twice.           *)
(* (underlying.cpp compute; leg.cpp compute)                               *)
THEOREM WithinDelta == Spec => SendsWithinDelta
<1>1. ASSUME TypeInv, SafeInv, DeltaInv, [Next]_vars, NEW l \in Legs,
             quoted'[l] # quoted[l], NEW u, u = legs[l].underlying,
             u \in DOMAIN underlyings, u = legs[this_leg].underlying, EachOnce(u),
             underlyings[u].delta # NoDelta, NEW lot, lot = legs[l].delta_by_volume
      PROVE  /\ quoted'[l].buy.volume > 0 =>
                    DeltaOf(u) + quoted'[l].buy.volume * lot <= underlyings[u].delta_max
             /\ quoted'[l].sell.volume > 0 =>
                    DeltaOf(u) - quoted'[l].sell.volume * lot >= underlyings[u].delta_min
  <2>1. QuoteLeg
    BY <1>1, QuotedByDispatch
  <2>2. phase = "quote" /\ at \in 1..Len(Affected) /\ Affected[at] \in DOMAIN legs
    BY <2>1, AffectedTyped, <1>1 DEF QuoteLeg, TypeInv, TypeOK
  <2>3. phase' = "quote"
    BY <1>1, <2>1, <2>2, NoAssertFails DEF QuoteLeg
  <2>4. PICK k \in DOMAIN legs :
            LET q == ExecQuotes(legs[k])
            IN  quoted' = IF Withheld(q) THEN quoted ELSE [quoted EXCEPT ![k] = q]
    BY <1>1, <2>1, <2>3, QuoteStep
  <2>5. k = l /\ quoted'[l] = ExecQuotes(legs[l]) /\ legs[l] \in Leg
    BY <1>1, <2>4 DEF TypeInv, TypeOK
  <2>6. HasUnderlying /\ ThisUnderlying = underlyings[u]
    BY <1>1 DEF HasUnderlying, ThisUnderlying
  <2>7. DeltaOf(u) = underlyings[u].delta
    BY <1>1, <2>2, <2>6, DeltaIsThatOfLegs
  <2> QED BY <1>1, <2>5, <2>6, <2>7, ComputedWithinRoom
<1>2. TypeInv /\ SafeInv /\ DeltaInv /\ [Next]_vars =>
          [\A l \in Legs : quoted'[l] # quoted[l] =>
              LET u == legs[l].underlying
                  lot == legs[l].delta_by_volume
              IN  (/\ u \in DOMAIN underlyings
                   /\ u = legs[this_leg].underlying
                   /\ EachOnce(u)
                   /\ legs[l].contract_style # "LINEAR"
                   /\ underlyings[u].delta # NoDelta) =>
                  /\ quoted'[l].buy.volume > 0 =>
                        DeltaOf(u) + quoted'[l].buy.volume * lot <= underlyings[u].delta_max
                  /\ quoted'[l].sell.volume > 0 =>
                        DeltaOf(u) - quoted'[l].sell.volume * lot >= underlyings[u].delta_min]_vars
  BY <1>1
<1> QED BY <1>2, AlwaysTyped, AlwaysSafe, AlwaysDelta, PTL DEF Spec, SendsWithinDelta

===============================================================================
