------------------------------ MODULE CoreProof ------------------------------
(***************************************************************************)
(* Proofs about core::Strategy and the gateways that send it events, for   *)
(* every configuration, any gateways, markets and accounts.                *)
(***************************************************************************)
EXTENDS CoreProperties, FiniteSetTheorems, SequenceTheorems, DataLemmas, TLAPS

(* Induction for any set of naturals, as FoldLemmas asks for it.          *)
LEMMA SetInduction ==
    \A G \in SUBSET Nat :
        0 \in G /\ (\A k \in Nat : k \in G => k + 1 \in G) => G = Nat
BY Induction

(* The manager of the markets: the index and the table are inverse.        *)
MarketFields ==
    {"key", "mdata_gateway_id", "mdata_gateway_name", "best_quotes_source", "tick_size"}

MarketsOK(ms) ==
    /\ DOMAIN ms = {"last_market_id", "by_id", "ident"}
    /\ ms.last_market_id \in Nat
    /\ DOMAIN ms.by_id \subseteq 1..ms.last_market_id
    /\ \A k \in DOMAIN ms.ident :
         ms.ident[k] \in DOMAIN ms.by_id /\ ms.by_id[ms.ident[k]].key = k
    /\ \A id \in DOMAIN ms.by_id :
         /\ DOMAIN ms.by_id[id] = MarketFields
         /\ ms.by_id[id].key \in DOMAIN ms.ident
         /\ ms.ident[ms.by_id[id].key] = id

(* The name of a market's gateway is the file's, its number that of the    *)
(* gateway of this name.                                                   *)
MarketsNamed(ms) ==
    \A id \in DOMAIN ms.by_id :
        LET m == ms.by_id[id]
        IN  /\ m.mdata_gateway_name # "" => NamedByFile(m.key, m.mdata_gateway_name)
            /\ m.mdata_gateway_id # Unassigned =>
                 /\ m.mdata_gateway_id \in Sources
                 /\ SourceName[m.mdata_gateway_id] = m.mdata_gateway_name

MarketsUnassigned(ms) ==
    \A id \in DOMAIN ms.by_id : ms.by_id[id].mdata_gateway_id = Unassigned

(* ns has all markets of ms, under the numbers they have there.            *)
Grows(ms, ns) ==
    \A k \in DOMAIN ms.ident : k \in DOMAIN ns.ident /\ ns.ident[k] = ms.ident[k]

-----------------------------------------------------------------------------
LEMMA EmplaceFacts ==
    ASSUME NEW ms, MarketsOK(ms), NEW key
    PROVE  LET ns == emplace_market(ms, key)
           IN  /\ MarketsOK(ns)
               /\ Grows(ms, ns)
               /\ key \in DOMAIN ns.ident
               /\ \A id \in DOMAIN ns.by_id :
                    \/ id \in DOMAIN ms.by_id /\ ns.by_id[id] = ms.by_id[id]
                    \/ ns.by_id[id] = NewMarket(key)
<1> DEFINE ns == emplace_market(ms, key)
           id == ms.last_market_id + 1
<1>1. CASE key \in DOMAIN ms.ident
    <2>1. get_market_ident(ms, key) # NoMarket
        BY <1>1 DEF get_market_ident, Get, NoMarket, MarketsOK
    <2>2. ns = ms
        BY <2>1 DEF emplace_market
    <2>3. QED
        BY <1>1, <2>2 DEF Grows
<1>2. CASE key \notin DOMAIN ms.ident
    <2>1. ns = [last_market_id |-> id,
                by_id |-> Put(ms.by_id, id, NewMarket(key)),
                ident |-> Put(ms.ident, key, id)]
        BY <1>2 DEF emplace_market, get_market_ident, Get, NoMarket
    <2>2. /\ DOMAIN ns = {"last_market_id", "by_id", "ident"}
          /\ ns.last_market_id = id
          /\ ns.by_id = Put(ms.by_id, id, NewMarket(key))
          /\ ns.ident = Put(ms.ident, key, id)
        BY <2>1
    <2> HIDE DEF ns
    <2>3. /\ id \in Nat
          /\ id \notin DOMAIN ms.by_id
          /\ DOMAIN ms.by_id \cup {id} \subseteq 1..id
        BY DEF MarketsOK
    <2>4. /\ DOMAIN ns.by_id = DOMAIN ms.by_id \cup {id}
          /\ ns.by_id[id] = NewMarket(key)
          /\ \A i \in DOMAIN ms.by_id : ns.by_id[i] = ms.by_id[i]
        BY <2>2, <2>3 DEF Put
    <2>5. /\ DOMAIN ns.ident = DOMAIN ms.ident \cup {key}
          /\ ns.ident[key] = id
          /\ \A k \in DOMAIN ms.ident : ns.ident[k] = ms.ident[k]
        BY <1>2, <2>2 DEF Put
    <2>6. NewMarket(key).key = key /\ DOMAIN NewMarket(key) = MarketFields
        BY DEF NewMarket, MarketFields
    <2> HIDE DEF id
    <2>7. MarketsOK(ns)
        BY <1>2, <2>2, <2>3, <2>4, <2>5, <2>6 DEF MarketsOK
    <2>8. QED
        BY <2>4, <2>5, <2>7 DEF Grows, ns
<1>3. QED
    BY <1>1, <1>2

LEMMA GrowsFacts ==
    ASSUME NEW ms, MarketsOK(ms)
    PROVE  /\ Grows(ms, ms)
           /\ \A ns : MarketsOK(ns) /\ Grows(ms, ns) =>
                /\ DOMAIN ms.by_id \subseteq DOMAIN ns.by_id
                /\ \A id \in DOMAIN ms.by_id : ns.by_id[id].key = ms.by_id[id].key
           /\ \A ns, os : Grows(ms, ns) /\ Grows(ns, os) => Grows(ms, os)
BY DEF MarketsOK, Grows
(* The two managers have the same markets, which may differ in settings.   *)
SameIndex(ms, ns) ==
    /\ DOMAIN ns = DOMAIN ms
    /\ ns.last_market_id = ms.last_market_id
    /\ ns.ident = ms.ident
    /\ DOMAIN ns.by_id = DOMAIN ms.by_id
    /\ \A id \in DOMAIN ms.by_id :
         DOMAIN ns.by_id[id] = DOMAIN ms.by_id[id] /\ ns.by_id[id].key = ms.by_id[id].key

LEMMA SameIndexFacts ==
    ASSUME NEW ms, MarketsOK(ms), NEW ns, SameIndex(ms, ns)
    PROVE  MarketsOK(ns) /\ Grows(ms, ns)
BY DEF MarketsOK, SameIndex, Grows

LEMMA EmplaceNamed ==
    ASSUME NEW ms, MarketsOK(ms), NEW key
    PROVE  LET ns == emplace_market(ms, key)
           IN  /\ MarketsNamed(ms) => MarketsNamed(ns)
               /\ MarketsUnassigned(ms) => MarketsUnassigned(ns)
<1>1. /\ NewMarket(key).mdata_gateway_name = ""
      /\ NewMarket(key).mdata_gateway_id = Unassigned
    BY DEF NewMarket
<1> HIDE DEF Unassigned
<1>2. QED
    BY <1>1, EmplaceFacts DEF MarketsNamed, MarketsUnassigned

LEMMA AssignFacts ==
    ASSUME NEW ms, MarketsOK(ms), NEW source \in Sources
    PROVE  LET ns == AssignGateway(ms, source, SourceName[source])
           IN  /\ MarketsOK(ns)
               /\ Grows(ms, ns)
               /\ MarketsNamed(ms) => MarketsNamed(ns)
<1> DEFINE name == SourceName[source]
           ns == AssignGateway(ms, source, name)
<1>1. /\ DOMAIN ns = DOMAIN ms
      /\ ns.last_market_id = ms.last_market_id
      /\ ns.ident = ms.ident
      /\ ns.by_id = [id \in DOMAIN ms.by_id |->
                       IF ms.by_id[id].mdata_gateway_name = name
                       THEN [ms.by_id[id] EXCEPT !.mdata_gateway_id = source]
                       ELSE ms.by_id[id]]
    BY DEF AssignGateway, MarketsOK
<1> HIDE DEF ns
<1>2. \A id \in DOMAIN ms.by_id :
        LET m == ms.by_id[id]
            n == ns.by_id[id]
        IN  /\ DOMAIN n = MarketFields
            /\ n.key = m.key
            /\ n.mdata_gateway_name = m.mdata_gateway_name
            /\ \/ n.mdata_gateway_id = m.mdata_gateway_id
               \/ m.mdata_gateway_name = name /\ n.mdata_gateway_id = source
    BY <1>1 DEF MarketsOK, MarketFields
<1>3. DOMAIN ns.by_id = DOMAIN ms.by_id
    BY <1>1
<1>4. SameIndex(ms, ns)
    BY <1>1, <1>2, <1>3 DEF SameIndex, MarketsOK
<1>5. MarketsNamed(ms) => MarketsNamed(ns)
    BY <1>2, <1>3 DEF MarketsNamed
<1>6. QED
    BY <1>4, <1>5, SameIndexFacts DEF ns

LEMMA TickFacts ==
    ASSUME NEW ms, MarketsOK(ms), NEW key, NEW tick_size
    PROVE  LET ns == SetTickSize(ms, key, tick_size)
           IN  /\ MarketsOK(ns)
               /\ Grows(ms, ns)
               /\ MarketsNamed(ms) => MarketsNamed(ns)
<1> DEFINE os == emplace_market(ms, key)
           id == os.ident[key]
           ns == SetTickSize(ms, key, tick_size)
<1>1. /\ MarketsOK(os)
      /\ Grows(ms, os)
      /\ key \in DOMAIN os.ident
      /\ MarketsNamed(ms) => MarketsNamed(os)
    BY EmplaceFacts, EmplaceNamed
<1>2. ns = [os EXCEPT !.by_id[id].tick_size = tick_size]
    BY DEF SetTickSize
<1> HIDE DEF os, ns
<1>3. id \in DOMAIN os.by_id
    BY <1>1 DEF MarketsOK
<1> HIDE DEF id
<1>4. /\ DOMAIN ns = DOMAIN os
      /\ ns.last_market_id = os.last_market_id
      /\ ns.ident = os.ident
      /\ DOMAIN ns.by_id = DOMAIN os.by_id
      /\ \A i \in DOMAIN os.by_id :
           ns.by_id[i] = IF i = id THEN [os.by_id[id] EXCEPT !.tick_size = tick_size]
                         ELSE os.by_id[i]
    BY <1>1, <1>2, <1>3 DEF MarketsOK
<1>5. \A i \in DOMAIN os.by_id :
        /\ DOMAIN ns.by_id[i] = MarketFields
        /\ ns.by_id[i].key = os.by_id[i].key
        /\ ns.by_id[i].mdata_gateway_name = os.by_id[i].mdata_gateway_name
        /\ ns.by_id[i].mdata_gateway_id = os.by_id[i].mdata_gateway_id
    BY <1>1, <1>4 DEF MarketsOK, MarketFields
<1>6. SameIndex(os, ns)
    BY <1>1, <1>4, <1>5 DEF SameIndex, MarketsOK
<1>7. MarketsNamed(os) => MarketsNamed(ns)
    BY <1>4, <1>5 DEF MarketsNamed
<1>8. MarketsOK(ns) /\ Grows(os, ns)
    BY <1>1, <1>6, SameIndexFacts
<1>9. Grows(ms, ns)
    BY <1>1, <1>8, GrowsFacts
<1>10. QED
    BY <1>1, <1>7, <1>8, <1>9 DEF ns

(* The tables of the file are sequences.                                   *)
LEMMA SequenceDomain ==
    ASSUME NEW s, IsSequence(s)
    PROVE  Len(s) \in Nat /\ DOMAIN s = 1..Len(s)
BY DEF IsSequence

SymbolStep(node, ms, symbol) == ConfigureSymbol(ms, node, symbol)
MarketStep(c, ms, node) ==
    FoldLeft(LAMBDA ns, symbol : ConfigureSymbol(ns, node, symbol), ms, node.symbols)
AsConfigured(c, i, ms) == MarketsOK(ms) /\ MarketsNamed(ms) /\ MarketsUnassigned(ms)

SymbolsFold == INSTANCE FoldLemmas WITH Op <- SymbolStep, Good <- AsConfigured
MarketsFold == INSTANCE FoldLemmas WITH Op <- MarketStep, Good <- AsConfigured

LEMMA ConfigureSymbolFacts ==
    ASSUME NEW ms, AsConfigured(0, 0, ms), NEW n \in DOMAIN File.market,
           NEW j \in DOMAIN File.market[n].symbols
    PROVE  AsConfigured(0, 0, ConfigureSymbol(ms, File.market[n], File.market[n].symbols[j]))
<1> DEFINE node == File.market[n]
           symbol == node.symbols[j]
           key == <<node.exchange, symbol>>
           os == emplace_market(ms, key)
           id == os.ident[key]
           ns == ConfigureSymbol(ms, node, symbol)
<1>1. CASE symbol \in Wildcards
    BY <1>1 DEF ConfigureSymbol
<1>2. CASE symbol \notin Wildcards
    <2>1. /\ MarketsOK(os) /\ MarketsNamed(os) /\ MarketsUnassigned(os)
          /\ key \in DOMAIN os.ident
        BY EmplaceFacts, EmplaceNamed DEF AsConfigured
    <2>2. NamedByFile(key, node.mdata_gateway)
        BY DEF NamedByFile, ToSet
    <2>3. id \in DOMAIN os.by_id /\ os.by_id[id].key = key
        BY <2>1 DEF MarketsOK
    <2>4. get_market_ident(os, key) = id
        BY <2>1 DEF get_market_ident, Get
    <2>5. ns = [os EXCEPT !.by_id[id].mdata_gateway_name = node.mdata_gateway,
                          !.by_id[id].best_quotes_source = node.best_quotes_source]
        BY <1>2, <2>4 DEF ConfigureSymbol
    <2> HIDE DEF ns, os, id, key, node
    <2>6. /\ DOMAIN ns = DOMAIN os
          /\ ns.last_market_id = os.last_market_id
          /\ ns.ident = os.ident
          /\ DOMAIN ns.by_id = DOMAIN os.by_id
          /\ \A i \in DOMAIN os.by_id : i # id => ns.by_id[i] = os.by_id[i]
          /\ ns.by_id[id] =
               [os.by_id[id] EXCEPT !.mdata_gateway_name = node.mdata_gateway,
                                    !.best_quotes_source = node.best_quotes_source]
        BY <2>1, <2>3, <2>5 DEF MarketsOK
    <2>7. DOMAIN os.by_id[id] = MarketFields
        BY <2>1, <2>3 DEF MarketsOK
    <2>8. /\ DOMAIN ns.by_id[id] = DOMAIN os.by_id[id]
          /\ ns.by_id[id].key = key
          /\ ns.by_id[id].mdata_gateway_id = os.by_id[id].mdata_gateway_id
          /\ ns.by_id[id].mdata_gateway_name = node.mdata_gateway
        BY <2>3, <2>6, <2>7 DEF MarketFields
    <2>9. SameIndex(os, ns)
        BY <2>3, <2>6, <2>8 DEF SameIndex
    <2>10. MarketsUnassigned(ns)
        BY <2>1, <2>3, <2>6, <2>8 DEF MarketsUnassigned
    <2>11. MarketsNamed(ns)
        <3> SUFFICES ASSUME NEW i \in DOMAIN ns.by_id, ns.by_id[i].mdata_gateway_name # ""
                     PROVE  NamedByFile(ns.by_id[i].key, ns.by_id[i].mdata_gateway_name)
            BY <2>10 DEF MarketsNamed, MarketsUnassigned
        <3>1. CASE i = id
            BY <2>2, <2>8, <3>1
        <3>2. CASE i # id
            BY <2>1, <2>6, <3>2 DEF MarketsNamed
        <3>3. QED
            BY <3>1, <3>2
    <2>12. QED
        BY <2>1, <2>9, <2>10, <2>11, SameIndexFacts DEF AsConfigured, ns, node
<1>3. QED
    BY <1>1, <1>2

LEMMA ConfiguredFacts == AsConfigured(0, 0, MarketsConfigured(NoMarkets, File.market))
<1> DEFINE base == [NoMarkets EXCEPT !.by_id = <<>>, !.ident = <<>>]
<1>1. MarketsConfigured(NoMarkets, File.market) = MarketsFold!Folded(0, base, File.market)
    BY DEF MarketsConfigured, MarketStep, MarketsFold!Folded, MarketsFold!Max,
           FoldLeft, MapThenFoldSet, Max
<1>2. \A node, ms : MarketStep(0, ms, node) = SymbolsFold!Folded(node, ms, node.symbols)
    BY DEF MarketStep, SymbolStep, SymbolsFold!Folded, SymbolsFold!Max,
           FoldLeft, MapThenFoldSet, Max
<1>3. \A c, i, ms : AsConfigured(c, i, ms) <=> AsConfigured(0, 0, ms)
    BY DEF AsConfigured
<1>4. AsConfigured(0, 0, base)
    <2>1. /\ DOMAIN base = {"last_market_id", "by_id", "ident"}
          /\ base.last_market_id = 0
          /\ DOMAIN base.by_id = {}
          /\ DOMAIN base.ident = {}
        BY DEF NoMarkets
    <2> HIDE DEF base
    <2>2. QED
        BY <2>1 DEF AsConfigured, MarketsOK, MarketsNamed, MarketsUnassigned
<1>5. ASSUME NEW n \in DOMAIN File.market, NEW ms, AsConfigured(0, 0, ms)
      PROVE  AsConfigured(0, 0, MarketStep(0, ms, File.market[n]))
    <2> DEFINE node == File.market[n]
               m == Len(node.symbols)
    <2>1. m \in Nat /\ DOMAIN node.symbols = 1..m
        BY FileAssumption, SequenceDomain
    <2>2. AsConfigured(node, 0, ms)
        BY <1>3, <1>5
    <2>3. ASSUME NEW j \in 1..m, NEW os, AsConfigured(node, j - 1, os)
          PROVE  AsConfigured(node, j, SymbolStep(node, os, node.symbols[j]))
        <3>1. AsConfigured(0, 0, os)
            BY <1>3, <2>3
        <3>2. AsConfigured(0, 0, ConfigureSymbol(os, File.market[n], File.market[n].symbols[j]))
            BY <2>1, <3>1, ConfigureSymbolFacts
        <3>3. QED
            BY <1>3, <3>2 DEF SymbolStep
    <2> HIDE DEF node, m
    <2>4. AsConfigured(node, m, SymbolsFold!Folded(node, ms, node.symbols))
        BY <2>1, <2>2, <2>3, SymbolsFold!FoldKeeps, SetInduction
    <2>5. QED
        BY <1>2, <1>3, <2>4 DEF node
<1> HIDE DEF base
<1> DEFINE m == Len(File.market)
<1>6. m \in Nat /\ DOMAIN File.market = 1..m
    BY FileAssumption, SequenceDomain
<1> HIDE DEF m
<1>7. AsConfigured(0, m, MarketsFold!Folded(0, base, File.market))
    <2>1. \A i \in 1..m : \A ms :
            AsConfigured(0, i - 1, ms) => AsConfigured(0, i, MarketStep(0, ms, File.market[i]))
        BY <1>3, <1>5, <1>6
    <2>2. QED
        BY <1>4, <1>6, <2>1, MarketsFold!FoldKeeps, SetInduction
<1>8. QED
    BY <1>1, <1>3, <1>7
-----------------------------------------------------------------------------
(* Portfolios: every account's is in the table, and the number of a name   *)
(* is the number it reads as.                                              *)
PortfoliosOK(ps) ==
    /\ DOMAIN ps = {"last_portfolio_id", "table", "by_name", "by_account"}
    /\ \A x \in DOMAIN ps.by_account : ps.by_account[x] \in DOMAIN ps.table
    /\ \A p \in DOMAIN ps.table : DOMAIN ps.table[p] = {"portfolio_name", "positions"}

NumberOfName(name) == Number[IF name = "" THEN "0" ELSE name]

PortfoliosNumbered(ps) ==
    \A name \in DOMAIN ps.by_name :
        NumberOfName(name) # NoPortfolio => ps.by_name[name] = NumberOfName(name)

HasPortfolio(c, ps) ==
    c[1] \in DOMAIN ps.by_account /\ ps.by_account[c[1]] = c[2]

AccountStep(c, ps, node) == ConfigureAccount(ps, node, Number[PortfolioText(node)])
AccountsGood(c, i, ps) ==
    /\ PortfoliosOK(ps)
    /\ PortfoliosNumbered(ps)
    /\ AccountAgreed(c) /\ (\E j \in 1..i : AccountAt(c, j)) => HasPortfolio(c, ps)

AccountsFold == INSTANCE FoldLemmas WITH Op <- AccountStep, Good <- AccountsGood

(* qs has the portfolios of ps, with their positions and accounts.         *)
PortfoliosGrow(ps, qs) ==
    /\ qs.by_account = ps.by_account
    /\ \A p \in DOMAIN ps.table : p \in DOMAIN qs.table /\ qs.table[p] = ps.table[p]

LEMMA EmplacePortfolioFacts ==
    ASSUME NEW ps, PortfoliosOK(ps), NEW id, NEW name
    PROVE  LET qs == emplace_portfolio(ps, id, name)
               ident == PortfolioIdent(ps, id, name)
           IN  /\ PortfoliosOK(qs)
               /\ PortfoliosGrow(ps, qs)
               /\ ident \in DOMAIN qs.table
               /\ \/ qs.by_name = ps.by_name
                  \/ qs.by_name = TryEmplace(ps.by_name, name, ident)
<1> DEFINE qs == emplace_portfolio(ps, id, name)
           ident == PortfolioIdent(ps, id, name)
<1>1. CASE ident \in DOMAIN ps.table
    <2>1. qs = ps
        BY <1>1 DEF emplace_portfolio
    <2>2. QED
        BY <1>1, <2>1 DEF PortfoliosGrow
<1>2. CASE ident \notin DOMAIN ps.table
    <2> HIDE DEF ident
    <2>1. qs = [ps EXCEPT !.last_portfolio_id = IF ident > @ THEN ident ELSE @,
                          !.table = Put(@, ident, NewPortfolio(name)),
                          !.by_name = TryEmplace(@, name, ident)]
        BY <1>2 DEF emplace_portfolio, ident
    <2> HIDE DEF qs
    <2>2. /\ DOMAIN qs = DOMAIN ps
          /\ qs.by_account = ps.by_account
          /\ qs.by_name = TryEmplace(ps.by_name, name, ident)
          /\ qs.table = Put(ps.table, ident, NewPortfolio(name))
        BY <2>1 DEF PortfoliosOK
    <2>3. /\ DOMAIN qs.table = DOMAIN ps.table \cup {ident}
          /\ qs.table[ident] = NewPortfolio(name)
          /\ \A p \in DOMAIN ps.table : qs.table[p] = ps.table[p]
        BY <1>2, <2>2 DEF Put
    <2>4. DOMAIN NewPortfolio(name) = {"portfolio_name", "positions"}
        BY DEF NewPortfolio
    <2>5. QED
        BY <2>2, <2>3, <2>4 DEF PortfoliosOK, PortfoliosGrow, qs, ident
<1>3. QED
    BY <1>1, <1>2

LEMMA AccountStepFacts ==
    ASSUME NEW c, NEW i \in 1..Len(File.account), NEW ps, AccountsGood(c, i - 1, ps)
    PROVE  AccountsGood(c, i, AccountStep(c, ps, File.account[i]))
<1> DEFINE node == File.account[i]
           number == Number[PortfolioText(node)]
           ident == PortfolioIdent(ps, number, node.portfolio)
           qs == emplace_portfolio(ps, number, node.portfolio)
           rs == AccountStep(c, ps, node)
           account == <<node.exchange, node.account>>
<1>1. /\ PortfoliosOK(qs)
      /\ PortfoliosGrow(ps, qs)
      /\ ident \in DOMAIN qs.table
      /\ \/ qs.by_name = ps.by_name
         \/ qs.by_name = TryEmplace(ps.by_name, node.portfolio, ident)
    BY EmplacePortfolioFacts DEF AccountsGood
<1>2. number # NoPortfolio => ident = number
    BY DEF PortfolioIdent, AccountsGood, PortfoliosNumbered, NumberOfName, PortfolioText
<1>3. number = NumberOfName(node.portfolio)
    BY DEF PortfolioText, NumberOfName
<1>4. rs = [qs EXCEPT !.by_account = Put(@, account, ident)]
    BY DEF AccountStep, ConfigureAccount
<1> HIDE DEF ident, qs, rs, number
<1>5. PortfoliosNumbered(qs)
    BY <1>1, <1>2, <1>3 DEF AccountsGood, PortfoliosNumbered, TryEmplace, Put, Get
<1>6. /\ DOMAIN rs = DOMAIN qs
      /\ rs.table = qs.table
      /\ rs.by_name = qs.by_name
      /\ rs.by_account = Put(ps.by_account, account, ident)
    BY <1>1, <1>4 DEF PortfoliosOK, PortfoliosGrow
<1>7. /\ DOMAIN rs.by_account = DOMAIN ps.by_account \cup {account}
      /\ rs.by_account[account] = ident
      /\ \A x \in DOMAIN ps.by_account : x # account => rs.by_account[x] = ps.by_account[x]
    BY <1>6 DEF Put
<1>8. PortfoliosOK(rs) /\ PortfoliosNumbered(rs)
    BY <1>1, <1>5, <1>6, <1>7 DEF PortfoliosOK, PortfoliosNumbered, PortfoliosGrow
<1>9. ASSUME AccountAgreed(c), NEW j \in 1..i, AccountAt(c, j)
      PROVE  HasPortfolio(c, rs)
    <2>1. i \in DOMAIN File.account
        BY FileAssumption, SequenceDomain
    <2>2. CASE AccountAt(c, i)
        <3>1. account = c[1] /\ number = c[2] /\ c[2] # NoPortfolio
            BY <1>9, <2>1, <2>2 DEF AccountAt, AccountAgreed, number
        <3>2. QED
            BY <1>2, <1>7, <3>1 DEF HasPortfolio
    <2>3. CASE ~AccountAt(c, i)
        <3>1. j \in 1..i - 1 /\ account # c[1]
            BY <1>9, <2>3 DEF AccountAt
        <3>2. HasPortfolio(c, ps)
            BY <1>9, <3>1 DEF AccountsGood
        <3>3. QED
            BY <1>7, <3>1, <3>2 DEF HasPortfolio
    <2>4. QED
        BY <2>2, <2>3
<1>10. QED
    BY <1>8, <1>9 DEF AccountsGood, rs

LEMMA AccountsFacts ==
    ASSUME NEW c
    PROVE  LET ps == FoldLeft(LAMBDA qs, node :
                                ConfigureAccount(qs, node, Number[PortfolioText(node)]),
                              NoPortfolios, File.account)
           IN  AccountsGood(c, Len(File.account), ps)
<1>1. Len(File.account) \in Nat /\ DOMAIN File.account = 1..Len(File.account)
    BY FileAssumption, SequenceDomain
<1>2. AccountsGood(c, 0, NoPortfolios)
    <2>1. DOMAIN NoPortfolios = {"last_portfolio_id", "table", "by_name", "by_account"}
        BY DEF NoPortfolios
    <2>2. /\ DOMAIN NoPortfolios.table = {}
          /\ DOMAIN NoPortfolios.by_name = {}
          /\ DOMAIN NoPortfolios.by_account = {}
        BY DEF NoPortfolios
    <2>3. QED
        BY <2>1, <2>2 DEF AccountsGood, PortfoliosOK, PortfoliosNumbered
<1>3. AccountsGood(c, Len(File.account), AccountsFold!Folded(c, NoPortfolios, File.account))
    BY <1>1, <1>2, AccountStepFacts, AccountsFold!FoldKeeps, SetInduction
<1>4. QED
    BY <1>3 DEF AccountStep, AccountsFold!Folded, AccountsFold!Max,
           FoldLeft, MapThenFoldSet, Max
-----------------------------------------------------------------------------
(* Portfolios that parameters name are added.                              *)
PortfolioStep(c, ps, p) == PortfolioParameter(ps, p)
PortfoliosKept(c, i, ps) == PortfoliosOK(ps) /\ PortfoliosGrow(c, ps)

PortfolioFold == INSTANCE FoldLemmas WITH Op <- PortfolioStep, Good <- PortfoliosKept

LEMMA PortfolioFolded ==
    ASSUME NEW ps, PortfoliosOK(ps), NEW update, IsSequence(update)
    PROVE  LET qs == FoldLeft(PortfolioParameter, ps, update)
           IN  PortfoliosOK(qs) /\ PortfoliosGrow(ps, qs)
<1> DEFINE n == Len(update)
<1>1. n \in Nat /\ DOMAIN update = 1..n
    BY SequenceDomain
<1> HIDE DEF n
<1>2. PortfoliosKept(ps, 0, ps)
    BY DEF PortfoliosKept, PortfoliosGrow
<1>3. ASSUME NEW i \in 1..n, NEW qs, PortfoliosKept(ps, i - 1, qs)
      PROVE  PortfoliosKept(ps, i, PortfolioStep(ps, qs, update[i]))
    BY <1>3, EmplacePortfolioFacts
       DEF PortfoliosKept, PortfolioStep, PortfolioParameter, PortfoliosGrow
<1>4. PortfoliosKept(ps, n, PortfolioFold!Folded(ps, ps, update))
    BY <1>1, <1>2, <1>3, PortfolioFold!FoldKeeps, SetInduction
<1>5. FoldLeft(PortfolioParameter, ps, update) = PortfolioFold!Folded(ps, ps, update)
    BY DEF PortfolioStep, PortfolioFold!Folded, PortfolioFold!Max,
           FoldLeft, MapThenFoldSet, Max
<1>6. QED
    BY <1>4, <1>5 DEF PortfoliosKept
-----------------------------------------------------------------------------
(* Books: each is kept under the number its market has, and the number of  *)
(* its gateway, once it has one, is that of the gateway it names.          *)
BookOK(bs, ms, b) ==
    /\ b = BookKey(b.strategy, b.account, b.market)
    /\ b.market \in DOMAIN ms.by_id
    /\ ms.by_id[b.market].key = bs[b].key
    /\ DOMAIN bs[b] = {"key", "trade_gateway_id", "trade_gateway_name"}
    /\ bs[b].trade_gateway_id # NoSource =>
         /\ bs[b].trade_gateway_id \in Sources
         /\ SourceName[bs[b].trade_gateway_id] = bs[b].trade_gateway_name

BooksOK(bs, ms) == \A b \in DOMAIN bs : BookOK(bs, ms, b)
BooksNamed(bs) == \A b \in DOMAIN bs : bs[b].trade_gateway_name # ""

LEMMA BooksGrow ==
    ASSUME NEW ms, MarketsOK(ms), NEW ns, MarketsOK(ns), Grows(ms, ns), NEW bs, BooksOK(bs, ms)
    PROVE  BooksOK(bs, ns)
BY GrowsFacts DEF BooksOK, BookOK

LEMMA NewBookFacts ==
    ASSUME NEW key, NEW account, NEW name
    PROVE  LET book == NewBook(key, account, name)
           IN  /\ book.key = key
               /\ book.trade_gateway_id = NoSource
               /\ book.trade_gateway_name =
                    IF name # "" THEN name ELSE get_trade_gateway(key[1], account)
               /\ DOMAIN book = {"key", "trade_gateway_id", "trade_gateway_name"}
BY DEF NewBook

LEMMA EmplaceBookFacts ==
    ASSUME NEW ms, MarketsOK(ms), NEW bs, BooksOK(bs, ms),
           NEW strategy, NEW account, NEW key \in DOMAIN ms.ident
    PROVE  LET b == BookKey(strategy, account, ms.ident[key])
               cs == emplace_book(bs, b, key, "")
           IN  /\ BooksOK(cs, ms)
               /\ BooksNamed(bs) /\ get_trade_gateway(key[1], account) # "" => BooksNamed(cs)
<1> DEFINE b == BookKey(strategy, account, ms.ident[key])
           cs == emplace_book(bs, b, key, "")
           new == NewBook(key, account, "")
<1>1. /\ b = BookKey(b.strategy, b.account, b.market)
      /\ b.account = account
      /\ b.market = ms.ident[key]
    BY DEF BookKey
<1>2. b.market \in DOMAIN ms.by_id /\ ms.by_id[b.market].key = key
    BY <1>1 DEF MarketsOK
<1>3. cs = TryEmplace(bs, b, new)
    BY <1>1 DEF emplace_book
<1> HIDE DEF b, cs, new
<1>4. /\ DOMAIN cs = DOMAIN bs \cup {b}
      /\ \A x \in DOMAIN bs : cs[x] = bs[x]
      /\ b \notin DOMAIN bs => cs[b] = new
    BY <1>3 DEF TryEmplace, Put, Get
<1>5. /\ new.key = key
      /\ new.trade_gateway_id = NoSource
      /\ new.trade_gateway_name = get_trade_gateway(key[1], account)
      /\ DOMAIN new = {"key", "trade_gateway_id", "trade_gateway_name"}
    BY DEF new, NewBook
<1>6. BooksOK(cs, ms)
    BY <1>1, <1>2, <1>4, <1>5 DEF BooksOK, BookOK
<1>7. QED
    BY <1>4, <1>5, <1>6 DEF BooksNamed, b, cs
-----------------------------------------------------------------------------
GatewaysLoaded ==
    \A exchange, account :
        FileTrades(exchange, account) => get_trade_gateway(exchange, account) # ""

GatewayStep(c, acc, node) == Put(acc, <<node.exchange, node.account>>, node.trade_gateway)
GatewaysGood(c, i, acc) ==
    FileTrades(c[1], c[2]) /\ (\E j \in 1..i : AccountAt(<<c>>, j)) =>
        c \in DOMAIN acc /\ acc[c] # ""

GatewaysFold == INSTANCE FoldLemmas WITH Op <- GatewayStep, Good <- GatewaysGood

LEMMA TradeGatewaysFacts ==
    ASSUME NEW exchange, NEW account, FileTrades(exchange, account)
    PROVE  Get(TradeGateways(File.account), <<exchange, account>>, "") # ""
<1> DEFINE c == <<exchange, account>>
           n == Len(File.account)
<1>1. n \in Nat /\ DOMAIN File.account = 1..n
    BY FileAssumption, SequenceDomain
<1> HIDE DEF n
<1>2. GatewaysGood(c, 0, <<>>)
    BY DEF GatewaysGood
<1>3. ASSUME NEW i \in 1..n, NEW acc, GatewaysGood(c, i - 1, acc)
      PROVE  GatewaysGood(c, i, GatewayStep(c, acc, File.account[i]))
    <2> DEFINE node == File.account[i]
               key == <<node.exchange, node.account>>
               more == GatewayStep(c, acc, node)
    <2>1. /\ DOMAIN more = DOMAIN acc \cup {key}
          /\ more[key] = node.trade_gateway
          /\ \A x \in DOMAIN acc : x # key => more[x] = acc[x]
        BY DEF GatewayStep, Put
    <2> HIDE DEF more
    <2>2. CASE key = c
        <3>1. node.trade_gateway # ""
            BY <1>1, <2>2 DEF FileTrades
        <3>2. QED
            BY <2>1, <2>2, <3>1 DEF GatewaysGood, more
    <2>3. CASE key # c
        <3>1. ~AccountAt(<<c>>, i)
            BY <2>3 DEF AccountAt
        <3>2. \A j \in 1..i : AccountAt(<<c>>, j) => j \in 1..i - 1
            BY <3>1
        <3> HIDE DEF key, node, c
        <3>3. QED
            BY <1>3, <2>1, <2>3, <3>2 DEF GatewaysGood, more, node
    <2>4. QED
        BY <2>2, <2>3
<1>4. GatewaysGood(c, n, GatewaysFold!Folded(c, <<>>, File.account))
    BY <1>1, <1>2, <1>3, GatewaysFold!FoldKeeps, SetInduction
<1>5. TradeGateways(File.account) = GatewaysFold!Folded(c, <<>>, File.account)
    BY DEF TradeGateways, GatewayStep, GatewaysFold!Folded, GatewaysFold!Max,
           FoldLeft, MapThenFoldSet, Max
<1>6. FileTrades(c[1], c[2]) /\ \E j \in 1..n : AccountAt(<<c>>, j)
    BY <1>1 DEF FileTrades, AccountAt
<1>7. QED
    BY <1>4, <1>5, <1>6 DEF GatewaysGood, Get
-----------------------------------------------------------------------------
(* What the order manager makes of the parameters; c is the markets there  *)
(* were, and the update.                                                   *)
OmsStep(c, acc, p) == OmsParameter(acc, p)
OmsGood(c, i, acc) ==
    /\ MarketsOK(acc.markets)
    /\ Grows(c[1], acc.markets)
    /\ MarketsNamed(c[1]) => MarketsNamed(acc.markets)
    /\ BooksOK(acc.books, acc.markets)
    /\ GatewaysLoaded /\ AllComplete(c[2]) /\ BooksNamed(c[3]) =>
         acc.holds /\ BooksNamed(acc.books)

OmsFold == INSTANCE FoldLemmas WITH Op <- OmsStep, Good <- OmsGood

OmsFolded(update) ==
    FoldLeft(OmsParameter, [markets |-> markets, books |-> books, holds |-> TRUE], update)

LEMMA OmsFoldedFacts ==
    ASSUME MarketsOK(markets), BooksOK(books, markets), NEW update, IsSequence(update)
    PROVE  OmsGood(<<markets, update, books>>, Len(update), OmsFolded(update))
<1> DEFINE n == Len(update)
           c == <<markets, update, books>>
           base == [markets |-> markets, books |-> books, holds |-> TRUE]
<1>1. n \in Nat /\ DOMAIN update = 1..n
    BY SequenceDomain
<1> HIDE DEF n
<1>2. OmsGood(c, 0, base)
    BY GrowsFacts DEF OmsGood
<1>3. ASSUME NEW i \in 1..n, NEW acc, OmsGood(c, i - 1, acc)
      PROVE  OmsGood(c, i, OmsStep(c, acc, update[i]))
    <2> DEFINE p == update[i]
               ms == emplace_market(acc.markets, Key(p))
               b == BookKey(p.strategy_id, p.account, ms.ident[Key(p)])
               bs == emplace_book(acc.books, b, Key(p), "")
               asserts == EmplaceBookAsserts(p.strategy_id, p.account, Key(p), "")
               next == OmsStep(c, acc, p)
    <2>1. CASE Prefix(p.label) # "oms"
        BY <1>3, <2>1 DEF OmsStep, OmsParameter, OmsGood
    <2>2. CASE Prefix(p.label) = "oms"
        <3>1. /\ next.markets = ms
              /\ next.books = bs
              /\ next.holds = (acc.holds /\ asserts)
            BY <2>2 DEF OmsStep, OmsParameter
        <3>2. /\ MarketsOK(ms)
              /\ Grows(acc.markets, ms)
              /\ Key(p) \in DOMAIN ms.ident
              /\ MarketsNamed(acc.markets) => MarketsNamed(ms)
            BY <1>3, EmplaceFacts, EmplaceNamed DEF OmsGood
        <3>3. Grows(c[1], ms) /\ MarketsOK(c[1])
            BY <1>3, <3>2, GrowsFacts DEF OmsGood
        <3> HIDE DEF next, ms
        <3>4. BooksOK(acc.books, ms)
            BY <1>3, <3>2, BooksGrow DEF OmsGood
        <3>5. /\ BooksOK(bs, ms)
              /\ BooksNamed(acc.books) /\ get_trade_gateway(Key(p)[1], p.account) # ""
                   => BooksNamed(bs)
            BY <3>2, <3>4, EmplaceBookFacts
        <3>6. ASSUME GatewaysLoaded, AllComplete(update)
              PROVE  asserts /\ get_trade_gateway(Key(p)[1], p.account) # ""
            <4>1. /\ p.strategy_id # 0 /\ p.account # "" /\ p.exchange # "" /\ p.symbol # ""
                  /\ FileTrades(p.exchange, p.account)
                BY <1>1, <2>2, <3>6 DEF AllComplete, ParameterComplete
            <4>2. Key(p)[1] = p.exchange /\ Key(p)[2] = p.symbol
                BY DEF Key
            <4>3. get_trade_gateway(Key(p)[1], p.account) # ""
                BY <3>6, <4>1, <4>2 DEF GatewaysLoaded
            <4>4. NewBook(Key(p), p.account, "").trade_gateway_name =
                     get_trade_gateway(Key(p)[1], p.account)
                BY DEF NewBook
            <4>5. QED
                BY <4>1, <4>2, <4>3, <4>4 DEF EmplaceBookAsserts
        <3> HIDE DEF bs, asserts
        <3>7. QED
            BY <1>3, <3>1, <3>2, <3>3, <3>5, <3>6 DEF OmsGood, next
    <2>3. QED
        BY <2>1, <2>2
<1> HIDE DEF c, base
<1>4. OmsGood(c, n, OmsFold!Folded(c, base, update))
    BY <1>1, <1>2, <1>3, OmsFold!FoldKeeps, SetInduction
<1>5. OmsFolded(update) = OmsFold!Folded(c, base, update)
    BY DEF OmsFolded, base, OmsStep, OmsFold!Folded, OmsFold!Max,
           FoldLeft, MapThenFoldSet, Max
<1>6. QED
    BY <1>4, <1>5 DEF c, n
-----------------------------------------------------------------------------
(* Strategies of the pricer: their legs are in markets that exist.         *)
LegFields == {"position", "quotes", "terms"}

StrategyOK(st, ms) ==
    /\ DOMAIN st = {"enabled", "legs"}
    /\ \A l \in DOMAIN st.legs :
         l[2] \in DOMAIN ms.by_id /\ DOMAIN st.legs[l] = LegFields

StrategiesOK(ss, ms) == \A s \in DOMAIN ss : StrategyOK(ss[s], ms)

(* A strategy keeps its legs, with their quotes and positions.             *)
LegsKept(st, tt) ==
    \A l \in DOMAIN st.legs :
        /\ l \in DOMAIN tt.legs
        /\ tt.legs[l].quotes = st.legs[l].quotes
        /\ tt.legs[l].position = st.legs[l].position

StrategiesKept(ss, ts) ==
    \A s \in DOMAIN ss : s \in DOMAIN ts /\ LegsKept(ss[s], ts[s])

(* A leg with an account can be traded: the file says through what.        *)
LegTradable(ms, l) == l[1] # "" => FileTrades(ms.by_id[l[2]].key[1], l[1])
LegsTradable(ss, ms) ==
    \A s \in DOMAIN ss : \A l \in DOMAIN ss[s].legs : LegTradable(ms, l)

LEMMA StrategiesGrow ==
    ASSUME NEW ms, MarketsOK(ms), NEW ns, MarketsOK(ns), Grows(ms, ns),
           NEW ss, StrategiesOK(ss, ms)
    PROVE  /\ StrategiesOK(ss, ns)
           /\ LegsTradable(ss, ms) => LegsTradable(ss, ns)
<1>1. \A id \in DOMAIN ms.by_id : id \in DOMAIN ns.by_id /\ ns.by_id[id].key = ms.by_id[id].key
    BY GrowsFacts
<1>2. StrategiesOK(ss, ns)
    BY <1>1 DEF StrategiesOK, StrategyOK
<1>3. ASSUME LegsTradable(ss, ms), NEW s \in DOMAIN ss, NEW l \in DOMAIN ss[s].legs
      PROVE  LegTradable(ns, l)
    <2>1. l[2] \in DOMAIN ms.by_id /\ LegTradable(ms, l)
        BY <1>3 DEF StrategiesOK, StrategyOK, LegsTradable
    <2>2. QED
        BY <1>1, <2>1 DEF LegTradable
<1>4. QED
    BY <1>2, <1>3 DEF LegsTradable

LEMMA EmplaceLegFacts ==
    ASSUME NEW ms, NEW st, StrategyOK(st, ms), NEW leg, leg[2] \in DOMAIN ms.by_id
    PROVE  LET tt == EmplaceLeg(st, leg)
           IN  /\ StrategyOK(tt, ms)
               /\ LegsKept(st, tt)
               /\ DOMAIN tt.legs = DOMAIN st.legs \cup {leg}
<1> DEFINE tt == EmplaceLeg(st, leg)
<1>1. /\ DOMAIN tt = DOMAIN st
      /\ tt.legs = TryEmplace(st.legs, leg, NewLeg)
    BY DEF EmplaceLeg, StrategyOK
<1> HIDE DEF tt
<1>2. /\ DOMAIN tt.legs = DOMAIN st.legs \cup {leg}
      /\ \A l \in DOMAIN st.legs : tt.legs[l] = st.legs[l]
      /\ leg \notin DOMAIN st.legs => tt.legs[leg] = NewLeg
    BY <1>1 DEF TryEmplace, Put, Get
<1>3. DOMAIN NewLeg = LegFields
    BY DEF NewLeg, LegFields
<1>4. QED
    BY <1>1, <1>2, <1>3 DEF StrategyOK, LegsKept, tt

LEMMA StrategyParameterFacts ==
    ASSUME NEW ms, MarketsOK(ms), NEW st, StrategyOK(st, ms), NEW p, NEW label,
           EmplacesLeg(p, label) => Key(p) \in DOMAIN ms.ident
    PROVE  LET tt == StrategyParameter(st, ms, p, label)
           IN  /\ StrategyOK(tt, ms)
               /\ LegsKept(st, tt)
               /\ \A l \in DOMAIN tt.legs :
                    \/ l \in DOMAIN st.legs
                    \/ EmplacesLeg(p, label) /\ l = <<p.account, ms.ident[Key(p)]>>
<1> DEFINE tt == StrategyParameter(st, ms, p, label)
           leg == <<p.account, get_market_ident(ms, Key(p))>>
           emplaced == IF EmplacesLeg(p, label) THEN EmplaceLeg(st, leg) ELSE st
           told == IF Named(p) THEN {leg} ELSE DOMAIN st.legs
<1>1. EmplacesLeg(p, label) =>
        leg = <<p.account, ms.ident[Key(p)]>> /\ leg[2] \in DOMAIN ms.by_id
    BY DEF get_market_ident, Get, MarketsOK
<1>2. tt = IF label = <<"enabled">> THEN [st EXCEPT !.enabled = p.value = <<"true">>]
           ELSE IF Underlies(label) THEN emplaced
           ELSE [emplaced EXCEPT !.legs = [l \in DOMAIN @ |->
                    IF l \in told THEN SetTerm(@[l], label, p.value) ELSE @[l]]]
    BY DEF StrategyParameter
<1> HIDE DEF tt, leg, told
<1>3. /\ StrategyOK(emplaced, ms)
      /\ LegsKept(st, emplaced)
      /\ \A l \in DOMAIN emplaced.legs :
           \/ l \in DOMAIN st.legs
           \/ EmplacesLeg(p, label) /\ l = <<p.account, ms.ident[Key(p)]>>
    <2>1. CASE EmplacesLeg(p, label)
        BY <1>1, <2>1, EmplaceLegFacts
    <2>2. CASE ~EmplacesLeg(p, label)
        BY <2>2 DEF LegsKept
    <2>3. QED
        BY <2>1, <2>2
<1> HIDE DEF emplaced
<1>4. CASE label = <<"enabled">>
    <2>1. /\ DOMAIN tt = DOMAIN st
          /\ tt.legs = st.legs
        BY <1>2, <1>4 DEF StrategyOK
    <2>2. QED
        BY <2>1 DEF StrategyOK, LegsKept, tt
<1>5. CASE label # <<"enabled">> /\ Underlies(label)
    <2>1. tt = emplaced
        BY <1>2, <1>5
    <2>2. QED
        BY <1>3, <2>1 DEF tt
<1>6. CASE label # <<"enabled">> /\ ~Underlies(label)
    <2>1. tt = [emplaced EXCEPT !.legs = [l \in DOMAIN @ |->
                    IF l \in told THEN SetTerm(@[l], label, p.value) ELSE @[l]]]
        BY <1>2, <1>6
    <2>2. /\ DOMAIN tt = DOMAIN emplaced
          /\ tt.legs = [l \in DOMAIN emplaced.legs |->
                IF l \in told THEN SetTerm(emplaced.legs[l], label, p.value)
                ELSE emplaced.legs[l]]
        BY <1>3, <2>1 DEF StrategyOK
    <2>3. ASSUME NEW x, DOMAIN x = LegFields
          PROVE  LET y == SetTerm(x, label, p.value)
                 IN  /\ DOMAIN y = LegFields
                     /\ y.quotes = x.quotes
                     /\ y.position = x.position
        BY <2>3 DEF SetTerm, LegFields
    <2>4. /\ DOMAIN tt.legs = DOMAIN emplaced.legs
          /\ \A l \in DOMAIN emplaced.legs :
               /\ DOMAIN tt.legs[l] = LegFields
               /\ tt.legs[l].quotes = emplaced.legs[l].quotes
               /\ tt.legs[l].position = emplaced.legs[l].position
        BY <1>3, <2>2, <2>3 DEF StrategyOK
    <2>5. StrategyOK(tt, ms)
        BY <1>3, <2>2, <2>4 DEF StrategyOK
    <2>6. LegsKept(st, tt)
        BY <1>3, <2>4 DEF LegsKept
    <2>7. QED
        BY <1>3, <2>4, <2>5, <2>6 DEF tt
<1>7. QED
    BY <1>4, <1>5, <1>6

LEMMA ParameterMarketsFacts ==
    ASSUME NEW ms, MarketsOK(ms), NEW p, NEW label
    PROVE  LET ns == ParameterMarkets(ms, p, label)
           IN  /\ MarketsOK(ns)
               /\ Grows(ms, ns)
               /\ MarketsNamed(ms) => MarketsNamed(ns)
               /\ EmplacesLeg(p, label) => Key(p) \in DOMAIN ns.ident
<1> DEFINE os == IF EmplacesLeg(p, label) \/ Underlies(label)
                 THEN emplace_market(ms, Key(p)) ELSE ms
           ns == ParameterMarkets(ms, p, label)
<1>1. /\ MarketsOK(os)
      /\ Grows(ms, os)
      /\ MarketsNamed(ms) => MarketsNamed(os)
      /\ EmplacesLeg(p, label) => Key(p) \in DOMAIN os.ident
    BY EmplaceFacts, EmplaceNamed, GrowsFacts
<1>2. ns = IF label = <<"underlying">> THEN emplace_market(os, p.value) ELSE os
    BY DEF ParameterMarkets
<1> HIDE DEF os, ns
<1>3. /\ MarketsOK(ns)
      /\ Grows(os, ns)
      /\ MarketsNamed(os) => MarketsNamed(ns)
    BY <1>1, <1>2, EmplaceFacts, EmplaceNamed, GrowsFacts
<1>4. Grows(ms, ns)
    BY <1>1, <1>3, GrowsFacts
<1>5. EmplacesLeg(p, label) => Key(p) \in DOMAIN ns.ident
    BY <1>1, <1>3 DEF Grows
<1>6. QED
    BY <1>1, <1>3, <1>4, <1>5 DEF ns
(* What the pricer makes of the parameters; c is the markets, strategies   *)
(* and asserts there were, and the update.                                 *)
PricerStep(c, acc, p) == PricerParameter(acc, p)
PricerGood(c, i, acc) ==
    /\ MarketsOK(acc.markets)
    /\ Grows(c[1], acc.markets)
    /\ MarketsNamed(c[1]) => MarketsNamed(acc.markets)
    /\ StrategiesOK(acc.strategies, acc.markets)
    /\ StrategiesKept(c[2], acc.strategies)
    /\ AllComplete(c[4]) =>
         /\ c[3] => acc.holds
         /\ LegsTradable(c[2], c[1]) => LegsTradable(acc.strategies, acc.markets)
    /\ \A j \in 1..i :
         Prefix(c[4][j].label) = "lqs" /\ c[4][j].strategy_id # 0 =>
             c[4][j].strategy_id \in DOMAIN acc.strategies

PricerFold == INSTANCE FoldLemmas WITH Op <- PricerStep, Good <- PricerGood

PricerFolded(ms, ss, holds, update) ==
    FoldLeft(PricerParameter, [markets |-> ms, strategies |-> ss, holds |-> holds], update)

LEMMA KeptFacts ==
    ASSUME NEW ss
    PROVE  /\ StrategiesKept(ss, ss)
           /\ \A ts, us : StrategiesKept(ss, ts) /\ StrategiesKept(ts, us) =>
                StrategiesKept(ss, us)
BY DEF StrategiesKept, LegsKept

LEMMA PricerStepFacts ==
    ASSUME NEW c, NEW i \in Nat \ {0}, i \in DOMAIN c[4], NEW acc, PricerGood(c, i - 1, acc),
           MarketsOK(c[1])
    PROVE  PricerGood(c, i, PricerStep(c, acc, c[4][i]))
<1> DEFINE p == c[4][i]
           label == Rest(p.label)
           ms == ParameterMarkets(acc.markets, p, label)
           known == IF p.strategy_id = 0 THEN acc.strategies
                    ELSE TryEmplace(acc.strategies, p.strategy_id, NewStrategy)
           told == IF p.strategy_id = 0 THEN DOMAIN known ELSE {p.strategy_id}
           next == PricerStep(c, acc, p)
<1>1. CASE Prefix(p.label) # "lqs"
    <2>1. next = acc
        BY <1>1 DEF PricerStep, PricerParameter
    <2>2. \A j \in 1..i : Prefix(c[4][j].label) = "lqs" => j \in 1..i - 1
        BY <1>1
    <2> HIDE DEF next
    <2>3. QED
        BY <2>1, <2>2 DEF PricerGood, next
<1>2. CASE Prefix(p.label) = "lqs"
    <2>1. /\ next.markets = IF told = {} THEN acc.markets ELSE ms
          /\ next.strategies = [s \in DOMAIN known |->
                                  IF s \in told THEN StrategyParameter(known[s], ms, p, label)
                                  ELSE known[s]]
          /\ next.holds = (acc.holds
                           /\ (EmplacesLeg(p, label) /\ told # {} => p.account # ""))
        BY <1>2 DEF PricerStep, PricerParameter
    <2>2. /\ MarketsOK(ms)
          /\ Grows(acc.markets, ms)
          /\ MarketsNamed(acc.markets) => MarketsNamed(ms)
          /\ EmplacesLeg(p, label) => Key(p) \in DOMAIN ms.ident
        BY ParameterMarketsFacts DEF PricerGood
    <2>3. /\ MarketsOK(next.markets)
          /\ Grows(acc.markets, next.markets)
          /\ Grows(c[1], next.markets)
          /\ MarketsNamed(c[1]) => MarketsNamed(next.markets)
        <3>1. MarketsOK(acc.markets) /\ Grows(acc.markets, acc.markets)
            BY GrowsFacts DEF PricerGood
        <3>2. Grows(acc.markets, next.markets) /\ MarketsOK(next.markets)
            BY <2>1, <2>2, <3>1
        <3>3. MarketsNamed(c[1]) => MarketsNamed(next.markets)
            BY <2>1, <2>2 DEF PricerGood
        <3>4. Grows(c[1], next.markets)
            BY <3>2, GrowsFacts DEF PricerGood
        <3>5. QED
            BY <3>2, <3>3, <3>4
    <2>4. /\ \A s \in DOMAIN acc.strategies : s \in DOMAIN known /\ known[s] = acc.strategies[s]
          /\ \A s \in DOMAIN known : s \in DOMAIN acc.strategies \/ known[s] = NewStrategy
          /\ p.strategy_id # 0 => p.strategy_id \in DOMAIN known
        BY DEF TryEmplace, Put, Get
    <2>5. StrategyOK(NewStrategy, ms) /\ DOMAIN NewStrategy.legs = {}
        BY DEF StrategyOK, NewStrategy
    <2>6. StrategiesOK(acc.strategies, ms)
        BY <2>2, StrategiesGrow DEF PricerGood
    <2>7. \A s \in DOMAIN known : StrategyOK(known[s], ms)
        BY <2>4, <2>5, <2>6 DEF StrategiesOK
    <2> DEFINE Told(s) == StrategyParameter(known[s], ms, p, label)
    <2>8. ASSUME NEW s \in DOMAIN known
          PROVE  /\ StrategyOK(Told(s), ms)
                 /\ LegsKept(known[s], Told(s))
                 /\ \A l \in DOMAIN Told(s).legs :
                      \/ l \in DOMAIN known[s].legs
                      \/ EmplacesLeg(p, label) /\ l = <<p.account, ms.ident[Key(p)]>>
        BY <2>2, <2>7, StrategyParameterFacts
    <2> HIDE DEF next, known, ms
    <2>9. /\ DOMAIN next.strategies = DOMAIN known
          /\ \A s \in DOMAIN known :
               next.strategies[s] = IF s \in told THEN Told(s) ELSE known[s]
        BY <2>1
    <2> HIDE DEF Told
    <2>10. StrategiesOK(next.strategies, next.markets)
        <3>1. CASE told = {}
            <4>1. \A s \in DOMAIN known : s \in DOMAIN acc.strategies
                                          /\ next.strategies[s] = acc.strategies[s]
                BY <2>4, <2>9, <3>1
            <4>2. QED
                BY <2>1, <2>9, <3>1, <4>1 DEF PricerGood, StrategiesOK
        <3>2. CASE told # {}
            BY <2>1, <2>7, <2>8, <2>9, <3>2 DEF StrategiesOK
        <3>3. QED
            BY <3>1, <3>2
    <2>11. StrategiesKept(acc.strategies, next.strategies)
        BY <2>4, <2>8, <2>9 DEF StrategiesKept, LegsKept
    <2>12. StrategiesKept(c[2], next.strategies)
        BY <2>11, KeptFacts DEF PricerGood
    <2>13. ASSUME AllComplete(c[4]), c[3] PROVE next.holds
        <3>1. acc.holds
            BY <2>13 DEF PricerGood
        <3>2. EmplacesLeg(p, label) => p.account # ""
            BY <1>2, <2>13 DEF AllComplete, ParameterComplete, Emplaces
        <3>3. QED
            BY <2>1, <3>1, <3>2
    <2>14. ASSUME AllComplete(c[4]), LegsTradable(c[2], c[1])
           PROVE  LegsTradable(next.strategies, next.markets)
        <3>1. LegsTradable(acc.strategies, acc.markets)
            BY <2>14 DEF PricerGood
        <3>2. /\ StrategiesOK(acc.strategies, acc.markets)
              /\ MarketsOK(acc.markets)
            BY DEF PricerGood
        <3>3. LegsTradable(acc.strategies, next.markets)
            BY <2>3, <3>1, <3>2, StrategiesGrow
        <3> SUFFICES ASSUME NEW s \in DOMAIN known, NEW l \in DOMAIN next.strategies[s].legs
                     PROVE  LegTradable(next.markets, l)
            BY <2>9 DEF LegsTradable
        <3>4. CASE l \in DOMAIN known[s].legs
            <4>1. s \in DOMAIN acc.strategies /\ l \in DOMAIN acc.strategies[s].legs
                BY <2>4, <2>5, <3>4
            <4>2. QED
                BY <3>3, <4>1 DEF LegsTradable
        <3>5. CASE l \notin DOMAIN known[s].legs
            <4>1. /\ s \in told
                  /\ EmplacesLeg(p, label)
                  /\ l = <<p.account, ms.ident[Key(p)]>>
                BY <2>8, <2>9, <3>5
            <4>2. next.markets = ms
                BY <2>1, <4>1
            <4>3. ms.by_id[l[2]].key = Key(p) /\ Key(p)[1] = p.exchange
                BY <2>2, <4>1 DEF MarketsOK, Key
            <4>4. FileTrades(p.exchange, p.account)
                BY <1>2, <2>14, <4>1 DEF AllComplete, ParameterComplete, Emplaces
            <4>5. QED
                BY <4>1, <4>2, <4>3, <4>4 DEF LegTradable
        <3>6. QED
            BY <3>4, <3>5
    <2>15. ASSUME NEW j \in 1..i, Prefix(c[4][j].label) = "lqs", c[4][j].strategy_id # 0
           PROVE  c[4][j].strategy_id \in DOMAIN next.strategies
        <3>1. CASE j = i
            BY <2>4, <2>9, <2>15, <3>1
        <3>2. CASE j # i
            <4>1. j \in 1..i - 1
                BY <3>2
            <4>2. QED
                BY <2>4, <2>9, <2>15, <4>1 DEF PricerGood
        <3>3. QED
            BY <3>1, <3>2
    <2>16. QED
        BY <2>3, <2>10, <2>12, <2>13, <2>14, <2>15 DEF PricerGood, next
<1>3. QED
    BY <1>1, <1>2

LEMMA PricerFoldedFacts ==
    ASSUME NEW ms, MarketsOK(ms), NEW ss, StrategiesOK(ss, ms), NEW holds,
           NEW update, IsSequence(update)
    PROVE  PricerGood(<<ms, ss, holds, update>>, Len(update),
                      PricerFolded(ms, ss, holds, update))
<1> DEFINE n == Len(update)
           c == <<ms, ss, holds, update>>
           base == [markets |-> ms, strategies |-> ss, holds |-> holds]
<1>1. n \in Nat /\ DOMAIN update = 1..n
    BY SequenceDomain
<1> HIDE DEF n
<1>2. PricerGood(c, 0, base)
    BY GrowsFacts, KeptFacts DEF PricerGood
<1>3. /\ c[4] = update
      /\ MarketsOK(c[1])
    OBVIOUS
<1> HIDE DEF c, base
<1>4. \A i \in 1..n : \A acc :
        PricerGood(c, i - 1, acc) => PricerGood(c, i, PricerStep(c, acc, update[i]))
    BY <1>1, <1>3, PricerStepFacts
<1>5. PricerGood(c, n, PricerFold!Folded(c, base, update))
    BY <1>1, <1>2, <1>4, PricerFold!FoldKeeps, SetInduction
<1>6. PricerFolded(ms, ss, holds, update) = PricerFold!Folded(c, base, update)
    BY DEF PricerFolded, base, PricerStep, PricerFold!Folded, PricerFold!Max,
           FoldLeft, MapThenFoldSet, Max
<1>7. QED
    BY <1>5, <1>6 DEF c, n
-----------------------------------------------------------------------------
(* Sequences of events.                                                    *)
IsConcat(s, t, u) ==
    /\ IsSequence(u)
    /\ Len(u) = Len(s) + Len(t)
    /\ Len(s) \in Nat /\ Len(t) \in Nat
    /\ \A i \in 1..Len(s) : u[i] = s[i]
    /\ \A i \in 1..Len(t) : u[Len(s) + i] = t[i]
    /\ \A i \in DOMAIN u :
         \/ i \in DOMAIN s /\ u[i] = s[i]
         \/ i - Len(s) \in DOMAIN t /\ u[i] = t[i - Len(s)]

LEMMA ConcatFacts ==
    ASSUME NEW s, IsSequence(s), NEW t, IsSequence(t)
    PROVE  IsConcat(s, t, s \o t)
<1> DEFINE S == {s[i] : i \in DOMAIN s} \cup {t[i] : i \in DOMAIN t}
           u == s \o t
<1>1. s \in Seq(S) /\ t \in Seq(S)
    BY DEF IsSequence
<1>2. Len(s) \in Nat /\ Len(t) \in Nat /\ DOMAIN s = 1..Len(s) /\ DOMAIN t = 1..Len(t)
    BY SequenceDomain
<1> HIDE DEF S
<1>3. /\ u \in Seq(S)
      /\ Len(u) = Len(s) + Len(t)
      /\ \A i \in 1..Len(s) + Len(t) : u[i] = IF i <= Len(s) THEN s[i] ELSE t[i - Len(s)]
    BY <1>1, ConcatProperties
<1> HIDE DEF u
<1>4. DOMAIN u = 1..Len(u)
    BY <1>3
<1>5. u \in Seq({u[i] : i \in DOMAIN u})
    BY <1>2, <1>3, <1>4
<1>6. \A i \in 1..Len(t) : u[Len(s) + i] = t[i]
    BY <1>2, <1>3
<1>7. \A i \in DOMAIN u : \/ i \in DOMAIN s /\ u[i] = s[i]
                          \/ i - Len(s) \in DOMAIN t /\ u[i] = t[i - Len(s)]
    BY <1>2, <1>3, <1>4
<1>8. QED
    BY <1>2, <1>3, <1>5, <1>6, <1>7 DEF IsSequence, IsConcat, u

IsTail(s, u) ==
    /\ IsSequence(u)
    /\ 1 \in DOMAIN s /\ Head(s) = s[1]
    /\ \A i \in DOMAIN u : i + 1 \in DOMAIN s /\ u[i] = s[i + 1]
    /\ \A i \in DOMAIN s : i # 1 => i - 1 \in DOMAIN u /\ u[i - 1] = s[i]
    /\ DOMAIN s \subseteq Nat \ {0} /\ DOMAIN u \subseteq Nat \ {0}

LEMMA TailFacts ==
    ASSUME NEW s, IsSequence(s), s # <<>>
    PROVE  IsTail(s, Tail(s))
<1> DEFINE S == {s[i] : i \in DOMAIN s}
           u == Tail(s)
<1>1. s \in Seq(S)
    BY DEF IsSequence
<1>2. Len(s) \in Nat /\ DOMAIN s = 1..Len(s)
    BY SequenceDomain
<1> HIDE DEF S
<1>3. /\ u \in Seq(S)
      /\ Len(u) = Len(s) - 1
      /\ \A i \in 1..Len(u) : u[i] = s[i + 1]
    BY <1>1, HeadTailProperties
<1>4. Len(s) > 0 /\ Head(s) = s[1]
    BY <1>1
<1> HIDE DEF u
<1>5. DOMAIN u = 1..Len(u)
    BY <1>3
<1>6. u \in Seq({u[i] : i \in DOMAIN u})
    BY <1>2, <1>3, <1>5
<1>7. DOMAIN u = 1..Len(s) - 1
    BY <1>3, <1>5
<1>8. ASSUME NEW i \in DOMAIN s, i # 1
      PROVE  i - 1 \in DOMAIN u /\ u[i - 1] = s[i]
    <2>1. i - 1 \in 1..Len(s) - 1 /\ (i - 1) + 1 = i
        BY <1>2, <1>8
    <2>2. u[i - 1] = s[(i - 1) + 1]
        BY <1>3, <2>1
    <2>3. QED
        BY <1>7, <2>1, <2>2
<1>9. \A i \in DOMAIN u : i + 1 \in DOMAIN s /\ u[i] = s[i + 1]
    BY <1>2, <1>3, <1>7
<1>10. DOMAIN s \subseteq Nat \ {0} /\ DOMAIN u \subseteq Nat \ {0}
    BY <1>2, <1>7
<1>11. 1 \in DOMAIN s
    BY <1>2, <1>4
<1>12. QED
    BY <1>4, <1>6, <1>8, <1>9, <1>10, <1>11 DEF IsSequence, IsTail, u

(* The set in some order: every element is at some place.                  *)
LEMMA ListedFacts ==
    ASSUME NEW S, IsFiniteSet(S)
    PROVE  LET q == SetToSeq(S)
           IN  /\ IsSequence(q)
               /\ \A i \in DOMAIN q : q[i] \in S
               /\ \A x \in S : \E i \in DOMAIN q : q[i] = x
<1> DEFINE n == Cardinality(S)
           q == SetToSeq(S)
<1>1. n \in Nat /\ ExistsBijection(1..n, S)
    BY FS_CardinalityType
<1>2. \E f \in [1..n -> S] : IsInjective(f)
    BY <1>1 DEF ExistsBijection, Bijection, Injection
<1>3. q \in [1..n -> S] /\ IsInjective(q)
    BY <1>2 DEF SetToSeq
<1> HIDE DEF q
<1>4. Cardinality(1..n) = n
    BY <1>1, FS_Interval
<1>5. q \in Injection(1..n, S)
    BY <1>3 DEF Injection
<1>6. q \in Surjection(1..n, S)
    BY <1>4, <1>5, FS_Injection
<1>7. \A x \in S : \E i \in 1..n : q[i] = x
    BY <1>6 DEF Surjection
<1> HIDE DEF n
<1>8. DOMAIN q = 1..n /\ \A i \in 1..n : q[i] \in {q[j] : j \in DOMAIN q}
    BY <1>3
<1>9. q \in Seq({q[j] : j \in DOMAIN q})
    BY <1>1, <1>3, <1>8
<1>10. QED
    BY <1>3, <1>7, <1>8, <1>9 DEF IsSequence, q
-----------------------------------------------------------------------------
(* The events of a connection.                                             *)
IsStatus(e) == e.kind = "GatewayStatus"
IsBegin(e) == e.kind = "DownloadBegin" /\ e.account = ""
IsEnd(e) == e.kind = "DownloadEnd" /\ e.account = ""
Unmarked(e) == ~IsStatus(e) /\ ~IsBegin(e) /\ ~IsEnd(e)

Through(s, x) == TradeSource[x[1]] = s
IsPosition(e, x) ==
    e.kind = "PositionUpdate" /\ e.account = x[1].account /\ e.key = x[2]

EventOK(s, e) ==
    /\ e.source = s
    /\ IsStatus(e) => e.available = MdSupport
    /\ IsData(e) => e.key \in Keys /\ DataSource[e.key] = s
    /\ e.kind = "ParametersUpdate" => e.update \in Updates
    /\ e.kind = "PositionUpdate" => \E x \in Holdings : Through(s, x) /\ IsPosition(e, x)

EventsOK(s, q) == IsSequence(q) /\ \A i \in DOMAIN q : EventOK(s, q[i])

(* Events that tell neither of a download nor of the gateway.              *)
AllUnmarked(q) == \A i \in DOMAIN q : Unmarked(q[i])

(* The events of a download: no parameters, and the positions held.        *)
TellsHeld(s, e) ==
    /\ e.kind # "ParametersUpdate"
    /\ e.kind = "PositionUpdate" =>
         \E x \in Holdings : Through(s, x) /\ e = PositionOf(s, x[1], x[2], held[x])

AllTellHeld(s, q) == \A i \in DOMAIN q : TellsHeld(s, q[i])
Told(s, q, x) == \E i \in DOMAIN q : q[i] = PositionOf(s, x[1], x[2], held[x])

LEMMA ConcatEvents ==
    ASSUME NEW s, NEW p, EventsOK(s, p), NEW q, EventsOK(s, q)
    PROVE  /\ EventsOK(s, p \o q)
           /\ AllUnmarked(p) /\ AllUnmarked(q) => AllUnmarked(p \o q)
           /\ AllTellHeld(s, p) /\ AllTellHeld(s, q) => AllTellHeld(s, p \o q)
           /\ \A x : Told(s, p, x) \/ Told(s, q, x) => Told(s, p \o q, x)
<1> DEFINE r == p \o q
<1>0. IsSequence(p) /\ IsSequence(q)
    BY DEF EventsOK
<1>1. IsConcat(p, q, r)
    BY <1>0, ConcatFacts
<1>2. DOMAIN p = 1..Len(p) /\ DOMAIN q = 1..Len(q) /\ DOMAIN r = 1..Len(p) + Len(q)
    BY <1>0, <1>1, SequenceDomain DEF IsConcat
<1> HIDE DEF r
<1>3. EventsOK(s, r)
    BY <1>1 DEF IsConcat, EventsOK
<1>4. AllUnmarked(p) /\ AllUnmarked(q) => AllUnmarked(r)
    BY <1>1 DEF IsConcat, AllUnmarked
<1>5. AllTellHeld(s, p) /\ AllTellHeld(s, q) => AllTellHeld(s, r)
    BY <1>1 DEF IsConcat, AllTellHeld
<1>6. ASSUME NEW x, Told(s, p, x) \/ Told(s, q, x)
      PROVE  Told(s, r, x)
    <2>1. CASE Told(s, p, x)
        <3>1. PICK i \in DOMAIN p : p[i] = PositionOf(s, x[1], x[2], held[x])
            BY <2>1 DEF Told
        <3>2. i \in DOMAIN r /\ r[i] = p[i]
            BY <1>1, <1>2 DEF IsConcat
        <3>3. QED
            BY <3>1, <3>2 DEF Told
    <2>2. CASE Told(s, q, x)
        <3>1. PICK i \in DOMAIN q : q[i] = PositionOf(s, x[1], x[2], held[x])
            BY <2>2 DEF Told
        <3>2. Len(p) + i \in DOMAIN r /\ r[Len(p) + i] = q[i]
            BY <1>1, <1>2 DEF IsConcat
        <3>3. QED
            BY <3>1, <3>2 DEF Told
    <2>3. QED
        BY <1>6, <2>1, <2>2
<1>7. QED
    BY <1>3, <1>4, <1>5, <1>6 DEF r

(* Sequences written out.                                                  *)
LEMMA OneEvent ==
    ASSUME NEW e
    PROVE  IsSequence(<<e>>) /\ DOMAIN <<e>> = {1} /\ <<e>>[1] = e
<1>1. DOMAIN <<e>> = {1} /\ <<e>>[1] = e
    OBVIOUS
<1>2. <<e>> \in Seq({e})
    OBVIOUS
<1>3. {<<e>>[i] : i \in DOMAIN <<e>>} = {e}
    BY <1>1
<1>4. QED
    BY <1>1, <1>2, <1>3 DEF IsSequence

LEMMA TwoEvents ==
    ASSUME NEW e, NEW f
    PROVE  /\ IsSequence(<<e, f>>)
           /\ DOMAIN <<e, f>> = {1, 2} /\ <<e, f>>[1] = e /\ <<e, f>>[2] = f
<1>1. DOMAIN <<e, f>> = {1, 2} /\ <<e, f>>[1] = e /\ <<e, f>>[2] = f
    OBVIOUS
<1>2. <<e, f>> \in Seq({e, f})
    OBVIOUS
<1>3. {<<e, f>>[i] : i \in DOMAIN <<e, f>>} = {e, f}
    BY <1>1
<1>4. QED
    BY <1>1, <1>2, <1>3 DEF IsSequence

LEMMA ThreeEvents ==
    ASSUME NEW e, NEW f, NEW g
    PROVE  /\ IsSequence(<<e, f, g>>)
           /\ DOMAIN <<e, f, g>> = {1, 2, 3}
           /\ <<e, f, g>>[1] = e /\ <<e, f, g>>[2] = f /\ <<e, f, g>>[3] = g
<1>1. /\ DOMAIN <<e, f, g>> = {1, 2, 3}
      /\ <<e, f, g>>[1] = e /\ <<e, f, g>>[2] = f /\ <<e, f, g>>[3] = g
    OBVIOUS
<1>2. <<e, f, g>> \in Seq({e, f, g})
    OBVIOUS
<1>3. {<<e, f, g>>[i] : i \in DOMAIN <<e, f, g>>} = {e, f, g}
    BY <1>1
<1>4. QED
    BY <1>1, <1>2, <1>3 DEF IsSequence
-----------------------------------------------------------------------------
(* What a gateway sends on connecting.                                     *)
LEMMA DataFacts ==
    ASSUME NEW k \in Keys, NEW layer
    PROVE  LET e == DataOf(DataSource[k], k, layer)
           IN  /\ EventOK(DataSource[k], e)
               /\ IsData(e) /\ Unmarked(e)
               /\ e.kind \notin {"PositionUpdate", "ParametersUpdate"}
               /\ e.key = k
<1> DEFINE e == DataOf(DataSource[k], k, layer)
<1>1. /\ e.kind \in {"TopOfBook", "MarketByPriceUpdate"}
      /\ e.source = DataSource[k]
      /\ e.key = k
    BY DEF DataOf
<1> HIDE DEF e
<1>2. /\ IsData(e) /\ Unmarked(e)
      /\ e.kind \notin {"PositionUpdate", "ParametersUpdate"}
    BY <1>1 DEF IsData, Unmarked, IsStatus, IsBegin, IsEnd
<1>3. EventOK(DataSource[k], e)
    BY <1>1, <1>2 DEF EventOK, Unmarked
<1>4. QED
    BY <1>1, <1>2, <1>3 DEF e

LEMMA PositionFacts ==
    ASSUME NEW s, NEW x \in Holdings, Through(s, x), NEW position
    PROVE  LET e == PositionOf(s, x[1], x[2], position)
           IN  EventOK(s, e) /\ Unmarked(e) /\ IsPosition(e, x) /\ ~IsData(e)
BY DEF PositionOf, EventOK, Unmarked, IsPosition, IsData, IsStatus, IsBegin, IsEnd

(* The markets of a gateway, in any order.                                 *)
MarketDataStep(s, acc, k) ==
    IF DataSource[k] # s THEN acc
    ELSE acc \o <<[kind |-> "ReferenceData", source |-> s, key |-> k,
                   tick_size |-> 1], DataOf(s, k, top[k])>>
MarketDataGood(s, i, acc) == EventsOK(s, acc) /\ AllUnmarked(acc) /\ AllTellHeld(s, acc)

MarketDataFold == INSTANCE FoldLemmas WITH Op <- MarketDataStep, Good <- MarketDataGood

LEMMA NoEvents ==
    ASSUME NEW s
    PROVE  EventsOK(s, <<>>) /\ AllUnmarked(<<>>) /\ AllTellHeld(s, <<>>)
<1>1. IsSequence(<<>>) /\ DOMAIN <<>> = {}
    BY DEF IsSequence
<1>2. QED
    BY <1>1 DEF EventsOK, AllUnmarked, AllTellHeld

LEMMA MarketsDownloadFacts ==
    ASSUME NEW s
    PROVE  LET q == MarketsDownload(s)
           IN  EventsOK(s, q) /\ AllUnmarked(q) /\ AllTellHeld(s, q)
<1> DEFINE list == SetToSeq(Keys)
           n == Len(list)
<1>1. /\ IsSequence(list)
      /\ \A i \in DOMAIN list : list[i] \in Keys
    BY EventsAssumption, ListedFacts
<1>2. n \in Nat /\ DOMAIN list = 1..n
    BY <1>1, SequenceDomain
<1>3. MarketDataGood(s, 0, <<>>)
    BY NoEvents DEF MarketDataGood
<1>4. ASSUME NEW k \in Keys, NEW i, NEW j, NEW acc, MarketDataGood(s, j, acc)
      PROVE  MarketDataGood(s, i, MarketDataStep(s, acc, k))
    <2>1. CASE DataSource[k] # s
        BY <1>4, <2>1 DEF MarketDataGood, MarketDataStep
    <2>2. CASE DataSource[k] = s
        <3> DEFINE e == [kind |-> "ReferenceData", source |-> s, key |-> k, tick_size |-> 1]
                   f == DataOf(s, k, top[k])
        <3>1. /\ EventOK(s, f) /\ Unmarked(f)
              /\ f.kind \notin {"PositionUpdate", "ParametersUpdate"}
            BY <2>2, DataFacts
        <3>2. /\ EventOK(s, e) /\ Unmarked(e)
              /\ e.kind \notin {"PositionUpdate", "ParametersUpdate"}
            BY DEF EventOK, Unmarked, IsData, IsStatus, IsBegin, IsEnd
        <3>3. MarketDataStep(s, acc, k) = acc \o <<e, f>>
            BY <2>2 DEF MarketDataStep
        <3> HIDE DEF e, f
        <3>4. EventsOK(s, <<e, f>>) /\ AllUnmarked(<<e, f>>) /\ AllTellHeld(s, <<e, f>>)
            BY <3>1, <3>2, TwoEvents DEF EventsOK, AllUnmarked, AllTellHeld, TellsHeld
        <3>5. QED
            BY <1>4, <3>3, <3>4, ConcatEvents DEF MarketDataGood
    <2>3. QED
        BY <2>1, <2>2
<1> HIDE DEF list, n
<1>5. MarketDataGood(s, n, MarketDataFold!Folded(s, <<>>, list))
    BY <1>1, <1>2, <1>3, <1>4, MarketDataFold!FoldKeeps, SetInduction
<1>6. MarketsDownload(s) = MarketDataFold!Folded(s, <<>>, list)
    BY DEF MarketsDownload, list, MarketDataStep, MarketDataFold!Folded, MarketDataFold!Max,
           FoldLeft, MapThenFoldSet, Max
<1>7. QED
    BY <1>5, <1>6 DEF MarketDataGood

LEMMA HoldingFacts ==
    ASSUME NEW x \in Holdings
    PROVE  x[1] \in Traders /\ x[2] \in Keys /\ x = <<x[1], x[2]>>
<1>1. x \in Traders \X Keys
    BY EventsAssumption
<1>2. QED
    BY <1>1

(* The positions of an account: all it holds are told.                     *)
HeldBy(t) == {k \in Keys : <<t, k>> \in Holdings}
HeldStep(c, acc, k) == Append(acc, PositionOf(c[1], c[2], k, held[c[2], k]))
HeldGood(c, i, acc) ==
    /\ EventsOK(c[1], acc) /\ AllUnmarked(acc) /\ AllTellHeld(c[1], acc)
    /\ \A j \in 1..i : Told(c[1], acc, <<c[2], SetToSeq(HeldBy(c[2]))[j]>>)

HeldFold == INSTANCE FoldLemmas WITH Op <- HeldStep, Good <- HeldGood

AllTold(s, t, q) == \A x \in Holdings : x[1] = t => Told(s, q, x)

LEMMA AccountDownloadFacts ==
    ASSUME NEW s, NEW t \in Traders, TradeSource[t] = s
    PROVE  LET q == AccountDownload(s, t)
           IN  EventsOK(s, q) /\ AllUnmarked(q) /\ AllTellHeld(s, q) /\ AllTold(s, t, q)
<1> DEFINE list == SetToSeq(HeldBy(t))
           n == Len(list)
           c == <<s, t>>
           positions == HeldFold!Folded(c, <<>>, list)
           begin == OfAccount("DownloadBegin", s, t.account)
           end == OfAccount("DownloadEnd", s, t.account)
<1>1. IsFiniteSet(HeldBy(t))
    BY EventsAssumption, FS_Subset DEF HeldBy
<1>2. /\ IsSequence(list)
      /\ \A i \in DOMAIN list : list[i] \in HeldBy(t)
      /\ \A k \in HeldBy(t) : \E i \in DOMAIN list : list[i] = k
    BY <1>1, ListedFacts
<1>3. n \in Nat /\ DOMAIN list = 1..n
    BY <1>2, SequenceDomain
<1>4. HeldGood(c, 0, <<>>)
    BY NoEvents DEF HeldGood
<1>5. ASSUME NEW i \in 1..n, NEW acc, HeldGood(c, i - 1, acc)
      PROVE  HeldGood(c, i, HeldStep(c, acc, list[i]))
    <2> DEFINE x == <<t, list[i]>>
               e == PositionOf(s, t, list[i], held[t, list[i]])
               more == HeldStep(c, acc, list[i])
    <2>1. x \in Holdings /\ Through(s, x) /\ x[1] = t /\ x[2] = list[i]
        BY <1>2, <1>3 DEF HeldBy, Through
    <2>2. /\ EventOK(s, e) /\ Unmarked(e)
          /\ IsPosition(e, x)
          /\ e = PositionOf(s, x[1], x[2], held[x])
        BY <2>1, PositionFacts
    <2>3. more = acc \o <<e>>
        <3>1. \E S : acc \in Seq(S)
            BY <1>5 DEF HeldGood, EventsOK, IsSequence
        <3>2. more = Append(acc, e)
            BY DEF HeldStep
        <3> HIDE DEF e, more
        <3>3. QED
            BY <3>1, <3>2
    <2> HIDE DEF e, x, more, list
    <2>4. EventsOK(s, <<e>>) /\ AllUnmarked(<<e>>) /\ AllTellHeld(s, <<e>>) /\ Told(s, <<e>>, x)
        BY <2>1, <2>2, OneEvent
           DEF EventsOK, AllUnmarked, AllTellHeld, TellsHeld, Told, IsPosition
    <2>5. /\ EventsOK(s, acc) /\ AllUnmarked(acc) /\ AllTellHeld(s, acc)
          /\ \A j \in 1..i - 1 : Told(s, acc, <<t, list[j]>>)
        BY <1>5 DEF HeldGood, list
    <2>6. /\ EventsOK(s, more) /\ AllUnmarked(more) /\ AllTellHeld(s, more)
          /\ \A y : Told(s, acc, y) \/ Told(s, <<e>>, y) => Told(s, more, y)
        BY <2>3, <2>4, <2>5, ConcatEvents
    <2>7. ASSUME NEW j \in 1..i PROVE Told(s, more, <<t, list[j]>>)
        <3>1. CASE j = i
            BY <2>4, <2>6, <3>1 DEF x
        <3>2. CASE j # i
            <4>1. j \in 1..i - 1
                BY <1>3, <3>2
            <4>2. QED
                BY <2>5, <2>6, <4>1
        <3>3. QED
            BY <3>1, <3>2
    <2>8. QED
        BY <2>6, <2>7 DEF HeldGood, list, more
<1>6. HeldGood(c, n, positions)
    <2> HIDE DEF list, n, c
    <2>1. QED
        BY <1>3, <1>4, <1>5, HeldFold!FoldKeeps, SetInduction
<1>7. AccountDownload(s, t) = <<begin>> \o positions \o <<end>>
    BY DEF AccountDownload, HeldBy, HeldStep, HeldFold!Folded, HeldFold!Max,
           FoldLeft, MapThenFoldSet, Max
<1>8. /\ EventOK(s, begin) /\ Unmarked(begin)
      /\ begin.kind \notin {"PositionUpdate", "ParametersUpdate"}
      /\ EventOK(s, end) /\ Unmarked(end)
      /\ end.kind \notin {"PositionUpdate", "ParametersUpdate"}
    <2>1. t.account # ""
        BY EventsAssumption
    <2>2. QED
        BY <2>1 DEF OfAccount, EventOK, Unmarked, IsData, IsStatus, IsBegin, IsEnd
<1> HIDE DEF begin, end, positions
<1>9. /\ EventsOK(s, <<begin>>) /\ AllUnmarked(<<begin>>) /\ AllTellHeld(s, <<begin>>)
      /\ EventsOK(s, <<end>>) /\ AllUnmarked(<<end>>) /\ AllTellHeld(s, <<end>>)
    BY <1>8, OneEvent DEF EventsOK, AllUnmarked, AllTellHeld, TellsHeld
<1>10. /\ EventsOK(s, positions) /\ AllUnmarked(positions) /\ AllTellHeld(s, positions)
       /\ \A j \in 1..n : Told(s, positions, <<t, list[j]>>)
    BY <1>6 DEF HeldGood
<1>11. ASSUME NEW x \in Holdings, x[1] = t
       PROVE  Told(s, positions, x)
    <2>1. x[2] \in HeldBy(t) /\ x = <<t, x[2]>>
        BY <1>11, HoldingFacts DEF HeldBy
    <2>2. PICK j \in 1..n : list[j] = x[2]
        BY <1>2, <1>3, <2>1
    <2>3. QED
        BY <1>10, <2>1, <2>2
<1> DEFINE first == <<begin>> \o positions
           q == first \o <<end>>
<1>12. /\ EventsOK(s, first) /\ AllUnmarked(first) /\ AllTellHeld(s, first)
       /\ \A x : Told(s, positions, x) => Told(s, first, x)
    BY <1>9, <1>10, ConcatEvents
<1> HIDE DEF first
<1>13. /\ EventsOK(s, q) /\ AllUnmarked(q) /\ AllTellHeld(s, q)
       /\ \A x : Told(s, first, x) => Told(s, q, x)
    BY <1>9, <1>12, ConcatEvents
<1>14. q = AccountDownload(s, t)
    BY <1>7 DEF first
<1> HIDE DEF q
<1>15. QED
    BY <1>11, <1>12, <1>13, <1>14 DEF AllTold

(* The accounts of a gateway.                                              *)
AccountsStep(s, acc, t) ==
    IF TradeSource[t] = s THEN acc \o AccountDownload(s, t) ELSE acc
AccountsTold(s, i, acc) ==
    /\ EventsOK(s, acc) /\ AllUnmarked(acc) /\ AllTellHeld(s, acc)
    /\ \A j \in 1..i :
         LET t == SetToSeq(Traders)[j]
         IN  TradeSource[t] = s => AllTold(s, t, acc)

TradersFold == INSTANCE FoldLemmas WITH Op <- AccountsStep, Good <- AccountsTold

AccountsDownload(s) ==
    FoldLeft(LAMBDA acc, t :
                 IF TradeSource[t] = s THEN acc \o AccountDownload(s, t) ELSE acc,
             <<>>, SetToSeq(Traders))

LEMMA AccountsDownloadFacts ==
    ASSUME NEW s
    PROVE  LET q == AccountsDownload(s)
           IN  /\ EventsOK(s, q) /\ AllUnmarked(q) /\ AllTellHeld(s, q)
               /\ \A x \in Holdings : Through(s, x) => Told(s, q, x)
<1> DEFINE list == SetToSeq(Traders)
           n == Len(list)
           q == AccountsDownload(s)
<1>1. /\ IsSequence(list)
      /\ \A i \in DOMAIN list : list[i] \in Traders
      /\ \A t \in Traders : \E i \in DOMAIN list : list[i] = t
    BY EventsAssumption, ListedFacts
<1>2. n \in Nat /\ DOMAIN list = 1..n
    BY <1>1, SequenceDomain
<1>3. AccountsTold(s, 0, <<>>)
    BY NoEvents DEF AccountsTold
<1>4. ASSUME NEW i \in 1..n, NEW acc, AccountsTold(s, i - 1, acc)
      PROVE  AccountsTold(s, i, AccountsStep(s, acc, list[i]))
    <2> DEFINE t == list[i]
               more == AccountsStep(s, acc, t)
               events == AccountDownload(s, t)
    <2>1. \A j \in 1..i : j # i => j \in 1..i - 1
        BY <1>2
    <2>2. /\ EventsOK(s, acc) /\ AllUnmarked(acc) /\ AllTellHeld(s, acc)
          /\ \A j \in 1..i - 1 : TradeSource[list[j]] = s => AllTold(s, list[j], acc)
        BY <1>4 DEF AccountsTold
    <2>3. CASE TradeSource[t] # s
        <3>1. more = acc
            BY <2>3 DEF AccountsStep
        <3> HIDE DEF more, list
        <3>2. \A j \in 1..i : TradeSource[list[j]] = s => AllTold(s, list[j], acc)
            BY <2>1, <2>2, <2>3
        <3>3. QED
            BY <2>2, <3>1, <3>2 DEF AccountsTold, list, more
    <2>4. CASE TradeSource[t] = s
        <3>1. more = acc \o events
            BY <2>4 DEF AccountsStep
        <3>2. t \in Traders
            BY <1>1, <1>2
        <3> HIDE DEF more, events, list
        <3>3. /\ EventsOK(s, events) /\ AllUnmarked(events) /\ AllTellHeld(s, events)
              /\ AllTold(s, t, events)
            BY <2>4, <3>2, AccountDownloadFacts DEF events
        <3>4. /\ EventsOK(s, more) /\ AllUnmarked(more) /\ AllTellHeld(s, more)
              /\ \A x : Told(s, acc, x) \/ Told(s, events, x) => Told(s, more, x)
            BY <2>2, <3>1, <3>3, ConcatEvents
        <3>5. \A j \in 1..i : TradeSource[list[j]] = s => AllTold(s, list[j], more)
            BY <2>1, <2>2, <3>3, <3>4 DEF AllTold
        <3>6. QED
            BY <3>4, <3>5 DEF AccountsTold, list, more
    <2>5. QED
        BY <2>3, <2>4
<1>5. AccountsTold(s, n, TradersFold!Folded(s, <<>>, list))
    <2> HIDE DEF list, n
    <2>1. QED
        BY <1>2, <1>3, <1>4, TradersFold!FoldKeeps, SetInduction
<1>6. q = TradersFold!Folded(s, <<>>, list)
    BY DEF AccountsDownload, AccountsStep, TradersFold!Folded, TradersFold!Max,
           FoldLeft, MapThenFoldSet, Max
<1> HIDE DEF q
<1>7. AccountsTold(s, n, q)
    BY <1>5, <1>6
<1>8. ASSUME NEW x \in Holdings, Through(s, x) PROVE Told(s, q, x)
    <2>1. x[1] \in Traders /\ TradeSource[x[1]] = s
        BY <1>8, HoldingFacts DEF Through
    <2>2. PICK j \in 1..n : list[j] = x[1]
        BY <1>1, <1>2, <2>1
    <2>3. AllTold(s, x[1], q)
        BY <1>7, <2>1, <2>2 DEF AccountsTold
    <2>4. QED
        BY <2>3 DEF AllTold
<1>9. QED
    BY <1>7, <1>8 DEF AccountsTold, q

(* A download: its marks stand once each, in their order, and every        *)
(* position told is the one held.                                          *)
Marks(q) ==
    /\ \A i, j \in DOMAIN q : IsStatus(q[i]) /\ IsStatus(q[j]) => i = j
    /\ \A i, j \in DOMAIN q : IsEnd(q[i]) /\ IsEnd(q[j]) => i = j
    /\ \A i \in DOMAIN q : IsBegin(q[i]) => \E j \in DOMAIN q : j > i /\ IsStatus(q[j])

LEMMA MarksConcat ==
    ASSUME NEW p, IsSequence(p), Marks(p), NEW q, IsSequence(q), AllUnmarked(q)
    PROVE  /\ Marks(p \o q)
           /\ \A i \in DOMAIN (p \o q) :
                ~Unmarked((p \o q)[i]) => i \in DOMAIN p /\ (p \o q)[i] = p[i]
           /\ \A i \in DOMAIN p : i \in DOMAIN (p \o q) /\ (p \o q)[i] = p[i]
<1> DEFINE r == p \o q
<1>1. IsConcat(p, q, r)
    BY ConcatFacts
<1>2. DOMAIN p = 1..Len(p) /\ DOMAIN r = 1..Len(r)
    BY <1>1, SequenceDomain DEF IsConcat
<1> HIDE DEF r
<1>3. \A i \in DOMAIN r : ~Unmarked(r[i]) => i \in DOMAIN p /\ r[i] = p[i]
    BY <1>1 DEF IsConcat, AllUnmarked
<1>4. \A i \in DOMAIN p : i \in DOMAIN r /\ r[i] = p[i]
    BY <1>1, <1>2 DEF IsConcat
<1>5. Marks(r)
    BY <1>3, <1>4 DEF Marks, Unmarked
<1>6. QED
    BY <1>3, <1>4, <1>5 DEF r

LEMMA DownloadFacts ==
    ASSUME NEW s
    PROVE  LET q == Download(s)
           IN  /\ EventsOK(s, q) /\ AllTellHeld(s, q)
               /\ \A x \in Holdings : Through(s, x) => Told(s, q, x)
               /\ Marks(q)
               /\ \E i \in DOMAIN q : IsBegin(q[i])
<1> DEFINE settings == Plain("GatewaySettings", s)
           begin == OfAccount("DownloadBegin", s, "")
           status == [kind |-> "GatewayStatus", source |-> s, available |-> MdSupport]
           end == OfAccount("DownloadEnd", s, "")
           first == <<settings, begin, status>>
           data == MarketsDownload(s)
           accounts == AccountsDownload(s)
           two == first \o data
           three == two \o <<end>>
           q == three \o accounts
<1>1. q = Download(s)
    BY DEF Download, AccountsDownload
<1>2. /\ EventOK(s, settings) /\ Unmarked(settings)
      /\ settings.kind \notin {"PositionUpdate", "ParametersUpdate"}
      /\ EventOK(s, begin) /\ IsBegin(begin) /\ ~IsStatus(begin) /\ ~IsEnd(begin)
      /\ begin.kind \notin {"PositionUpdate", "ParametersUpdate"}
      /\ EventOK(s, status) /\ IsStatus(status) /\ ~IsBegin(status) /\ ~IsEnd(status)
      /\ status.kind \notin {"PositionUpdate", "ParametersUpdate"}
      /\ EventOK(s, end) /\ IsEnd(end) /\ ~IsBegin(end) /\ ~IsStatus(end)
      /\ end.kind \notin {"PositionUpdate", "ParametersUpdate"}
    BY DEF Plain, OfAccount, EventOK, Unmarked, IsData, IsStatus, IsBegin, IsEnd
<1> HIDE DEF settings, begin, status, end
<1>3. /\ EventsOK(s, first) /\ AllTellHeld(s, first)
      /\ Marks(first)
      /\ 2 \in DOMAIN first /\ IsBegin(first[2])
      /\ \A i \in DOMAIN first : ~IsEnd(first[i])
    <2>1. /\ IsSequence(first)
          /\ DOMAIN first = {1, 2, 3}
          /\ first[1] = settings /\ first[2] = begin /\ first[3] = status
        BY ThreeEvents
    <2> HIDE DEF first
    <2>2. EventsOK(s, first) /\ AllTellHeld(s, first)
        BY <1>2, <2>1 DEF EventsOK, AllTellHeld, TellsHeld
    <2>3. /\ \A i \in DOMAIN first : IsStatus(first[i]) <=> i = 3
          /\ \A i \in DOMAIN first : IsBegin(first[i]) <=> i = 2
          /\ \A i \in DOMAIN first : ~IsEnd(first[i])
        BY <1>2, <2>1 DEF Unmarked
    <2>4. Marks(first)
        BY <2>1, <2>3 DEF Marks
    <2>5. QED
        BY <2>1, <2>2, <2>3, <2>4
<1>4. /\ EventsOK(s, <<end>>) /\ AllTellHeld(s, <<end>>)
    BY <1>2, OneEvent DEF EventsOK, AllTellHeld, TellsHeld
<1>5. EventsOK(s, data) /\ AllUnmarked(data) /\ AllTellHeld(s, data)
    BY MarketsDownloadFacts
<1>6. /\ EventsOK(s, accounts) /\ AllUnmarked(accounts) /\ AllTellHeld(s, accounts)
      /\ \A x \in Holdings : Through(s, x) => Told(s, accounts, x)
    BY AccountsDownloadFacts
<1> HIDE DEF first, data, accounts
<1>7. /\ EventsOK(s, two) /\ AllTellHeld(s, two)
      /\ Marks(two)
      /\ 2 \in DOMAIN two /\ IsBegin(two[2])
      /\ \A i \in DOMAIN two : ~IsEnd(two[i])
    <2>1. EventsOK(s, two) /\ AllTellHeld(s, two)
        BY <1>3, <1>5, ConcatEvents
    <2>2. /\ Marks(two)
          /\ \A i \in DOMAIN two : ~Unmarked(two[i]) => i \in DOMAIN first /\ two[i] = first[i]
          /\ \A i \in DOMAIN first : i \in DOMAIN two /\ two[i] = first[i]
        BY <1>3, <1>5, MarksConcat DEF EventsOK
    <2> HIDE DEF two
    <2>3. QED
        BY <1>3, <2>1, <2>2 DEF Unmarked
<1> HIDE DEF two
<1>8. /\ EventsOK(s, three) /\ AllTellHeld(s, three)
      /\ Marks(three)
      /\ 2 \in DOMAIN three /\ IsBegin(three[2])
    <2>1. EventsOK(s, three) /\ AllTellHeld(s, three)
        BY <1>4, <1>7, ConcatEvents
    <2>2. IsConcat(two, <<end>>, three) /\ Len(<<end>>) = 1
        BY <1>4, <1>7, ConcatFacts DEF EventsOK
    <2>3. /\ DOMAIN <<end>> = {1} /\ <<end>>[1] = end
          /\ DOMAIN two = 1..Len(two) /\ DOMAIN three = 1..Len(three)
        BY <1>7, <2>2, OneEvent, SequenceDomain DEF IsConcat, EventsOK
    <2> HIDE DEF three
    <2>4. /\ \A i \in DOMAIN three : \/ i \in DOMAIN two /\ three[i] = two[i]
                                     \/ i = Len(two) + 1 /\ three[i] = end
          /\ \A i \in DOMAIN two : i \in DOMAIN three /\ three[i] = two[i]
        BY <2>2, <2>3 DEF IsConcat
    <2>5. Marks(three)
        BY <1>2, <1>7, <2>4 DEF Marks
    <2>6. QED
        BY <1>7, <2>1, <2>4, <2>5
<1> HIDE DEF three
<1>9. /\ EventsOK(s, q) /\ AllTellHeld(s, q)
      /\ \A x : Told(s, accounts, x) => Told(s, q, x)
    BY <1>6, <1>8, ConcatEvents
<1>10. Marks(q) /\ 2 \in DOMAIN q /\ IsBegin(q[2])
    BY <1>6, <1>8, MarksConcat DEF EventsOK
<1> HIDE DEF q
<1>11. QED
    BY <1>1, <1>6, <1>9, <1>10
-----------------------------------------------------------------------------
(* The parameters of the file are a sequence, and all of them are in it.   *)
LEMMA MappedSequence ==
    ASSUME NEW n \in Nat, NEW s, s = [i \in 1..n |-> s[i]]
    PROVE  IsSequence(s)
<1>1. DOMAIN s = 1..n /\ \A i \in 1..n : s[i] \in {s[j] : j \in DOMAIN s}
    OBVIOUS
<1>2. s \in Seq({s[j] : j \in DOMAIN s})
    BY <1>1
<1>3. QED
    BY <1>2 DEF IsSequence

LEMMA EmptyLen ==
    ASSUME NEW s, IsSequence(s)
    PROVE  Len(s) = 0 <=> s = <<>>
BY DEF IsSequence

(* One value of a table of the file, as a parameter of one account.        *)
FileParameter(node, account, j) ==
    [label |-> node.label, exchange |-> node.exchange, account |-> account,
     strategy_id |-> Number[node.strategy], symbol |-> node.symbol.values[j],
     value |-> node.value.values[IF j < Len(node.value.values) THEN j
                                 ELSE Len(node.value.values)]]

InList(q, p) == \E n \in DOMAIN q : q[n] = p
HasAll(q, node, account) ==
    node.value.values # <<>> =>
        \A j \in DOMAIN node.symbol.values : InList(q, FileParameter(node, account, j))

LEMMA ConcatInList ==
    ASSUME NEW q, IsSequence(q), NEW r, IsSequence(r)
    PROVE  \A p : InList(q, p) \/ InList(r, p) => InList(q \o r, p)
<1> DEFINE u == q \o r
<1>1. IsConcat(q, r, u)
    BY ConcatFacts
<1>2. DOMAIN q = 1..Len(q) /\ DOMAIN r = 1..Len(r) /\ DOMAIN u = 1..Len(u)
    BY <1>1, SequenceDomain DEF IsConcat
<1> HIDE DEF u
<1>3. \A n \in DOMAIN q : n \in DOMAIN u /\ u[n] = q[n]
    BY <1>1, <1>2 DEF IsConcat
<1>4. \A n \in DOMAIN r : Len(q) + n \in DOMAIN u /\ u[Len(q) + n] = r[n]
    BY <1>1, <1>2 DEF IsConcat
<1>5. QED
    BY <1>3, <1>4 DEF InList, u

LEMMA SymbolsFacts ==
    ASSUME NEW n \in DOMAIN File.parameter, NEW account
    PROVE  LET all == AddAllSymbols(File.parameter[n], account)
           IN  IsSequence(all) /\ HasAll(all, File.parameter[n], account)
<1> DEFINE node == File.parameter[n]
           pairs == get_pairs(node.symbol, node.value)
           all == AddAllSymbols(node, account)
<1>1. IsSequence(node.symbol.values)
    BY FileAssumption
<1>2. Len(node.symbol.values) \in Nat /\ DOMAIN node.symbol.values = 1..Len(node.symbol.values)
    BY <1>1, SequenceDomain
<1>3. \E m \in Nat : DOMAIN pairs = 1..m
    <2>1. CASE node.symbol.is = "missing" /\ node.value.is # "missing"
        <3>1. pairs = <<<<"", node.value.values[1]>>>>
            BY <2>1 DEF get_pairs
        <3> HIDE DEF pairs
        <3>2. DOMAIN pairs = {1}
            BY <3>1, OneEvent
        <3>3. 1 \in Nat /\ 1..1 = {1}
            OBVIOUS
        <3>4. QED
            BY <3>2, <3>3
    <2>2. CASE ~(node.symbol.is = "missing" /\ node.value.is # "missing")
        <3>1. DOMAIN pairs =
                IF Len(node.value.values) = 0 THEN {} ELSE DOMAIN node.symbol.values
            BY <2>2 DEF get_pairs
        <3>2. 1..0 = {}
            OBVIOUS
        <3>3. QED
            BY <1>2, <3>1, <3>2
    <2>3. QED
        BY <2>1, <2>2
<1>4. PICK m \in Nat : DOMAIN pairs = 1..m
    BY <1>3
<1> HIDE DEF pairs
<1>5. all = [i \in 1..m |->
               [label |-> node.label, exchange |-> node.exchange, account |-> account,
                strategy_id |-> Number[node.strategy],
                symbol |-> pairs[i][1], value |-> pairs[i][2]]]
    BY <1>4 DEF AddAllSymbols, pairs
<1>6. ASSUME NEW j \in DOMAIN node.symbol.values, node.value.values # <<>>
      PROVE  InList(all, FileParameter(node, account, j))
    <2>1. node.symbol.values # <<>>
        BY <1>2, EmptyLen
    <2>2. node.symbol.is # "missing" /\ IsSequence(node.value.values)
        BY <2>1, FileAssumption
    <2>3. Len(node.value.values) # 0
        BY <1>6, <2>2, EmptyLen
    <2>4. pairs = [i \in DOMAIN node.symbol.values |->
                     <<node.symbol.values[i],
                       node.value.values[IF i < Len(node.value.values) THEN i
                                         ELSE Len(node.value.values)]>>]
        BY <2>2, <2>3 DEF get_pairs, pairs
    <2>5. /\ j \in 1..m
          /\ pairs[j][1] = node.symbol.values[j]
          /\ pairs[j][2] = node.value.values[IF j < Len(node.value.values) THEN j
                                             ELSE Len(node.value.values)]
        BY <1>4, <2>4
    <2>6. j \in DOMAIN all /\ all[j] = FileParameter(node, account, j)
        BY <1>5, <2>5 DEF FileParameter
    <2>7. QED
        BY <2>6 DEF InList
<1> HIDE DEF node
<1>7. all = [i \in 1..m |-> all[i]]
    BY <1>5
<1> HIDE DEF all
<1>8. IsSequence(all)
    BY <1>7, MappedSequence
<1>9. HasAll(all, node, account)
    BY <1>6 DEF HasAll
<1>10. QED
    BY <1>8, <1>9 DEF all, node

(* The parameters that are in the list after some accounts of a table, and *)
(* after some tables; c is the table and the list before.                  *)
SymbolsStep(c, sum, account) == sum \o AddAllSymbols(c[1], account)
NodeStep(c, acc, node) ==
    FoldLeft(LAMBDA sum, account : sum \o AddAllSymbols(node, account), acc, Accounts(node))
AccountsIn(c, i, acc) ==
    /\ IsSequence(acc)
    /\ \A p : InList(c[2], p) => InList(acc, p)
    /\ \A a \in 1..i : HasAll(acc, c[1], Accounts(c[1])[a])
NodeIn(q, node) == \A account \in ToSet(node.account.values) : HasAll(q, node, account)
NodesIn(c, i, acc) ==
    IsSequence(acc) /\ \A n \in 1..i : NodeIn(acc, File.parameter[n])

AccountList == INSTANCE FoldLemmas WITH Op <- SymbolsStep, Good <- AccountsIn
NodeList == INSTANCE FoldLemmas WITH Op <- NodeStep, Good <- NodesIn

LEMMA InListAll ==
    ASSUME NEW q, NEW r, \A p : InList(q, p) => InList(r, p)
    PROVE  \A node : /\ \A account : HasAll(q, node, account) => HasAll(r, node, account)
                     /\ NodeIn(q, node) => NodeIn(r, node)
BY DEF HasAll, NodeIn

LEMMA NodeStepFacts ==
    ASSUME NEW n \in DOMAIN File.parameter, NEW acc, IsSequence(acc)
    PROVE  LET q == NodeStep(0, acc, File.parameter[n])
           IN  /\ IsSequence(q)
               /\ \A p : InList(acc, p) => InList(q, p)
               /\ NodeIn(q, File.parameter[n])
<1> DEFINE node == File.parameter[n]
           list == Accounts(node)
           k == Len(list)
           c == <<node, acc>>
<1>1. /\ IsSequence(list)
      /\ node.account.values # <<>> => list = node.account.values
    BY FileAssumption, OneEvent DEF Accounts, get_values
<1>2. k \in Nat /\ DOMAIN list = 1..k
    BY <1>1, SequenceDomain
<1> HIDE DEF list, k
<1>3. ASSUME NEW j \in 1..k, NEW sum, AccountsIn(c, j - 1, sum)
      PROVE  AccountsIn(c, j, SymbolsStep(c, sum, list[j]))
    <2> DEFINE all == AddAllSymbols(node, list[j])
               next == sum \o all
    <2>1. IsSequence(all) /\ HasAll(all, node, list[j])
        BY SymbolsFacts
    <2>2. IsSequence(sum)
        BY <1>3 DEF AccountsIn
    <2> HIDE DEF all
    <2>3. /\ IsSequence(next)
          /\ \A p : InList(sum, p) \/ InList(all, p) => InList(next, p)
        BY <2>1, <2>2, ConcatFacts, ConcatInList DEF IsConcat
    <2> HIDE DEF next
    <2>4. \A account : HasAll(sum, node, account) \/ HasAll(all, node, account) =>
                          HasAll(next, node, account)
        BY <2>3 DEF HasAll
    <2>5. ASSUME NEW a \in 1..j
          PROVE  HasAll(next, node, list[a])
        <3>1. CASE a = j
            BY <2>1, <2>4, <3>1
        <3>2. CASE a # j
            <4>1. a \in 1..j - 1
                BY <1>2, <3>2
            <4>2. HasAll(sum, node, list[a])
                BY <1>3, <4>1 DEF AccountsIn, c, list
            <4>3. QED
                BY <2>4, <4>2
        <3>3. QED
            BY <3>1, <3>2
    <2>6. \A p : InList(acc, p) => InList(next, p)
        BY <1>3, <2>3 DEF AccountsIn, c
    <2>7. SymbolsStep(c, sum, list[j]) = next
        BY DEF SymbolsStep, c, next, all
    <2>8. c[1] = node /\ c[2] = acc /\ list = Accounts(node)
        BY DEF c, list
    <2> HIDE DEF c, node
    <2>9. QED
        BY <2>3, <2>5, <2>6, <2>7, <2>8 DEF AccountsIn
<1>4. AccountsIn(c, 0, acc)
    BY DEF AccountsIn, c
<1>5. AccountsIn(c, k, AccountList!Folded(c, acc, list))
    <2> HIDE DEF c
    <2>1. QED
        BY <1>2, <1>3, <1>4, AccountList!FoldKeeps, SetInduction
<1>6. NodeStep(0, acc, node) = AccountList!Folded(c, acc, list)
    BY DEF list, NodeStep, SymbolsStep, AccountList!Folded, AccountList!Max,
           FoldLeft, MapThenFoldSet, Max
<1> DEFINE q == NodeStep(0, acc, node)
<1>7. AccountsIn(c, k, q)
    BY <1>5, <1>6
<1> HIDE DEF q
<1>8. NodeIn(q, node)
    <2>1. ASSUME NEW account \in ToSet(node.account.values)
          PROVE  HasAll(q, node, account)
        <3>1. PICK a \in DOMAIN node.account.values : account = node.account.values[a]
            BY DEF ToSet
        <3>2. node.account.values # <<>>
            BY <3>1
        <3>3. a \in 1..k /\ account = list[a]
            BY <1>1, <1>2, <3>1, <3>2
        <3>4. QED
            BY <1>7, <3>3 DEF AccountsIn, c, list
    <2>2. QED
        BY <2>1 DEF NodeIn
<1>9. QED
    BY <1>7, <1>8 DEF AccountsIn, c, q

LEMMA LoadedFacts ==
    /\ IsSequence(Loaded)
    /\ UseTomlParameters => \A n \in DOMAIN File.parameter : NodeIn(Loaded, File.parameter[n])
<1>1. CASE ~UseTomlParameters
    BY <1>1, NoEvents DEF Loaded, EventsOK
<1>2. CASE UseTomlParameters
    <2> DEFINE m == Len(File.parameter)
    <2>1. m \in Nat /\ DOMAIN File.parameter = 1..m
        BY FileAssumption, SequenceDomain
    <2> HIDE DEF m
    <2>2. NodesIn(0, 0, <<>>)
        BY NoEvents DEF NodesIn, EventsOK
    <2>3. ASSUME NEW i \in 1..m, NEW acc, NodesIn(0, i - 1, acc)
          PROVE  NodesIn(0, i, NodeStep(0, acc, File.parameter[i]))
        <3> DEFINE q == NodeStep(0, acc, File.parameter[i])
        <3>1. /\ IsSequence(q)
              /\ \A p : InList(acc, p) => InList(q, p)
              /\ NodeIn(q, File.parameter[i])
            BY <2>1, <2>3, NodeStepFacts DEF NodesIn
        <3> HIDE DEF q
        <3>2. \A node : NodeIn(acc, node) => NodeIn(q, node)
            BY <3>1, InListAll
        <3>3. ASSUME NEW n \in 1..i
              PROVE  NodeIn(q, File.parameter[n])
            <4>1. n = i \/ n \in 1..i - 1
                OBVIOUS
            <4>2. QED
                BY <2>3, <3>1, <3>2, <4>1 DEF NodesIn
        <3>4. QED
            BY <3>1, <3>3 DEF NodesIn, q
    <2>4. NodesIn(0, m, NodeList!Folded(0, <<>>, File.parameter))
        BY <2>1, <2>2, <2>3, NodeList!FoldKeeps, SetInduction
    <2>5. Loaded = NodeList!Folded(0, <<>>, File.parameter)
        BY <1>2 DEF Loaded, NodeStep, NodeList!Folded, NodeList!Max,
               FoldLeft, MapThenFoldSet, Max
    <2>6. QED
        BY <2>1, <2>4, <2>5 DEF NodesIn
<1>3. QED
    BY <1>1, <1>2, ConfigAssumption
-----------------------------------------------------------------------------
(* The gateways, and the numbers that books take from them.                *)
GatewayFields == {"gateway_name", "downloading", "available", "accounts"}

GatewaysOK(gs) ==
    \A s \in DOMAIN gs :
        s \in Sources /\ DOMAIN gs[s] = GatewayFields /\ gs[s].available \subseteq MdSupport

IdsOK(ids) == \A name \in DOMAIN ids : ids[name] \in Sources /\ SourceName[ids[name]] = name

Ready(gs, s) == s \in DOMAIN gs /\ MdSupport \subseteq gs[s].available
Loading(gs, s) == s \in DOMAIN gs /\ gs[s].downloading

(* What an event says of its gateway, which is all that changes.           *)
Follows(gs, hs, s, e) ==
    /\ \A r : r # s => (r \in DOMAIN hs <=> r \in DOMAIN gs)
    /\ \A r \in DOMAIN gs : r # s => hs[r] = gs[r]
    /\ Ready(hs, s) => IsStatus(e) \/ (Ready(gs, s) /\ e.kind # "Disconnected")
    /\ IsBegin(e) => Loading(hs, s)
    /\ Loading(gs, s) /\ ~IsEnd(e) => Loading(hs, s)

LEMMA CacheFacts ==
    ASSUME NEW g, DOMAIN g = GatewayFields, g.available \subseteq MdSupport,
           NEW e, IsStatus(e) => e.available = MdSupport
    PROVE  LET h == CacheGateway(g, e)
           IN  /\ DOMAIN h = GatewayFields
               /\ h.available \subseteq MdSupport
               /\ MdSupport \subseteq h.available =>
                    IsStatus(e) \/ (MdSupport \subseteq g.available /\ e.kind # "Disconnected")
               /\ IsBegin(e) => h.downloading
               /\ g.downloading /\ ~IsEnd(e) => h.downloading
<1> DEFINE h == CacheGateway(g, e)
<1> USE DEF GatewayFields
<1>1. CASE e.kind = "DownloadBegin"
    <2>1. h = Downloads(g, e.account, TRUE)
        BY <1>1 DEF CacheGateway
    <2>2. /\ DOMAIN h = GatewayFields
          /\ h.available = g.available
          /\ e.account = "" => h.downloading = TRUE
          /\ e.account # "" => h.downloading = g.downloading
        BY <2>1 DEF Downloads
    <2> HIDE DEF h
    <2>3. QED
        BY <1>1, <2>2 DEF IsBegin, IsEnd, h
<1>2. CASE e.kind = "DownloadEnd"
    <2>1. h = Downloads(g, e.account, FALSE)
        BY <1>2 DEF CacheGateway
    <2>2. /\ DOMAIN h = GatewayFields
          /\ h.available = g.available
          /\ e.account = "" => h.downloading = FALSE
          /\ e.account # "" => h.downloading = g.downloading
        BY <2>1 DEF Downloads
    <2> HIDE DEF h
    <2>3. QED
        BY <1>2, <2>2 DEF IsBegin, IsEnd, h
<1>3. CASE e.kind = "GatewayStatus"
    <2>1. h = [g EXCEPT !.available = e.available]
        BY <1>3 DEF CacheGateway
    <2>2. QED
        BY <1>3, <2>1 DEF IsBegin, IsEnd, IsStatus
<1>4. CASE e.kind = "Disconnected"
    <2>1. h = [g EXCEPT !.available = {}]
        BY <1>4 DEF CacheGateway
    <2>2. "TOP_OF_BOOK" \in MdSupport
        BY DEF MdSupport
    <2> HIDE DEF h
    <2>3. /\ DOMAIN h = GatewayFields
          /\ h.available = {}
          /\ h.downloading = g.downloading
        BY <2>1
    <2>4. QED
        BY <1>4, <2>2, <2>3 DEF IsBegin, h
<1>5. CASE e.kind \notin {"DownloadBegin", "DownloadEnd", "GatewayStatus", "Disconnected"}
    <2>1. h = g
        BY <1>5 DEF CacheGateway
    <2>2. QED
        BY <1>5, <2>1 DEF IsBegin
<1>6. QED
    BY <1>1, <1>2, <1>3, <1>4, <1>5

LEMMA GatewaysFacts ==
    ASSUME GatewaysOK(gateway_by_id), IdsOK(gateway_id_by_name),
           NEW s \in Sources, NEW e, EventOK(s, e), GatewaysHandle(e)
    PROVE  /\ GatewaysOK(gateway_by_id')
           /\ IdsOK(gateway_id_by_name')
           /\ Follows(gateway_by_id, gateway_by_id', s, e)
<1> DEFINE g == Get(gateway_by_id, s, emplace_gateway(s))
           h == CacheGateway(g, e)
<1>1. e.source = s /\ (IsStatus(e) => e.available = MdSupport)
    BY DEF EventOK
<1>2. /\ gateway_by_id' = Put(gateway_by_id, s, h)
      /\ gateway_id_by_name' = Put(gateway_id_by_name, SourceName[s], s)
    BY <1>1 DEF GatewaysHandle
<1>3. /\ DOMAIN g = GatewayFields
      /\ g.available \subseteq MdSupport
      /\ Loading(gateway_by_id, s) => g.downloading
      /\ MdSupport \subseteq g.available => Ready(gateway_by_id, s)
    <2>1. CASE s \in DOMAIN gateway_by_id
        BY <2>1 DEF Get, GatewaysOK, Loading, Ready
    <2>2. CASE s \notin DOMAIN gateway_by_id
        <3>1. g = emplace_gateway(s)
            BY <2>2 DEF Get
        <3>2. LET new == emplace_gateway(s)
              IN  DOMAIN new = GatewayFields /\ new.available = {}
            BY DEF emplace_gateway, GatewayFields
        <3>3. "TOP_OF_BOOK" \in MdSupport
            BY DEF MdSupport
        <3>4. QED
            BY <2>2, <3>1, <3>2, <3>3 DEF Loading
    <2>3. QED
        BY <2>1, <2>2
<1> HIDE DEF g
<1>4. /\ DOMAIN h = GatewayFields
      /\ h.available \subseteq MdSupport
      /\ MdSupport \subseteq h.available =>
           IsStatus(e) \/ (MdSupport \subseteq g.available /\ e.kind # "Disconnected")
      /\ IsBegin(e) => h.downloading
      /\ g.downloading /\ ~IsEnd(e) => h.downloading
    BY <1>1, <1>3, CacheFacts
<1> HIDE DEF h
<1>5. /\ DOMAIN gateway_by_id' = DOMAIN gateway_by_id \cup {s}
      /\ gateway_by_id'[s] = h
      /\ \A r \in DOMAIN gateway_by_id : r # s => gateway_by_id'[r] = gateway_by_id[r]
    BY <1>2 DEF Put
<1>6. /\ DOMAIN gateway_id_by_name' = DOMAIN gateway_id_by_name \cup {SourceName[s]}
      /\ \A name \in DOMAIN gateway_id_by_name' :
           gateway_id_by_name'[name] = IF name = SourceName[s] THEN s
                                       ELSE gateway_id_by_name[name]
    BY <1>2 DEF Put
<1>7. GatewaysOK(gateway_by_id')
    BY <1>4, <1>5 DEF GatewaysOK
<1>8. IdsOK(gateway_id_by_name')
    BY <1>6 DEF IdsOK
<1>9. Follows(gateway_by_id, gateway_by_id', s, e)
    BY <1>3, <1>4, <1>5 DEF Follows, Ready, Loading
<1>10. QED
    BY <1>7, <1>8, <1>9

LEMMA ProcessedFacts ==
    ASSUME NEW ms, NEW bs, BooksOK(bs, ms), NEW ids, IdsOK(ids)
    PROVE  /\ BooksOK(Processed(bs, ids), ms)
           /\ BooksNamed(bs) => BooksNamed(Processed(bs, ids))
<1> DEFINE cs == Processed(bs, ids)
<1>1. DOMAIN cs = DOMAIN bs /\ \A b \in DOMAIN bs : cs[b] = Resolved(bs[b], ids)
    BY DEF Processed
<1> HIDE DEF cs
<1>2. ASSUME NEW b \in DOMAIN bs
      PROVE  BookOK(cs, ms, b) /\ cs[b].trade_gateway_name = bs[b].trade_gateway_name
    <2>1. BookOK(bs, ms, b) /\ cs[b] = Resolved(bs[b], ids)
        BY <1>1 DEF BooksOK
    <2>2. CASE bs[b].trade_gateway_id < 0
        <3>1. cs[b] = [bs[b] EXCEPT !.trade_gateway_id =
                                        get_source(ids, bs[b].trade_gateway_name)]
            BY <2>1, <2>2 DEF Resolved
        <3>2. /\ DOMAIN cs[b] = DOMAIN bs[b]
              /\ cs[b].key = bs[b].key
              /\ cs[b].trade_gateway_name = bs[b].trade_gateway_name
              /\ cs[b].trade_gateway_id = get_source(ids, bs[b].trade_gateway_name)
            BY <2>1, <3>1 DEF BookOK
        <3>3. QED
            BY <2>1, <3>2 DEF BookOK, get_source, Get, IdsOK
    <2>3. CASE ~(bs[b].trade_gateway_id < 0)
        <3>1. cs[b] = bs[b]
            BY <2>1, <2>3 DEF Resolved
        <3>2. QED
            BY <2>1, <3>1 DEF BookOK
    <2>4. QED
        BY <2>2, <2>3
<1>3. QED
    BY <1>1, <1>2 DEF BooksOK, BooksNamed, cs

LEMMA NamedGatewayFacts ==
    ASSUME NEW ms, NEW bs, BooksOK(bs, ms), NEW s \in Sources
    PROVE  LET cs == NamedGateway(bs, s, SourceName[s])
           IN  /\ BooksOK(cs, ms)
               /\ BooksNamed(bs) => BooksNamed(cs)
<1> DEFINE cs == NamedGateway(bs, s, SourceName[s])
<1>1. /\ DOMAIN cs = DOMAIN bs
      /\ \A b \in DOMAIN bs :
           cs[b] = IF bs[b].trade_gateway_name = SourceName[s]
                   THEN [bs[b] EXCEPT !.trade_gateway_id = s] ELSE bs[b]
    BY DEF NamedGateway
<1> HIDE DEF cs
<1>2. ASSUME NEW b \in DOMAIN bs
      PROVE  BookOK(cs, ms, b) /\ cs[b].trade_gateway_name = bs[b].trade_gateway_name
    <2>1. BookOK(bs, ms, b)
        BY DEF BooksOK
    <2>2. QED
        BY <1>1, <2>1 DEF BookOK
<1>3. QED
    BY <1>1, <1>2 DEF BooksOK, BooksNamed, cs
-----------------------------------------------------------------------------
(* Whatever target quotes the pricer sends, each has a book with a gateway *)
(* when the file is complete.                                              *)
LEMMA TargetBookFacts ==
    ASSUME NEW ms, NEW b
    PROVE  LET book == TargetBook(ms, b)
           IN  /\ book.key = ms.by_id[b.market].key
               /\ book.trade_gateway_id = NoSource
               /\ DOMAIN book = {"key", "trade_gateway_id", "trade_gateway_name"}
               /\ get_trade_gateway(ms.by_id[b.market].key[1], b.account) # ""
                    => book.trade_gateway_name # ""
<1> DEFINE m == ms.by_id[b.market]
           book == NewBook(m.key, b.account, m.mdata_gateway_name)
<1>1. /\ book.key = m.key
      /\ book.trade_gateway_id = NoSource
      /\ book.trade_gateway_name =
           IF m.mdata_gateway_name # "" THEN m.mdata_gateway_name
           ELSE get_trade_gateway(m.key[1], b.account)
      /\ DOMAIN book = {"key", "trade_gateway_id", "trade_gateway_name"}
    BY DEF NewBook
<1>2. TargetBook(ms, b) = book
    BY DEF TargetBook
<1> HIDE DEF book
<1>3. QED
    BY <1>1, <1>2

LEMMA TargetQuotesFacts ==
    ASSUME NEW ms, MarketsOK(ms), NEW bs, BooksOK(bs, ms), NEW ss, StrategiesOK(ss, ms),
           NEW holds, IdsOK(gateway_id_by_name'), TargetQuotes(bs, ss, ms, holds)
    PROVE  /\ BooksOK(books', ms)
           /\ phase' \in {"running", "failed"}
           /\ GatewaysLoaded /\ LegsTradable(ss, ms) /\ BooksNamed(bs) =>
                BooksNamed(books') /\ (holds => phase' = "running")
<1>1. PICK sent \in SUBSET Quotable(ss, ms) :
        LET given == [b \in DOMAIN bs \cup sent |->
                        IF b \in DOMAIN bs THEN bs[b] ELSE TargetBook(ms, b)]
        IN  /\ books' = IF sent = {} THEN bs ELSE Processed(given, gateway_id_by_name')
            /\ phase' = IF /\ holds
                           /\ \A b \in sent : given[b].trade_gateway_name # ""
                        THEN "running" ELSE "failed"
    BY DEF TargetQuotes
<1> DEFINE given == [b \in DOMAIN bs \cup sent |->
                        IF b \in DOMAIN bs THEN bs[b] ELSE TargetBook(ms, b)]
<1>2. /\ books' = IF sent = {} THEN bs ELSE Processed(given, gateway_id_by_name')
      /\ phase' = IF holds /\ \A b \in sent : given[b].trade_gateway_name # ""
                  THEN "running" ELSE "failed"
    BY <1>1
<1>3. /\ DOMAIN given = DOMAIN bs \cup sent
      /\ \A b \in DOMAIN bs : given[b] = bs[b]
      /\ \A b \in sent : b \notin DOMAIN bs => given[b] = TargetBook(ms, b)
    OBVIOUS
<1> HIDE DEF given
<1>4. ASSUME NEW b \in sent
      PROVE  /\ b = BookKey(b.strategy, b.account, b.market)
             /\ b.market \in DOMAIN ms.by_id
             /\ LegsTradable(ss, ms) => FileTrades(ms.by_id[b.market].key[1], b.account)
    <2>1. /\ b \in UNION {{BookKey(s, l[1], l[2]) : l \in DOMAIN ss[s].legs} : s \in DOMAIN ss}
          /\ b.account # ""
        BY DEF Quotable
    <2>2. PICK s, l : s \in DOMAIN ss /\ l \in DOMAIN ss[s].legs /\ b = BookKey(s, l[1], l[2])
        BY <2>1
    <2>3. b.strategy = s /\ b.account = l[1] /\ b.market = l[2]
        BY <2>2 DEF BookKey
    <2>4. l[2] \in DOMAIN ms.by_id
        BY <2>2 DEF StrategiesOK, StrategyOK
    <2>5. LegsTradable(ss, ms) => FileTrades(ms.by_id[l[2]].key[1], l[1])
        BY <2>1, <2>2, <2>3 DEF LegsTradable, LegTradable
    <2>6. QED
        BY <2>2, <2>3, <2>4, <2>5
<1>5. ASSUME NEW b \in sent
      PROVE  LET book == TargetBook(ms, b)
             IN  /\ book.key = ms.by_id[b.market].key
                 /\ book.trade_gateway_id = NoSource
                 /\ DOMAIN book = {"key", "trade_gateway_id", "trade_gateway_name"}
                 /\ GatewaysLoaded /\ LegsTradable(ss, ms) => book.trade_gateway_name # ""
    <2>1. GatewaysLoaded /\ LegsTradable(ss, ms) =>
            get_trade_gateway(ms.by_id[b.market].key[1], b.account) # ""
        BY <1>4 DEF GatewaysLoaded
    <2>2. QED
        BY <2>1, TargetBookFacts
<1>6. BooksOK(given, ms)
    BY <1>3, <1>4, <1>5 DEF BooksOK, BookOK
<1>7. GatewaysLoaded /\ LegsTradable(ss, ms) /\ BooksNamed(bs) =>
        BooksNamed(given) /\ \A b \in sent : given[b].trade_gateway_name # ""
    BY <1>3, <1>5 DEF BooksNamed
<1>8. BooksOK(books', ms)
    BY <1>2, <1>6, ProcessedFacts
<1>9. GatewaysLoaded /\ LegsTradable(ss, ms) /\ BooksNamed(bs) => BooksNamed(books')
    BY <1>2, <1>6, <1>7, ProcessedFacts
<1>10. QED
    BY <1>2, <1>7, <1>8, <1>9
-----------------------------------------------------------------------------
(* Steps of the core.  CoreOK is kept by every one; Complete is kept when  *)
(* the file and the updates are complete.                                  *)
CoreOK ==
    /\ MarketsOK(markets) /\ MarketsNamed(markets)
    /\ DOMAIN best_quotes \subseteq DOMAIN markets.by_id
    /\ BooksOK(books, markets)
    /\ StrategiesOK(strategies, markets)
    /\ PortfoliosOK(portfolios)
    /\ GatewaysOK(gateway_by_id)
    /\ IdsOK(gateway_id_by_name)

Complete ==
    /\ GatewaysLoaded
    /\ BooksNamed(books)
    /\ LegsTradable(strategies, markets)

(* What the core knows stays: markets keep their numbers, strategies their *)
(* legs with position and quotes, portfolios their positions.              *)
Kept ==
    /\ Grows(markets, markets')
    /\ StrategiesKept(strategies, strategies')
    /\ PortfoliosGrow(portfolios, portfolios')

LEMMA GatewaysStay ==
    ASSUME GatewaysLoaded, UNCHANGED trade_gateways
    PROVE  GatewaysLoaded'
BY DEF GatewaysLoaded, get_trade_gateway

LEMMA PortfoliosSame ==
    ASSUME NEW ps
    PROVE  PortfoliosGrow(ps, ps)
BY DEF PortfoliosGrow

LEMMA ParametersStep ==
    ASSUME CoreOK, NEW update, IsSequence(update), ParametersHandled(update)
    PROVE  /\ CoreOK'
           /\ Kept
           /\ phase' \in {"running", "failed"}
           /\ AllComplete(update) /\ Complete => Complete' /\ phase' = "running"
           /\ \A j \in DOMAIN update :
                Prefix(update[j].label) = "lqs" /\ update[j].strategy_id # 0 =>
                    update[j].strategy_id \in DOMAIN strategies'
<1> DEFINE oms == OmsFolded(update)
           asserts == oms.holds /\ \A i \in DOMAIN update : PortfolioAsserts(update[i])
           pricer == PricerFolded(oms.markets, strategies, asserts, update)
<1>1. /\ UNCHANGED <<gatewayVars, trade_gateways, best_quotes>>
      /\ portfolios' = FoldLeft(PortfolioParameter, portfolios, update)
      /\ markets' = pricer.markets
      /\ strategies' = pricer.strategies
      /\ TargetQuotes(oms.books, pricer.strategies, pricer.markets, pricer.holds)
    BY DEF ParametersHandled, OmsFolded, PricerFolded
<1>2. OmsGood(<<markets, update, books>>, Len(update), oms)
    BY OmsFoldedFacts DEF CoreOK
<1> HIDE DEF oms
<1>3. /\ MarketsOK(oms.markets)
      /\ Grows(markets, oms.markets)
      /\ MarketsNamed(oms.markets)
      /\ BooksOK(oms.books, oms.markets)
      /\ GatewaysLoaded /\ AllComplete(update) /\ BooksNamed(books) =>
           oms.holds /\ BooksNamed(oms.books)
    BY <1>2 DEF OmsGood, CoreOK
<1>4. /\ StrategiesOK(strategies, oms.markets)
      /\ LegsTradable(strategies, markets) => LegsTradable(strategies, oms.markets)
    BY <1>3, StrategiesGrow DEF CoreOK
<1>5. PricerGood(<<oms.markets, strategies, asserts, update>>, Len(update), pricer)
    BY <1>3, <1>4, PricerFoldedFacts
<1> HIDE DEF pricer
<1>6. /\ MarketsOK(pricer.markets)
      /\ Grows(oms.markets, pricer.markets)
      /\ MarketsNamed(pricer.markets)
      /\ StrategiesOK(pricer.strategies, pricer.markets)
      /\ StrategiesKept(strategies, pricer.strategies)
      /\ AllComplete(update) =>
           /\ asserts => pricer.holds
           /\ LegsTradable(strategies, oms.markets) =>
                LegsTradable(pricer.strategies, pricer.markets)
      /\ \A j \in 1..Len(update) :
           Prefix(update[j].label) = "lqs" /\ update[j].strategy_id # 0 =>
               update[j].strategy_id \in DOMAIN pricer.strategies
    BY <1>3, <1>5 DEF PricerGood
<1>7. AllComplete(update) => \A i \in DOMAIN update : PortfolioAsserts(update[i])
    BY DEF AllComplete, ParameterComplete
<1>8. BooksOK(oms.books, pricer.markets)
    BY <1>3, <1>6, BooksGrow
<1>9. IdsOK(gateway_id_by_name') /\ GatewaysOK(gateway_by_id')
    BY <1>1 DEF CoreOK, gatewayVars
<1>10. /\ BooksOK(books', pricer.markets)
       /\ phase' \in {"running", "failed"}
       /\ GatewaysLoaded /\ LegsTradable(pricer.strategies, pricer.markets)
            /\ BooksNamed(oms.books) =>
              BooksNamed(books') /\ (pricer.holds => phase' = "running")
    BY <1>1, <1>6, <1>8, <1>9, TargetQuotesFacts
<1>11. PortfoliosOK(portfolios') /\ PortfoliosGrow(portfolios, portfolios')
    BY <1>1, PortfolioFolded DEF CoreOK
<1>12. Grows(markets, markets')
    BY <1>1, <1>3, <1>6, GrowsFacts DEF CoreOK
<1>13. DOMAIN markets.by_id \subseteq DOMAIN markets'.by_id
    BY <1>1, <1>6, <1>12, GrowsFacts DEF CoreOK
<1>14. CoreOK'
    BY <1>1, <1>6, <1>9, <1>10, <1>11, <1>13 DEF CoreOK
<1>15. Kept
    BY <1>1, <1>6, <1>11, <1>12 DEF Kept
<1>16. ASSUME AllComplete(update), Complete
       PROVE  Complete' /\ phase' = "running"
    <2>1. /\ oms.holds /\ BooksNamed(oms.books)
          /\ LegsTradable(strategies, oms.markets)
          /\ GatewaysLoaded
        BY <1>3, <1>4, <1>16 DEF Complete
    <2>2. asserts
        BY <1>7, <1>16, <2>1
    <2>3. pricer.holds /\ LegsTradable(pricer.strategies, pricer.markets)
        BY <1>6, <1>16, <2>1, <2>2
    <2>4. GatewaysLoaded'
        BY <1>1, <2>1, GatewaysStay
    <2>5. BooksNamed(books') /\ phase' = "running"
        BY <1>10, <2>1, <2>3
    <2>6. QED
        BY <1>1, <2>3, <2>4, <2>5 DEF Complete
<1>17. DOMAIN update = 1..Len(update)
    BY SequenceDomain
<1>18. QED
    BY <1>1, <1>6, <1>10, <1>14, <1>15, <1>16, <1>17

(* What every event but a position does: the core stays well formed and    *)
(* complete, and no leg or portfolio loses a position.                     *)
PositionsStay ==
    /\ Grows(markets, markets')
    /\ \A s \in DOMAIN strategies :
         /\ s \in DOMAIN strategies'
         /\ \A l \in DOMAIN strategies[s].legs :
              /\ l \in DOMAIN strategies'[s].legs
              /\ strategies'[s].legs[l].position = strategies[s].legs[l].position
    /\ PortfoliosGrow(portfolios, portfolios')

Steady ==
    /\ CoreOK'
    /\ phase' \in {"running", "failed"}
    /\ Complete => Complete' /\ phase' = "running"

LEMMA KeptStays ==
    ASSUME Kept
    PROVE  PositionsStay
BY DEF Kept, PositionsStay, StrategiesKept, LegsKept

LEMMA SettingsStep ==
    ASSUME CoreOK, NEW s \in Sources, NEW e, EventOK(s, e), GatewaySettings(e)
    PROVE  Steady /\ Kept
<1>1. /\ phase = "running" /\ phase' = "running"
      /\ GatewaysHandle(e)
      /\ markets' = AssignGateway(markets, s, SourceName[s])
      /\ UNCHANGED <<portfolios, books, trade_gateways, best_quotes, strategies>>
    BY DEF GatewaySettings, EventOK, bookVars
<1>2. GatewaysOK(gateway_by_id') /\ IdsOK(gateway_id_by_name')
    BY <1>1, GatewaysFacts DEF CoreOK
<1>3. /\ MarketsOK(markets')
      /\ Grows(markets, markets')
      /\ MarketsNamed(markets')
    BY <1>1, AssignFacts DEF CoreOK
<1>4. DOMAIN markets.by_id \subseteq DOMAIN markets'.by_id
    BY <1>3, GrowsFacts DEF CoreOK
<1>5. BooksOK(books', markets')
    BY <1>1, <1>3, BooksGrow DEF CoreOK
<1>6. /\ StrategiesOK(strategies', markets')
      /\ LegsTradable(strategies, markets) => LegsTradable(strategies', markets')
    BY <1>1, <1>3, StrategiesGrow DEF CoreOK
<1>7. CoreOK'
    BY <1>1, <1>2, <1>3, <1>4, <1>5, <1>6 DEF CoreOK
<1>8. Kept
    BY <1>1, <1>3, KeptFacts, PortfoliosSame DEF Kept
<1>9. Complete => Complete'
    BY <1>1, <1>6, GatewaysStay DEF Complete
<1>10. QED
    BY <1>1, <1>7, <1>8, <1>9 DEF Steady

LEMMA ReferenceStep ==
    ASSUME CoreOK, NEW e, ReferenceData(e)
    PROVE  Steady /\ Kept
<1>1. /\ phase = "running" /\ phase' = "running"
      /\ markets' = SetTickSize(markets, e.key, e.tick_size)
      /\ UNCHANGED <<gateway_by_id, gateway_id_by_name, portfolios, books, trade_gateways,
                     best_quotes, strategies>>
    BY DEF ReferenceData, gatewayVars, bookVars
<1>2. GatewaysOK(gateway_by_id') /\ IdsOK(gateway_id_by_name')
    BY <1>1 DEF CoreOK
<1>3. /\ MarketsOK(markets')
      /\ Grows(markets, markets')
      /\ MarketsNamed(markets')
    BY <1>1, TickFacts DEF CoreOK
<1>4. DOMAIN markets.by_id \subseteq DOMAIN markets'.by_id
    BY <1>3, GrowsFacts DEF CoreOK
<1>5. BooksOK(books', markets')
    BY <1>1, <1>3, BooksGrow DEF CoreOK
<1>6. /\ StrategiesOK(strategies', markets')
      /\ LegsTradable(strategies, markets) => LegsTradable(strategies', markets')
    BY <1>1, <1>3, StrategiesGrow DEF CoreOK
<1>7. CoreOK'
    BY <1>1, <1>2, <1>3, <1>4, <1>5, <1>6 DEF CoreOK
<1>8. Kept
    BY <1>1, <1>3, KeptFacts, PortfoliosSame DEF Kept
<1>9. Complete => Complete'
    BY <1>1, <1>6, GatewaysStay DEF Complete
<1>10. QED
    BY <1>1, <1>7, <1>8, <1>9 DEF Steady

(* The steps that leave markets, portfolios and strategies alone.          *)
LEMMA BooksStep ==
    ASSUME CoreOK, phase' \in {"running", "failed"},
           UNCHANGED <<markets, portfolios, trade_gateways, best_quotes, strategies>>,
           GatewaysOK(gateway_by_id'), IdsOK(gateway_id_by_name'),
           BooksOK(books', markets),
           Complete => BooksNamed(books') /\ phase' = "running"
    PROVE  Steady /\ Kept
<1>1. CoreOK'
    BY DEF CoreOK
<1>2. Kept
    BY GrowsFacts, KeptFacts, PortfoliosSame DEF Kept, CoreOK
<1>3. Complete => Complete'
    BY GatewaysStay DEF Complete
<1>4. QED
    BY <1>1, <1>2, <1>3 DEF Steady

LEMMA ChangesStep ==
    ASSUME CoreOK, NEW s \in Sources, NEW e, EventOK(s, e), GatewayChanges(e)
    PROVE  Steady /\ Kept
<1>1. /\ phase' = "running"
      /\ GatewaysHandle(e)
      /\ UNCHANGED <<markets, portfolios, books, trade_gateways, best_quotes, strategies>>
    BY DEF GatewayChanges, bookVars
<1>2. GatewaysOK(gateway_by_id') /\ IdsOK(gateway_id_by_name')
    BY <1>1, GatewaysFacts DEF CoreOK
<1>3. BooksOK(books', markets) /\ (Complete => BooksNamed(books'))
    BY <1>1 DEF CoreOK, Complete
<1>4. QED
    BY <1>1, <1>2, <1>3, BooksStep

LEMMA EndStep ==
    ASSUME CoreOK, NEW s \in Sources, NEW e, EventOK(s, e), DownloadEnd(e)
    PROVE  Steady /\ Kept
<1>1. /\ phase = "running"
      /\ GatewaysHandle(e)
      /\ UNCHANGED <<markets, portfolios, trade_gateways, best_quotes, strategies>>
      /\ \/ UNCHANGED <<books, phase>>
         \/ TargetQuotes(books, strategies, markets, TRUE)
    BY DEF DownloadEnd
<1>2. GatewaysOK(gateway_by_id') /\ IdsOK(gateway_id_by_name')
    BY <1>1, GatewaysFacts DEF CoreOK
<1>3. CASE UNCHANGED <<books, phase>>
    <2>1. BooksOK(books', markets) /\ (Complete => BooksNamed(books'))
        BY <1>3 DEF CoreOK, Complete
    <2>2. QED
        BY <1>1, <1>2, <1>3, <2>1, BooksStep
<1>4. CASE TargetQuotes(books, strategies, markets, TRUE)
    <2>1. /\ BooksOK(books', markets)
          /\ phase' \in {"running", "failed"}
          /\ Complete => BooksNamed(books') /\ phase' = "running"
        BY <1>2, <1>4, TargetQuotesFacts DEF CoreOK, Complete
    <2>2. QED
        BY <1>1, <1>2, <2>1, BooksStep
<1>5. QED
    BY <1>1, <1>3, <1>4

LEMMA StatusStep ==
    ASSUME CoreOK, NEW s \in Sources, NEW e, EventOK(s, e), GatewayStatus(e)
    PROVE  Steady /\ Kept
<1>1. /\ phase' = "running"
      /\ GatewaysHandle(e)
      /\ books' = NamedGateway(books, s, SourceName[s])
      /\ UNCHANGED <<markets, portfolios, trade_gateways, best_quotes, strategies>>
    BY DEF GatewayStatus, EventOK
<1>2. GatewaysOK(gateway_by_id') /\ IdsOK(gateway_id_by_name')
    BY <1>1, GatewaysFacts DEF CoreOK
<1>3. BooksOK(books', markets) /\ (Complete => BooksNamed(books'))
    BY <1>1, NamedGatewayFacts DEF CoreOK, Complete
<1>4. QED
    BY <1>1, <1>2, <1>3, BooksStep

LEMMA TimerStep ==
    ASSUME CoreOK, Timer
    PROVE  Steady /\ Kept
<1>1. /\ phase' = "running"
      /\ books' = Processed(books, gateway_id_by_name)
      /\ UNCHANGED <<markets, portfolios, trade_gateways, best_quotes, strategies>>
      /\ GatewaysOK(gateway_by_id') /\ IdsOK(gateway_id_by_name')
    BY DEF Timer, gatewayVars, CoreOK
<1>2. BooksOK(books', markets) /\ (Complete => BooksNamed(books'))
    BY <1>1, ProcessedFacts DEF CoreOK, Complete
<1>3. QED
    BY <1>1, <1>2, BooksStep
-----------------------------------------------------------------------------
(* Market data: only the quotes of the legs of one market change.          *)
QuotesOnlyOf(market, ss, ts) ==
    /\ DOMAIN ts = DOMAIN ss
    /\ \A s \in DOMAIN ss :
         /\ DOMAIN ts[s].legs = DOMAIN ss[s].legs
         /\ \A l \in DOMAIN ss[s].legs :
              /\ ts[s].legs[l].position = ss[s].legs[l].position
              /\ l[2] # market => ts[s].legs[l].quotes = ss[s].legs[l].quotes

LEMMA QuoteLegsFacts ==
    ASSUME NEW ms, NEW ss, StrategiesOK(ss, ms), NEW market, NEW quotes
    PROVE  LET ts == QuoteLegs(ss, market, quotes)
           IN  /\ StrategiesOK(ts, ms)
               /\ LegsTradable(ss, ms) => LegsTradable(ts, ms)
               /\ QuotesOnlyOf(market, ss, ts)
<1> DEFINE ts == QuoteLegs(ss, market, quotes)
<1>1. /\ DOMAIN ts = DOMAIN ss
      /\ \A s \in DOMAIN ss :
           ts[s] = [ss[s] EXCEPT !.legs = [l \in DOMAIN @ |->
                      IF l[2] = market THEN [@[l] EXCEPT !.quotes = quotes] ELSE @[l]]]
    BY DEF QuoteLegs
<1> HIDE DEF ts
<1>2. ASSUME NEW s \in DOMAIN ss
      PROVE  /\ DOMAIN ts[s] = {"enabled", "legs"}
             /\ DOMAIN ts[s].legs = DOMAIN ss[s].legs
             /\ \A l \in DOMAIN ss[s].legs :
                  ts[s].legs[l] = IF l[2] = market
                                  THEN [ss[s].legs[l] EXCEPT !.quotes = quotes]
                                  ELSE ss[s].legs[l]
    BY <1>1 DEF StrategiesOK, StrategyOK
<1>3. ASSUME NEW s \in DOMAIN ss, NEW l \in DOMAIN ss[s].legs
      PROVE  /\ l[2] \in DOMAIN ms.by_id
             /\ DOMAIN ts[s].legs[l] = LegFields
             /\ ts[s].legs[l].position = ss[s].legs[l].position
             /\ l[2] # market => ts[s].legs[l].quotes = ss[s].legs[l].quotes
    <2>1. l[2] \in DOMAIN ms.by_id /\ DOMAIN ss[s].legs[l] = LegFields
        BY DEF StrategiesOK, StrategyOK
    <2>2. CASE l[2] = market
        BY <1>2, <2>1, <2>2 DEF LegFields
    <2>3. CASE l[2] # market
        BY <1>2, <2>1, <2>3
    <2>4. QED
        BY <2>1, <2>2, <2>3
<1>4. StrategiesOK(ts, ms)
    BY <1>1, <1>2, <1>3 DEF StrategiesOK, StrategyOK
<1>5. LegsTradable(ss, ms) => LegsTradable(ts, ms)
    BY <1>1, <1>2 DEF LegsTradable
<1>6. QuotesOnlyOf(market, ss, ts)
    BY <1>1, <1>2, <1>3 DEF QuotesOnlyOf
<1>7. QED
    BY <1>4, <1>5, <1>6 DEF ts

LEMMA MarketStepFacts ==
    ASSUME CoreOK, NEW e, MarketData(e)
    PROVE  /\ Steady /\ PositionsStay
           /\ UNCHANGED <<gateway_by_id, gateway_id_by_name, markets, portfolios>>
           /\ \/ UNCHANGED strategies
              \/ LET market == get_market_ident(markets, e.key)
                 IN  market_is_ready(market) /\ QuotesOnlyOf(market, strategies, strategies')
<1> DEFINE market == get_market_ident(markets, e.key)
<1>1. /\ phase = "running"
      /\ UNCHANGED <<gateway_by_id, gateway_id_by_name, markets, portfolios, trade_gateways>>
    BY DEF MarketData, gatewayVars
<1>2. GatewaysOK(gateway_by_id') /\ IdsOK(gateway_id_by_name')
    BY <1>1 DEF CoreOK
<1>3. CASE UNCHANGED <<books, best_quotes, strategies, phase>>
    <2>1. BooksOK(books', markets) /\ (Complete => BooksNamed(books'))
        BY <1>3 DEF CoreOK, Complete
    <2>2. Steady /\ Kept
        BY <1>1, <1>2, <1>3, <2>1, BooksStep
    <2>3. QED
        BY <1>1, <1>3, <2>2, KeptStays
<1>4. CASE /\ market_is_ready(market)
           /\ best_quotes' = Put(best_quotes, market, Quoted(e, market))
           /\ strategies' = QuoteLegs(strategies, market, Quoted(e, market))
           /\ TargetQuotes(books, strategies', markets, TRUE)
    <2>1. market \in DOMAIN markets.by_id
        BY <1>4 DEF market_is_ready
    <2>2. DOMAIN best_quotes' \subseteq DOMAIN markets.by_id
        BY <1>4, <2>1 DEF CoreOK, Put
    <2>3. /\ StrategiesOK(strategies', markets)
          /\ LegsTradable(strategies, markets) => LegsTradable(strategies', markets)
          /\ QuotesOnlyOf(market, strategies, strategies')
        BY <1>4, QuoteLegsFacts DEF CoreOK
    <2>4. /\ BooksOK(books', markets)
          /\ phase' \in {"running", "failed"}
          /\ Complete => BooksNamed(books') /\ phase' = "running"
        BY <1>2, <1>4, <2>3, TargetQuotesFacts DEF CoreOK, Complete
    <2>5. CoreOK'
        BY <1>1, <1>2, <2>2, <2>3, <2>4 DEF CoreOK
    <2>6. Complete => Complete'
        BY <1>1, <2>3, <2>4, GatewaysStay DEF Complete
    <2>7. PositionsStay
        BY <1>1, <2>3, GrowsFacts, PortfoliosSame DEF PositionsStay, QuotesOnlyOf, CoreOK
    <2>8. QED
        BY <1>1, <1>4, <2>3, <2>4, <2>5, <2>6, <2>7 DEF Steady
<1>5. QED
    BY <1>3, <1>4 DEF MarketData
-----------------------------------------------------------------------------
(* Positions: one leg and one entry of a portfolio are given a new one.    *)
PositionsOnlyOf(strategy, leg, exposure, ss, ts) ==
    /\ DOMAIN ts = DOMAIN ss
    /\ \A s \in DOMAIN ss : \A l \in DOMAIN ss[s].legs :
         /\ l \in DOMAIN ts[s].legs
         /\ ts[s].legs[l].quotes = ss[s].legs[l].quotes
         /\ s # strategy \/ l # leg => ts[s].legs[l].position = ss[s].legs[l].position
    /\ strategy \in DOMAIN ss =>
         leg \in DOMAIN ts[strategy].legs /\ ts[strategy].legs[leg].position = exposure

LEMMA TakeExposureFacts ==
    ASSUME NEW ms, NEW ss, StrategiesOK(ss, ms), NEW strategy, NEW account,
           NEW market \in DOMAIN ms.by_id, NEW exposure
    PROVE  LET ts == TakeExposure(ss, strategy, account, market, exposure)
               leg == <<account, market>>
           IN  /\ StrategiesOK(ts, ms)
               /\ LegsTradable(ss, ms) /\ LegTradable(ms, leg) => LegsTradable(ts, ms)
               /\ PositionsOnlyOf(strategy, leg, exposure, ss, ts)
<1> DEFINE ts == TakeExposure(ss, strategy, account, market, exposure)
           leg == <<account, market>>
<1>1. CASE strategy \notin DOMAIN ss
    <2>1. ts = ss
        BY <1>1 DEF TakeExposure
    <2>2. QED
        BY <1>1, <2>1 DEF PositionsOnlyOf
<1>2. CASE strategy \in DOMAIN ss
    <2> DEFINE st == ss[strategy]
               tt == EmplaceLeg(st, leg)
               uu == ts[strategy]
    <2>1. ts = [ss EXCEPT ![strategy] = [tt EXCEPT !.legs[leg].position = exposure]]
        BY <1>2 DEF TakeExposure
    <2>2. StrategyOK(st, ms) /\ leg[2] \in DOMAIN ms.by_id
        BY <1>2 DEF StrategiesOK
    <2>3. /\ StrategyOK(tt, ms)
          /\ LegsKept(st, tt)
          /\ DOMAIN tt.legs = DOMAIN st.legs \cup {leg}
        BY <2>2, EmplaceLegFacts
    <2> HIDE DEF ts, tt
    <2>4. /\ DOMAIN ts = DOMAIN ss
          /\ uu = [tt EXCEPT !.legs[leg].position = exposure]
          /\ \A s \in DOMAIN ss : s # strategy => ts[s] = ss[s]
        BY <1>2, <2>1
    <2> HIDE DEF uu, leg, st
    <2>5. /\ DOMAIN uu = {"enabled", "legs"}
          /\ DOMAIN uu.legs = DOMAIN tt.legs
          /\ uu.legs[leg] = [tt.legs[leg] EXCEPT !.position = exposure]
          /\ \A l \in DOMAIN tt.legs : l # leg => uu.legs[l] = tt.legs[l]
        BY <2>3, <2>4 DEF StrategyOK
    <2>6. DOMAIN tt.legs[leg] = LegFields
        BY <2>3 DEF StrategyOK
    <2>7. /\ DOMAIN uu.legs[leg] = LegFields
          /\ uu.legs[leg].position = exposure
          /\ uu.legs[leg].quotes = tt.legs[leg].quotes
        BY <2>5, <2>6 DEF LegFields
    <2>8. StrategyOK(uu, ms)
        BY <2>3, <2>5, <2>7 DEF StrategyOK
    <2>9. StrategiesOK(ts, ms)
        BY <2>4, <2>8 DEF StrategiesOK, uu
    <2>10. LegsTradable(ss, ms) /\ LegTradable(ms, leg) => LegsTradable(ts, ms)
        BY <2>3, <2>4, <2>5 DEF LegsTradable, uu, st
    <2>11. \A l \in DOMAIN st.legs :
              /\ l \in DOMAIN uu.legs
              /\ uu.legs[l].quotes = st.legs[l].quotes
              /\ l # leg => uu.legs[l].position = st.legs[l].position
        BY <2>3, <2>5, <2>7 DEF LegsKept
    <2>12. leg \in DOMAIN uu.legs
        BY <2>3, <2>5
    <2>13. PositionsOnlyOf(strategy, leg, exposure, ss, ts)
        BY <2>4, <2>7, <2>11, <2>12 DEF PositionsOnlyOf, uu, st
    <2>14. QED
        BY <2>9, <2>10, <2>13 DEF ts, leg
<1>3. QED
    BY <1>1, <1>2

EntriesOnlyOf(ident, entry, exposure, ps, qs) ==
    /\ qs.by_account = ps.by_account
    /\ DOMAIN qs.table = DOMAIN ps.table
    /\ \A p \in DOMAIN ps.table : \A y \in DOMAIN ps.table[p].positions :
         p # ident \/ y # entry =>
            /\ y \in DOMAIN qs.table[p].positions
            /\ qs.table[p].positions[y] = ps.table[p].positions[y]
    /\ ident # NoPortfolio =>
         /\ entry \in DOMAIN qs.table[ident].positions
         /\ qs.table[ident].positions[entry] = exposure

LEMMA SetPositionFacts ==
    ASSUME NEW ps, PortfoliosOK(ps), NEW ident,
           ident = NoPortfolio \/ ident \in DOMAIN ps.table,
           NEW account, NEW market, NEW exposure
    PROVE  LET qs == set_position(ps, ident, account, market, exposure)
           IN  PortfoliosOK(qs) /\ EntriesOnlyOf(ident, <<account, market>>, exposure, ps, qs)
<1> DEFINE qs == set_position(ps, ident, account, market, exposure)
           entry == <<account, market>>
<1>1. CASE ident = NoPortfolio
    <2>1. qs = ps
        BY <1>1 DEF set_position
    <2>2. QED
        BY <1>1, <2>1 DEF EntriesOnlyOf
<1>2. CASE ident # NoPortfolio
    <2>1. qs = [ps EXCEPT !.table[ident].positions = Put(@, entry, exposure)]
        BY <1>2 DEF set_position
    <2> HIDE DEF qs, entry
    <2>2. /\ DOMAIN qs = DOMAIN ps
          /\ qs.by_account = ps.by_account
          /\ qs.table = [ps.table EXCEPT ![ident].positions = Put(@, entry, exposure)]
        BY <2>1 DEF PortfoliosOK
    <2>3. /\ DOMAIN qs.table = DOMAIN ps.table
          /\ qs.table[ident] = [ps.table[ident] EXCEPT !.positions = Put(@, entry, exposure)]
          /\ \A p \in DOMAIN ps.table : p # ident => qs.table[p] = ps.table[p]
        BY <1>2, <2>2
    <2>4. /\ DOMAIN qs.table[ident] = {"portfolio_name", "positions"}
          /\ qs.table[ident].positions = Put(ps.table[ident].positions, entry, exposure)
        BY <1>2, <2>3 DEF PortfoliosOK
    <2>5. LET old == ps.table[ident].positions
              new == qs.table[ident].positions
          IN  /\ DOMAIN new = DOMAIN old \cup {entry}
              /\ new[entry] = exposure
              /\ \A y \in DOMAIN old : y # entry => new[y] = old[y]
        BY <2>4 DEF Put
    <2>6. PortfoliosOK(qs)
        BY <2>2, <2>3, <2>4 DEF PortfoliosOK
    <2>7. EntriesOnlyOf(ident, entry, exposure, ps, qs)
        BY <2>2, <2>3, <2>5 DEF EntriesOnlyOf
    <2>8. QED
        BY <2>6, <2>7 DEF qs, entry
<1>3. QED
    BY <1>1, <1>2

LEMMA PositionStepFacts ==
    ASSUME CoreOK, NEW e, PositionUpdate(e)
    PROVE  LET ident == portfolio_by_account(portfolios, e.account, e.key[1])
               leg == <<e.account, markets'.ident[e.key]>>
               exposure == Exposure(e.long_quantity, e.short_quantity)
           IN  /\ CoreOK'
               /\ phase' \in {"running", "failed"}
               /\ Complete /\ FileTrades(e.key[1], e.account) => Complete' /\ phase' = "running"
               /\ Grows(markets, markets') /\ e.key \in DOMAIN markets'.ident
               /\ UNCHANGED <<gateway_by_id, gateway_id_by_name>>
               /\ \/ File.position_source = "ORDERS" /\ UNCHANGED <<portfolios, strategies>>
                  \/ /\ PositionsOnlyOf(ident, leg, exposure, strategies, strategies')
                     /\ EntriesOnlyOf(ident, leg, exposure, portfolios, portfolios')
<1> DEFINE ms == emplace_market(markets, e.key)
           market == ms.ident[e.key]
           ident == portfolio_by_account(portfolios, e.account, e.key[1])
           exposure == Exposure(e.long_quantity, e.short_quantity)
           leg == <<e.account, market>>
<1>1. /\ phase = "running"
      /\ UNCHANGED <<gateway_by_id, gateway_id_by_name, trade_gateways, best_quotes>>
      /\ markets' = ms
      /\ \/ File.position_source = "ORDERS" /\ UNCHANGED <<portfolios, books, strategies, phase>>
         \/ /\ portfolios' = set_position(portfolios, ident, e.account, market, exposure)
            /\ strategies' = TakeExposure(strategies, ident, e.account, market, exposure)
            /\ TargetQuotes(books, strategies', ms, TRUE)
    BY DEF PositionUpdate, TakesPosition, gatewayVars
<1>2. /\ MarketsOK(ms)
      /\ Grows(markets, ms)
      /\ e.key \in DOMAIN ms.ident
      /\ MarketsNamed(ms)
    BY EmplaceFacts, EmplaceNamed DEF CoreOK
<1> HIDE DEF ms
<1>3. GatewaysOK(gateway_by_id') /\ IdsOK(gateway_id_by_name')
    BY <1>1 DEF CoreOK
<1>4. DOMAIN markets.by_id \subseteq DOMAIN ms.by_id
    BY <1>2, GrowsFacts DEF CoreOK
<1>5. BooksOK(books, ms)
    BY <1>2, BooksGrow DEF CoreOK
<1>6. /\ StrategiesOK(strategies, ms)
      /\ LegsTradable(strategies, markets) => LegsTradable(strategies, ms)
    BY <1>2, StrategiesGrow DEF CoreOK
<1>7. market \in DOMAIN ms.by_id /\ ms.by_id[market].key = e.key
    BY <1>2 DEF MarketsOK
<1>8. FileTrades(e.key[1], e.account) => LegTradable(ms, leg)
    BY <1>7 DEF LegTradable
<1>9. ident = NoPortfolio \/ ident \in DOMAIN portfolios.table
    BY DEF portfolio_by_account
<1> HIDE DEF ident, exposure
<1>10. CASE /\ File.position_source = "ORDERS"
            /\ UNCHANGED <<portfolios, books, strategies, phase>>
    <2>1. CoreOK'
        BY <1>1, <1>2, <1>3, <1>4, <1>5, <1>6, <1>10 DEF CoreOK
    <2>2. Complete => Complete'
        BY <1>1, <1>6, <1>10, GatewaysStay DEF Complete
    <2>3. QED
        BY <1>1, <1>2, <1>10, <2>1, <2>2
<1>11. CASE /\ portfolios' = set_position(portfolios, ident, e.account, market, exposure)
            /\ strategies' = TakeExposure(strategies, ident, e.account, market, exposure)
            /\ TargetQuotes(books, strategies', ms, TRUE)
    <2>1. /\ StrategiesOK(strategies', ms)
          /\ LegsTradable(strategies, ms) /\ LegTradable(ms, leg) => LegsTradable(strategies', ms)
          /\ PositionsOnlyOf(ident, leg, exposure, strategies, strategies')
        BY <1>6, <1>7, <1>11, TakeExposureFacts
    <2>2. /\ PortfoliosOK(portfolios')
          /\ EntriesOnlyOf(ident, leg, exposure, portfolios, portfolios')
        BY <1>9, <1>11, SetPositionFacts DEF CoreOK
    <2>3. /\ BooksOK(books', ms)
          /\ phase' \in {"running", "failed"}
          /\ GatewaysLoaded /\ LegsTradable(strategies', ms) /\ BooksNamed(books) =>
               BooksNamed(books') /\ phase' = "running"
        BY <1>2, <1>3, <1>5, <1>11, <2>1, TargetQuotesFacts
    <2>4. CoreOK'
        BY <1>1, <1>2, <1>3, <1>4, <2>1, <2>2, <2>3 DEF CoreOK
    <2>5. Complete /\ FileTrades(e.key[1], e.account) => Complete' /\ phase' = "running"
        BY <1>1, <1>6, <1>8, <2>1, <2>3, GatewaysStay DEF Complete
    <2>6. QED
        BY <1>1, <1>2, <2>1, <2>2, <2>3, <2>4, <2>5 DEF ident, exposure
<1>12. QED
    BY <1>1, <1>10, <1>11

LEMMA OrderStepFacts ==
    ASSUME CoreOK, NEW e, OrderUpdate(e)
    PROVE  /\ CoreOK'
           /\ phase' \in {"running", "failed"}
           /\ UNCHANGED <<gateway_by_id, gateway_id_by_name, markets, strategies>>
           /\ File.position_source # "ORDERS" => Steady /\ UNCHANGED portfolios
<1> DEFINE b == BookKey(e.strategy_id, e.account, get_market_ident(markets, e.key))
           ident == portfolio_by_account(portfolios, "", e.key[1])
<1>1. /\ phase = "running"
      /\ UNCHANGED <<gateway_by_id, gateway_id_by_name, markets, trade_gateways,
                     best_quotes, strategies>>
      /\ \/ UNCHANGED <<books, portfolios, phase>>
         \/ /\ b \in DOMAIN books
            /\ books' = [books EXCEPT ![b] = Resolved(@, gateway_id_by_name)]
            /\ TradeExposure([account |-> "", key |-> e.key, market |-> b.market,
                              side |-> e.side, quantity |-> e.quantity])
    BY DEF OrderUpdate, gatewayVars
<1>2. GatewaysOK(gateway_by_id') /\ IdsOK(gateway_id_by_name')
    BY <1>1 DEF CoreOK
<1>3. CASE UNCHANGED <<books, portfolios, phase>>
    <2>1. BooksOK(books', markets) /\ (Complete => BooksNamed(books'))
        BY <1>3 DEF CoreOK, Complete
    <2>2. Steady /\ Kept
        BY <1>1, <1>2, <1>3, <2>1, BooksStep
    <2>3. QED
        BY <1>1, <1>3, <2>2 DEF Steady
<1>4. CASE /\ b \in DOMAIN books
           /\ books' = [books EXCEPT ![b] = Resolved(@, gateway_id_by_name)]
           /\ TradeExposure([account |-> "", key |-> e.key, market |-> b.market,
                             side |-> e.side, quantity |-> e.quantity])
    <2> DEFINE cs == Processed(books, gateway_id_by_name)
    <2>1. BooksOK(cs, markets) /\ (BooksNamed(books) => BooksNamed(cs))
        BY ProcessedFacts DEF CoreOK
    <2>2. DOMAIN cs = DOMAIN books /\ cs[b] = Resolved(books[b], gateway_id_by_name)
        BY <1>4 DEF Processed
    <2> HIDE DEF cs, b
    <2>3. /\ DOMAIN books' = DOMAIN books
          /\ \A c \in DOMAIN books : books'[c] = IF c = b THEN cs[c] ELSE books[c]
        BY <1>4, <2>2
    <2>4. BooksOK(books', markets)
        BY <2>1, <2>2, <2>3 DEF BooksOK, BookOK, CoreOK
    <2>5. Complete => BooksNamed(books')
        BY <2>1, <2>2, <2>3 DEF BooksNamed, Complete
    <2>6. \/ UNCHANGED <<portfolios, phase>>
          \/ /\ File.position_source = "ORDERS"
             /\ phase' \in {"running", "failed"}
             /\ \E market, exposure :
                  portfolios' = set_position(portfolios, ident, "", market, exposure)
        BY <1>1, <1>4 DEF TradeExposure
    <2>7. ident = NoPortfolio \/ ident \in DOMAIN portfolios.table
        BY DEF portfolio_by_account
    <2> HIDE DEF ident
    <2>8. CASE UNCHANGED <<portfolios, phase>>
        <3>1. Steady /\ Kept
            BY <1>1, <1>2, <2>4, <2>5, <2>8, BooksStep
        <3>2. QED
            BY <1>1, <2>8, <3>1 DEF Steady
    <2>9. CASE /\ File.position_source = "ORDERS"
               /\ phase' \in {"running", "failed"}
               /\ \E market, exposure :
                    portfolios' = set_position(portfolios, ident, "", market, exposure)
        <3>1. PortfoliosOK(portfolios')
            BY <2>7, <2>9, SetPositionFacts DEF CoreOK
        <3>2. CoreOK'
            BY <1>1, <1>2, <2>4, <3>1 DEF CoreOK
        <3>3. QED
            BY <1>1, <2>9, <3>2
    <2>10. QED
        BY <2>6, <2>8, <2>9
<1>5. QED
    BY <1>1, <1>3, <1>4
-----------------------------------------------------------------------------
(* What is on its way is always what a gateway sends.                      *)
EventsInv ==
    /\ linked \subseteq Sources
    /\ DOMAIN queue = Sources
    /\ \A s \in Sources : EventsOK(s, queue[s])
    /\ DOMAIN held = Holdings

(* One connection is given more events, or one event of it is taken.       *)
Appended(s, q) ==
    /\ DOMAIN queue' = Sources
    /\ queue'[s] = queue[s] \o q
    /\ \A r \in Sources : r # s => queue'[r] = queue[r]

Taken(s) ==
    /\ queue[s] # <<>>
    /\ DOMAIN queue' = Sources
    /\ queue'[s] = Tail(queue[s])
    /\ \A r \in Sources : r # s => queue'[r] = queue[r]
    /\ UNCHANGED <<linked, held>>

LEMMA SendsFacts ==
    ASSUME EventsInv, NEW s \in Sources, NEW q, EventsOK(s, q)
    PROVE  /\ Sends(s, q) => Appended(s, q)
           /\ SendsIfLinked(s, q) =>
                IF s \in linked THEN Appended(s, q) ELSE UNCHANGED queue
           /\ Appended(s, q) => \A r \in Sources : EventsOK(r, queue'[r])
<1>1. Sends(s, q) => Appended(s, q)
    BY DEF Sends, Appended, EventsInv
<1>2. EventsOK(s, queue[s] \o q)
    BY ConcatEvents DEF EventsInv
<1>3. Appended(s, q) => \A r \in Sources : EventsOK(r, queue'[r])
    BY <1>2 DEF Appended, EventsInv
<1>4. QED
    BY <1>1, <1>3 DEF SendsIfLinked

LEMMA FillEvents ==
    ASSUME NEW x \in Holdings, NEW side, NEW after
    PROVE  LET s == TradeSource[x[1]]
               order == [kind |-> "OrderUpdate", source |-> s, account |-> x[1].account,
                         key |-> x[2], strategy_id |-> x[1].strategy, side |-> side,
                         quantity |-> 1]
               q == <<order, PositionOf(s, x[1], x[2], after)>>
           IN  /\ s \in Sources
               /\ EventsOK(s, q) /\ AllUnmarked(q)
               /\ DOMAIN q = {1, 2}
               /\ q[1].kind = "OrderUpdate"
               /\ q[2] = PositionOf(s, x[1], x[2], after)
<1> DEFINE s == TradeSource[x[1]]
           order == [kind |-> "OrderUpdate", source |-> s, account |-> x[1].account,
                     key |-> x[2], strategy_id |-> x[1].strategy, side |-> side,
                     quantity |-> 1]
           position == PositionOf(s, x[1], x[2], after)
           q == <<order, position>>
<1>1. s \in Sources
    BY EventsAssumption
<1>2. /\ EventOK(s, order) /\ Unmarked(order)
      /\ order.kind = "OrderUpdate"
    BY DEF EventOK, Unmarked, IsStatus, IsBegin, IsEnd, IsData
<1>3. EventOK(s, position) /\ Unmarked(position)
    BY PositionFacts DEF Through
<1> HIDE DEF order, position
<1>4. /\ IsSequence(q) /\ DOMAIN q = {1, 2}
      /\ q[1] = order /\ q[2] = position
    BY TwoEvents
<1> HIDE DEF q
<1>5. EventsOK(s, q) /\ AllUnmarked(q)
    BY <1>2, <1>3, <1>4 DEF EventsOK, AllUnmarked
<1>6. QED
    BY <1>1, <1>2, <1>4, <1>5 DEF q, order, position

LEMMA DataEvents ==
    ASSUME NEW k \in Keys, NEW layer
    PROVE  LET s == DataSource[k]
               q == <<DataOf(s, k, layer)>>
           IN  /\ s \in Sources
               /\ EventsOK(s, q) /\ AllUnmarked(q)
               /\ DOMAIN q = {1}
               /\ IsData(q[1])
<1>1. DataSource[k] \in Sources
    BY EventsAssumption
<1>2. QED
    BY <1>1, DataFacts, OneEvent DEF EventsOK, AllUnmarked

LEMMA UpdateEvents ==
    ASSUME NEW s \in Sources, NEW update \in Updates
    PROVE  LET q == <<[kind |-> "ParametersUpdate", source |-> s, update |-> update]>>
           IN  /\ EventsOK(s, q) /\ AllUnmarked(q)
               /\ DOMAIN q = {1}
               /\ q[1].kind = "ParametersUpdate"
<1> DEFINE e == [kind |-> "ParametersUpdate", source |-> s, update |-> update]
<1>1. EventOK(s, e) /\ Unmarked(e) /\ e.kind = "ParametersUpdate"
    BY DEF EventOK, Unmarked, IsStatus, IsBegin, IsEnd, IsData
<1> HIDE DEF e
<1>2. EventsOK(s, <<e>>) /\ AllUnmarked(<<e>>) /\ DOMAIN <<e>> = {1} /\ <<e>>[1] = e
    BY <1>1, OneEvent DEF EventsOK, AllUnmarked
<1>3. QED
    BY <1>1, <1>2 DEF e

LEMMA BreakEvents ==
    ASSUME NEW s
    PROVE  LET e == Plain("Disconnected", s)
           IN  /\ EventsOK(s, <<e>>) /\ AllUnmarked(<<e>>)
               /\ e.kind = "Disconnected"
               /\ DOMAIN <<e>> = {1} /\ <<e>>[1] = e
<1> DEFINE e == Plain("Disconnected", s)
<1>1. EventOK(s, e) /\ Unmarked(e) /\ e.kind = "Disconnected"
    BY DEF EventOK, Unmarked, IsStatus, IsBegin, IsEnd, IsData, Plain
<1> HIDE DEF e
<1>2. EventsOK(s, <<e>>) /\ AllUnmarked(<<e>>) /\ DOMAIN <<e>> = {1} /\ <<e>>[1] = e
    BY <1>1, OneEvent DEF EventsOK, AllUnmarked
<1>3. QED
    BY <1>1, <1>2 DEF e

LEMMA TakesFacts ==
    ASSUME EventsInv, NEW s \in Sources, NEW kinds, Takes(s, kinds)
    PROVE  /\ Taken(s)
           /\ IsTail(queue[s], queue'[s])
           /\ EventOK(s, Head(queue[s])) /\ Head(queue[s]).kind \in kinds
           /\ \A r \in Sources : EventsOK(r, queue'[r])
<1>1. Taken(s) /\ Head(queue[s]).kind \in kinds
    BY DEF Takes, Taken, EventsInv
<1>2. IsTail(queue[s], queue'[s])
    BY <1>1, TailFacts DEF Taken, EventsInv, EventsOK
<1>3. EventOK(s, Head(queue[s]))
    BY <1>2 DEF EventsInv, EventsOK, IsTail
<1>4. EventsOK(s, queue'[s])
    BY <1>2 DEF EventsInv, EventsOK, IsTail
<1>5. QED
    BY <1>1, <1>2, <1>3, <1>4 DEF Taken, EventsInv

LEMMA ReceivesFacts ==
    ASSUME EventsInv, NEW s \in Sources, Receives(s)
    PROVE  /\ Taken(s)
           /\ IsTail(queue[s], queue'[s])
           /\ EventOK(s, Head(queue[s]))
           /\ \A r \in Sources : EventsOK(r, queue'[r])
<1>1. \E kinds : Takes(s, kinds)
    BY DEF Receives
<1>2. QED
    BY <1>1, TakesFacts

LEMMA EventsStep ==
    ASSUME EventsInv, [Next]_vars
    PROVE  EventsInv'
<1>1. CASE UNCHANGED envVars
    BY <1>1 DEF EventsInv, envVars
<1>2. ASSUME NEW s \in Sources, Connects(s)
      PROVE  EventsInv'
    <2>1. Appended(s, Download(s)) /\ \A r \in Sources : EventsOK(r, queue'[r])
        BY <1>2, DownloadFacts, SendsFacts DEF Connects
    <2>2. QED
        BY <1>2, <2>1 DEF Connects, EventsInv, Appended
<1>3. ASSUME NEW s \in Sources, Breaks(s)
      PROVE  EventsInv'
    <2>1. queue' = [queue EXCEPT ![s] = <<Plain("Disconnected", s)>>]
        BY <1>3 DEF Breaks
    <2>2. \A r \in Sources : EventsOK(r, queue'[r])
        BY <2>1, BreakEvents DEF EventsInv
    <2>3. QED
        BY <1>3, <2>1, <2>2 DEF Breaks, EventsInv
<1>4. CASE Crashes
    BY <1>4, NoEvents DEF Crashes, EventsInv
<1>5. ASSUME NEW x \in Holdings, NEW side, Fills(x[1], x[2], side)
      PROVE  EventsInv'
    <2> DEFINE s == TradeSource[x[1]]
               after == held[x[1], x[2]] + (IF side = "BUY" THEN 1 ELSE -1)
               q == <<[kind |-> "OrderUpdate", source |-> s, account |-> x[1].account,
                       key |-> x[2], strategy_id |-> x[1].strategy, side |-> side,
                       quantity |-> 1], PositionOf(s, x[1], x[2], after)>>
    <2>1. /\ SendsIfLinked(s, q)
          /\ held' = [held EXCEPT ![<<x[1], x[2]>>] = after]
          /\ linked' = linked
        BY <1>5 DEF Fills
    <2>2. s \in Sources /\ EventsOK(s, q)
        BY FillEvents
    <2> HIDE DEF q, s
    <2>3. DOMAIN queue' = Sources /\ \A r \in Sources : EventsOK(r, queue'[r])
        BY <2>1, <2>2, SendsFacts DEF Appended, EventsInv
    <2>4. QED
        BY <2>1, <2>3 DEF EventsInv
<1>6. ASSUME NEW k \in Keys, NEW layer, Moves(k, layer)
      PROVE  EventsInv'
    <2>1. DOMAIN queue' = Sources /\ \A r \in Sources : EventsOK(r, queue'[r])
        BY <1>6, DataEvents, SendsFacts DEF Moves, Appended, EventsInv
    <2>2. QED
        BY <1>6, <2>1 DEF Moves, EventsInv
<1>7. ASSUME NEW s \in Sources, NEW update \in Updates, Changes(s, update)
      PROVE  EventsInv'
    <2>1. DOMAIN queue' = Sources /\ \A r \in Sources : EventsOK(r, queue'[r])
        BY <1>7, UpdateEvents, SendsFacts DEF Changes, Appended
    <2>2. QED
        BY <1>7, <2>1 DEF Changes, EventsInv
<1>8. ASSUME NEW k \in Keys, Repeats(k)
      PROVE  EventsInv'
    <2>1. DOMAIN queue' = Sources /\ \A r \in Sources : EventsOK(r, queue'[r])
        BY <1>8, DataEvents, SendsFacts DEF Repeats, Appended
    <2>2. QED
        BY <1>8, <2>1 DEF Repeats, EventsInv
<1>9. ASSUME NEW s \in Sources, Receives(s)
      PROVE  EventsInv'
    BY <1>9, ReceivesFacts DEF Taken, EventsInv
<1>10. CASE Starts \/ Ticks
    BY <1>1, <1>10 DEF Starts, Ticks
<1>11. QED
    BY <1>1, <1>2, <1>3, <1>4, <1>5, <1>6, <1>7, <1>8, <1>9, <1>10 DEF Next, Happens, vars
-----------------------------------------------------------------------------
(* The state of the whole.                                                 *)
Empty ==
    /\ markets = NoMarkets /\ portfolios = NoPortfolios
    /\ DOMAIN books = {} /\ DOMAIN strategies = {} /\ DOMAIN best_quotes = {}

TypeInv ==
    /\ EventsInv
    /\ CoreOK
    /\ phase \in Phases
    /\ phase = "new" => Empty
    /\ phase \in {"new", "configured"} => linked = {}

LEMMA EmptyFacts ==
    /\ MarketsOK(NoMarkets) /\ MarketsNamed(NoMarkets) /\ DOMAIN NoMarkets.ident = {}
    /\ PortfoliosOK(NoPortfolios)
<1>1. /\ DOMAIN NoMarkets = {"last_market_id", "by_id", "ident"}
      /\ NoMarkets.last_market_id = 0
      /\ DOMAIN NoMarkets.by_id = {}
      /\ DOMAIN NoMarkets.ident = {}
    BY DEF NoMarkets
<1>2. /\ DOMAIN NoPortfolios = {"last_portfolio_id", "table", "by_name", "by_account"}
      /\ DOMAIN NoPortfolios.table = {}
      /\ DOMAIN NoPortfolios.by_account = {}
    BY DEF NoPortfolios
<1>3. QED
    BY <1>1, <1>2 DEF MarketsOK, MarketsNamed, PortfoliosOK

LEMMA EmptyCore ==
    ASSUME Empty, GatewaysOK(gateway_by_id), IdsOK(gateway_id_by_name)
    PROVE  CoreOK
BY EmptyFacts DEF Empty, CoreOK, BooksOK, StrategiesOK

LEMMA TypeInit ==
    ASSUME Init
    PROVE  TypeInv
<1>1. EventsInv
    BY NoEvents DEF Init, EventsInv
<1>2. Empty /\ GatewaysOK(gateway_by_id) /\ IdsOK(gateway_id_by_name)
    BY DEF Init, CoreInit, GatewaysInit, Empty, GatewaysOK, IdsOK
<1>3. CoreOK
    BY <1>2, EmptyCore
<1>4. QED
    BY <1>1, <1>2, <1>3 DEF Init, CoreInit, TypeInv, Phases

LEMMA CrashStep ==
    ASSUME Crashes
    PROVE  /\ Empty' /\ CoreOK' /\ phase' = "new" /\ linked' = {}
           /\ gateway_by_id' = <<>>
           /\ \A s \in Sources : queue'[s] = <<>>
<1>1. Empty' /\ GatewaysOK(gateway_by_id') /\ IdsOK(gateway_id_by_name')
    BY DEF Crashes, CoreRestarts, Empty, GatewaysOK, IdsOK
<1>2. CoreOK'
    BY <1>1, EmptyFacts DEF CoreOK, Empty, BooksOK, StrategiesOK
<1>3. QED
    BY <1>1, <1>2 DEF Crashes, CoreRestarts

LEMMA ConfiguresStep ==
    ASSUME TypeInv, Configures
    PROVE  /\ CoreOK' /\ Grows(markets, markets')
           /\ phase' \in {"configured", "failed"}
           /\ UNCHANGED <<gateway_by_id, gateway_id_by_name, strategies, books>>
           /\ ~ConfigureThrows =>
                /\ phase' = "configured"
                /\ GatewaysLoaded'
                /\ \A c : AccountsGood(c, Len(File.account), portfolios')
<1>1. /\ phase = "new"
      /\ UNCHANGED <<gateway_by_id, gateway_id_by_name, books, best_quotes, strategies>>
    BY DEF Configures, gatewayVars
<1>2. Empty /\ CoreOK
    BY <1>1 DEF TypeInv
<1>3. CASE ConfigureThrows
    <2>1. phase' = "failed" /\ UNCHANGED <<markets, portfolios>>
        BY <1>3 DEF Configures
    <2>2. CoreOK'
        BY <1>1, <1>2, <2>1 DEF CoreOK
    <2>3. QED
        BY <1>1, <1>2, <1>3, <2>1, <2>2, GrowsFacts DEF CoreOK
<1>4. CASE ~ConfigureThrows
    <2>1. /\ phase' = "configured"
          /\ markets' = MarketsConfigured(NoMarkets, File.market)
          /\ portfolios' =
                 FoldLeft(LAMBDA ps, node :
                            ConfigureAccount(ps, node, Number[PortfolioText(node)]),
                          NoPortfolios, File.account)
          /\ trade_gateways' = TradeGateways(File.account)
        BY <1>2, <1>4 DEF Configures, Empty
    <2>2. MarketsOK(markets') /\ MarketsNamed(markets')
        BY <2>1, ConfiguredFacts DEF AsConfigured
    <2>3. \A c : AccountsGood(c, Len(File.account), portfolios')
        BY <2>1, AccountsFacts
    <2>4. PortfoliosOK(portfolios')
        BY <2>3 DEF AccountsGood
    <2>5. CoreOK'
        BY <1>1, <1>2, <2>2, <2>4 DEF CoreOK, Empty, BooksOK, StrategiesOK
    <2>6. Grows(markets, markets')
        BY <1>2, EmptyFacts DEF Grows, Empty
    <2>7. GatewaysLoaded'
        BY <2>1, TradeGatewaysFacts DEF GatewaysLoaded, get_trade_gateway
    <2>8. QED
        BY <1>1, <2>1, <2>3, <2>5, <2>6, <2>7
<1>5. QED
    BY <1>3, <1>4

LEMMA DispatchStep ==
    ASSUME CoreOK, DispatchesParameters
    PROVE  /\ CoreOK' /\ Kept
           /\ phase' \in {"running", "failed"}
           /\ AllComplete(Loaded) /\ Complete => Complete' /\ phase' = "running"
           /\ UNCHANGED <<gateway_by_id, gateway_id_by_name>>
           /\ \A j \in DOMAIN Loaded :
                Prefix(Loaded[j].label) = "lqs" /\ Loaded[j].strategy_id # 0 =>
                    Loaded[j].strategy_id \in DOMAIN strategies'
<1>1. ParametersHandled(Loaded)
    BY DEF DispatchesParameters
<1>2. UNCHANGED <<gateway_by_id, gateway_id_by_name>>
    BY <1>1 DEF ParametersHandled, gatewayVars
<1>3. QED
    BY <1>1, <1>2, LoadedFacts, ParametersStep

LEMMA UpdateStep ==
    ASSUME CoreOK, NEW s \in Sources, NEW e, EventOK(s, e), e.kind = "ParametersUpdate",
           ParametersUpdate(e.update)
    PROVE  /\ CoreOK' /\ Kept
           /\ phase' \in {"running", "failed"}
           /\ AllComplete(e.update) /\ Complete => Complete' /\ phase' = "running"
           /\ UNCHANGED <<gateway_by_id, gateway_id_by_name>>
<1>1. e.update \in Updates
    BY DEF EventOK
<1>2. IsSequence(e.update) /\ ParametersHandled(e.update)
    BY <1>1, EventsAssumption DEF ParametersUpdate
<1>3. UNCHANGED <<gateway_by_id, gateway_id_by_name>>
    BY <1>2 DEF ParametersHandled, gatewayVars
<1>4. QED
    BY <1>2, <1>3, ParametersStep

(* An event is handled: by the handler of its kind.                        *)
Handles(e) ==
    \/ e.kind = "GatewaySettings" /\ GatewaySettings(e)
    \/ e.kind = "ReferenceData" /\ ReferenceData(e)
    \/ e.kind \in {"DownloadBegin", "Disconnected"} /\ GatewayChanges(e)
    \/ e.kind = "DownloadEnd" /\ DownloadEnd(e)
    \/ e.kind = "GatewayStatus" /\ GatewayStatus(e)
    \/ IsData(e) /\ MarketData(e)
    \/ e.kind = "PositionUpdate" /\ PositionUpdate(e)
    \/ e.kind = "OrderUpdate" /\ OrderUpdate(e)
    \/ e.kind = "ParametersUpdate" /\ ParametersUpdate(e.update)

LEMMA ReceivesHandles ==
    ASSUME NEW s, Receives(s)
    PROVE  Handles(Head(queue[s]))
BY DEF Receives, Takes, Handles, IsData

LEMMA HandlesStep ==
    ASSUME CoreOK, NEW s \in Sources, NEW e, EventOK(s, e), Handles(e)
    PROVE  /\ CoreOK'
           /\ phase' \in {"running", "failed"}
           /\ Grows(markets, markets')
<1>1. CASE e.kind = "GatewaySettings" /\ GatewaySettings(e)
    BY <1>1, SettingsStep DEF Steady, Kept
<1>2. CASE e.kind = "ReferenceData" /\ ReferenceData(e)
    BY <1>2, ReferenceStep DEF Steady, Kept
<1>3. CASE e.kind \in {"DownloadBegin", "Disconnected"} /\ GatewayChanges(e)
    BY <1>3, ChangesStep DEF Steady, Kept
<1>4. CASE e.kind = "DownloadEnd" /\ DownloadEnd(e)
    BY <1>4, EndStep DEF Steady, Kept
<1>5. CASE e.kind = "GatewayStatus" /\ GatewayStatus(e)
    BY <1>5, StatusStep DEF Steady, Kept
<1>6. CASE IsData(e) /\ MarketData(e)
    BY <1>6, MarketStepFacts DEF Steady, PositionsStay
<1>7. CASE e.kind = "PositionUpdate" /\ PositionUpdate(e)
    BY <1>7, PositionStepFacts
<1>8. CASE e.kind = "OrderUpdate" /\ OrderUpdate(e)
    BY <1>8, OrderStepFacts, GrowsFacts DEF CoreOK
<1>9. CASE e.kind = "ParametersUpdate" /\ ParametersUpdate(e.update)
    BY <1>9, UpdateStep DEF Kept
<1>10. QED
    BY <1>1, <1>2, <1>3, <1>4, <1>5, <1>6, <1>7, <1>8, <1>9 DEF Handles

(* What the gateways do, the core does not see before it takes the events. *)
Outside ==
    \/ \E s \in Sources : Breaks(s) \/ Connects(s)
    \/ \E x \in Holdings, side \in {"BUY", "SELL"} : Fills(x[1], x[2], side)
    \/ \E k \in Keys : Repeats(k) \/ \E layer \in Layers : Moves(k, layer)
    \/ \E s \in Sources, update \in Updates : Changes(s, update)

LEMMA OutsideFacts ==
    ASSUME Outside
    PROVE  /\ UNCHANGED coreVars
           /\ linked' \subseteq linked \/ phase = "running"
BY DEF Outside, Breaks, Connects, Fills, Repeats, Moves, Changes

LEMMA NextCases ==
    ASSUME [Next]_vars
    PROVE  \/ UNCHANGED vars
           \/ Configures /\ UNCHANGED envVars
           \/ DispatchesParameters /\ UNCHANGED envVars
           \/ Timer /\ UNCHANGED envVars
           \/ Crashes
           \/ Outside
           \/ \E s \in Sources : Receives(s)
BY DEF Next, Starts, Ticks, Happens, Outside

LEMMA TypeStep ==
    ASSUME TypeInv, [Next]_vars
    PROVE  /\ TypeInv'
           /\ phase' # "new" => Grows(markets, markets')
<1>1. EventsInv'
    BY EventsStep DEF TypeInv
<1>2. CASE UNCHANGED vars
    BY <1>1, <1>2, GrowsFacts
       DEF vars, coreVars, envVars, gatewayVars, bookVars, TypeInv, CoreOK, Empty
<1>3. CASE Configures /\ UNCHANGED envVars
    <2>1. linked = {} /\ linked' = linked
        BY <1>3 DEF TypeInv, Configures, envVars
    <2>2. QED
        BY <1>1, <1>3, <2>1, ConfiguresStep DEF TypeInv, Phases
<1>4. CASE DispatchesParameters /\ UNCHANGED envVars
    BY <1>1, <1>4, DispatchStep DEF TypeInv, Kept, Phases
<1>5. CASE Timer /\ UNCHANGED envVars
    BY <1>1, <1>5, TimerStep DEF TypeInv, Kept, Steady, Phases
<1>6. CASE Crashes
    BY <1>1, <1>6, CrashStep DEF TypeInv, Phases
<1>7. CASE Outside
    <2>1. /\ UNCHANGED coreVars
          /\ linked' \subseteq linked \/ phase = "running"
        BY <1>7, OutsideFacts
    <2>2. CoreOK' /\ (phase = "new" => Empty')
        BY <2>1 DEF coreVars, gatewayVars, bookVars, TypeInv, CoreOK, Empty
    <2>3. QED
        BY <1>1, <2>1, <2>2, GrowsFacts DEF coreVars, TypeInv, CoreOK
<1>8. ASSUME NEW s \in Sources, Receives(s)
      PROVE  TypeInv' /\ Grows(markets, markets')
    <2>1. EventOK(s, Head(queue[s])) /\ Handles(Head(queue[s]))
        BY <1>8, ReceivesFacts, ReceivesHandles DEF TypeInv
    <2>2. CoreOK' /\ phase' \in {"running", "failed"} /\ Grows(markets, markets')
        BY <2>1, HandlesStep DEF TypeInv
    <2>3. QED
        BY <1>1, <2>2 DEF TypeInv, Phases
<1>9. QED
    BY <1>2, <1>3, <1>4, <1>5, <1>6, <1>7, <1>8, NextCases
-----------------------------------------------------------------------------
LEMMA TypeInvariant == Spec => []TypeInv
<1>1. Init => TypeInv
    BY TypeInit
<1>2. TypeInv /\ [Next]_vars => TypeInv'
    BY TypeStep
<1>3. QED
    BY <1>1, <1>2, PTL DEF Spec

LEMMA TypeImplies ==
    ASSUME TypeInv
    PROVE  TypeOK
<1>1. /\ DOMAIN markets.by_id \subseteq 1..markets.last_market_id
      /\ \A k \in DOMAIN markets.ident : markets.by_id[markets.ident[k]].key = k
      /\ \A id \in DOMAIN markets.by_id : markets.ident[markets.by_id[id].key] = id
    BY DEF TypeInv, CoreOK, MarketsOK
<1>2. \A b \in DOMAIN books : b.market \in DOMAIN markets.by_id
    BY DEF TypeInv, CoreOK, BooksOK, BookOK
<1>3. \A s \in DOMAIN strategies, l \in UNION {Legs(x) : x \in DOMAIN strategies} :
         l[2] \in DOMAIN markets.by_id
    BY DEF TypeInv, CoreOK, StrategiesOK, StrategyOK, Legs
<1>4. \A x \in DOMAIN portfolios.by_account :
         portfolios.by_account[x] \in DOMAIN portfolios.table
    BY DEF TypeInv, CoreOK, PortfoliosOK
<1>5. \A s \in DOMAIN gateway_by_id :
         s \in Sources /\ gateway_by_id[s].available \in SUBSET MdSupport
    BY DEF TypeInv, CoreOK, GatewaysOK
<1>6. QED
    BY <1>1, <1>2, <1>3, <1>4, <1>5 DEF TypeOK, TypeInv, CoreOK

(* The tables of the core always refer to entries that exist: markets and  *)
(* their index to each other, books, positions and legs to markets,        *)
(* accounts to portfolios (market/manager.hpp:62, core/strategy.cpp).      *)
THEOREM TypeCorrect == Spec => []TypeOK
<1>1. TypeInv => TypeOK
    BY TypeImplies
<1>2. QED
    BY <1>1, TypeInvariant, PTL

(* Every book is found by the exchange and symbol that orders name, and    *)
(* the number a book has resolved is that of the gateway it names          *)
(* (oms/manager.cpp:785).                                                  *)
THEOREM BooksFound == Spec => []BooksReachable
<1>1. ASSUME TypeInv, NEW b \in DOMAIN books
      PROVE  /\ FindsBook(books, markets, b.strategy, b.account, books[b].key)
             /\ books[b].trade_gateway_id # NoSource =>
                  SourceName[books[b].trade_gateway_id] = books[b].trade_gateway_name
    <2>1. BookOK(books, markets, b) /\ MarketsOK(markets)
        BY <1>1 DEF TypeInv, CoreOK, BooksOK
    <2>2. get_market_ident(markets, books[b].key) = b.market
        BY <2>1 DEF BookOK, MarketsOK, get_market_ident, Get
    <2>3. QED
        BY <2>1, <2>2 DEF FindsBook, BookOK
<1>2. TypeInv => BooksReachable
    BY <1>1 DEF BooksReachable
<1>3. QED
    BY <1>2, TypeInvariant, PTL

(* A market that has a number keeps it until the process ends, whoever     *)
(* emplaces it again (market/manager.hpp:62).                              *)
THEOREM NumbersStable == Spec => IdsStable
<1>1. TypeInv /\ [Next]_vars =>
        [phase' # "new" =>
           \A k \in DOMAIN markets.ident :
               k \in DOMAIN markets'.ident /\ markets'.ident[k] = markets.ident[k]]_vars
    BY TypeStep DEF Grows
<1>2. QED
    BY <1>1, TypeInvariant, PTL DEF Spec, IdsStable
-----------------------------------------------------------------------------
(* How far a connection is: nothing but the end of it is under way when it *)
(* is lost; until the status of a download has been taken the gateway is   *)
(* not ready, and from the begin of it to its end it counts as loading.    *)
LinkInv(s) ==
    /\ s \notin linked =>
         /\ queue[s] = <<>> \/ queue[s] = <<Plain("Disconnected", s)>>
         /\ queue[s] = <<>> => ~Ready(gateway_by_id, s)
    /\ s \in linked =>
         /\ Marks(queue[s])
         /\ (\E i \in DOMAIN queue[s] : IsStatus(queue[s][i])) => ~Ready(gateway_by_id, s)
         /\ (\E i \in DOMAIN queue[s] : IsEnd(queue[s][i]))
            /\ (\A i \in DOMAIN queue[s] : ~IsBegin(queue[s][i])) => Loading(gateway_by_id, s)

LinksInv == \A s \in Sources : LinkInv(s)

LEMMA HandlesFollows ==
    ASSUME CoreOK, NEW s \in Sources, NEW e, EventOK(s, e), Handles(e)
    PROVE  Follows(gateway_by_id, gateway_by_id', s, e)
<1>1. CASE GatewaysHandle(e)
    BY <1>1, GatewaysFacts DEF CoreOK
<1>2. CASE /\ UNCHANGED gateway_by_id
           /\ Unmarked(e) /\ e.kind # "Disconnected"
    BY <1>2 DEF Follows, Unmarked
<1>3. CASE e.kind = "ReferenceData" /\ ReferenceData(e)
    BY <1>2, <1>3 DEF ReferenceData, gatewayVars, Unmarked, IsStatus, IsBegin, IsEnd
<1>4. CASE IsData(e) /\ MarketData(e)
    <2>1. UNCHANGED gateway_by_id
        BY <1>4, MarketStepFacts
    <2>2. QED
        BY <1>2, <1>4, <2>1 DEF IsData, Unmarked, IsStatus, IsBegin, IsEnd
<1>5. CASE e.kind = "PositionUpdate" /\ PositionUpdate(e)
    <2>1. UNCHANGED gateway_by_id
        BY <1>5, PositionStepFacts
    <2>2. QED
        BY <1>2, <1>5, <2>1 DEF Unmarked, IsStatus, IsBegin, IsEnd
<1>6. CASE e.kind = "OrderUpdate" /\ OrderUpdate(e)
    <2>1. UNCHANGED gateway_by_id
        BY <1>6, OrderStepFacts
    <2>2. QED
        BY <1>2, <1>6, <2>1 DEF Unmarked, IsStatus, IsBegin, IsEnd
<1>7. CASE e.kind = "ParametersUpdate" /\ ParametersUpdate(e.update)
    <2>1. UNCHANGED gateway_by_id
        BY <1>7, UpdateStep
    <2>2. QED
        BY <1>2, <1>7, <2>1 DEF Unmarked, IsStatus, IsBegin, IsEnd
<1>8. QED
    BY <1>1, <1>3, <1>4, <1>5, <1>6, <1>7
       DEF Handles, GatewaySettings, GatewayChanges, DownloadEnd, GatewayStatus

LEMMA LinkSame ==
    ASSUME NEW s, LinkInv(s), queue'[s] = queue[s], s \in linked' <=> s \in linked,
           Ready(gateway_by_id', s) => Ready(gateway_by_id, s),
           Loading(gateway_by_id, s) => Loading(gateway_by_id', s)
    PROVE  LinkInv(s)'
BY DEF LinkInv

LEMMA LinkAppended ==
    ASSUME EventsInv, LinksInv, NEW s \in Sources, NEW q, EventsOK(s, q), AllUnmarked(q),
           Appended(s, q), s \in linked, UNCHANGED <<linked, gateway_by_id>>
    PROVE  LinksInv'
<1>1. IsSequence(queue[s]) /\ Marks(queue[s]) /\ IsSequence(q)
    BY DEF EventsInv, EventsOK, LinksInv, LinkInv
<1>2. queue'[s] = queue[s] \o q
    BY DEF Appended
<1>3. /\ Marks(queue'[s])
      /\ \A i \in DOMAIN queue'[s] :
           ~Unmarked(queue'[s][i]) => i \in DOMAIN queue[s] /\ queue'[s][i] = queue[s][i]
      /\ \A i \in DOMAIN queue[s] : i \in DOMAIN queue'[s] /\ queue'[s][i] = queue[s][i]
    BY <1>1, <1>2, MarksConcat
<1>4. LinkInv(s)
    BY DEF LinksInv
<1>5. /\ (\E i \in DOMAIN queue'[s] : IsStatus(queue'[s][i])) =>
           \E i \in DOMAIN queue[s] : IsStatus(queue[s][i])
      /\ (\E i \in DOMAIN queue'[s] : IsEnd(queue'[s][i])) =>
           \E i \in DOMAIN queue[s] : IsEnd(queue[s][i])
      /\ (\A i \in DOMAIN queue'[s] : ~IsBegin(queue'[s][i])) =>
           \A i \in DOMAIN queue[s] : ~IsBegin(queue[s][i])
    BY <1>3 DEF Unmarked
<1>6. LinkInv(s)'
    BY <1>3, <1>4, <1>5 DEF LinkInv
<1>7. \A r \in Sources : r # s => LinkInv(r)'
    BY LinkSame DEF LinksInv, Appended
<1>8. QED
    BY <1>6, <1>7 DEF LinksInv

LEMMA LinkTaken ==
    ASSUME EventsInv, LinksInv, NEW s \in Sources, Taken(s), IsTail(queue[s], queue'[s]),
           Follows(gateway_by_id, gateway_by_id', s, Head(queue[s]))
    PROVE  LinksInv'
<1> DEFINE e == Head(queue[s])
           q == queue[s]
           u == queue'[s]
<1>1. LinkInv(s)
    BY DEF LinksInv
<1>2. \A r \in Sources : r # s => LinkInv(r)'
    <2>1. ASSUME NEW r \in Sources, r # s
          PROVE  LinkInv(r)'
        <3>1. LinkInv(r) /\ queue'[r] = queue[r] /\ linked' = linked
            BY <2>1 DEF LinksInv, Taken
        <3>2. /\ Ready(gateway_by_id', r) => Ready(gateway_by_id, r)
              /\ Loading(gateway_by_id, r) => Loading(gateway_by_id', r)
            BY <2>1 DEF Follows, Ready, Loading
        <3>3. QED
            BY <3>1, <3>2, LinkSame
    <2>2. QED
        BY <2>1
<1>3. CASE s \notin linked
    <2>1. queue[s] = <<Plain("Disconnected", s)>>
        BY <1>1, <1>3 DEF LinkInv, Taken
    <2>2. e.kind = "Disconnected" /\ u = <<>>
        BY <2>1 DEF Plain, Taken
    <2>3. ~Ready(gateway_by_id', s)
        BY <2>2 DEF Follows, IsStatus
    <2>4. s \notin linked'
        BY <1>3 DEF Taken
    <2>5. LinkInv(s)'
        BY <2>2, <2>3, <2>4 DEF LinkInv
    <2>6. QED
        BY <1>2, <2>5 DEF LinksInv
<1>4. CASE s \in linked
    <2>1. Marks(q)
        BY <1>1, <1>4 DEF LinkInv
    <2>2. /\ 1 \in DOMAIN q /\ e = q[1]
          /\ \A i \in DOMAIN u : i \in Nat \ {0} /\ i + 1 \in DOMAIN q /\ u[i] = q[i + 1]
          /\ \A i \in DOMAIN q : i \in Nat \ {0} /\ (i # 1 => i - 1 \in DOMAIN u /\ u[i - 1] = q[i])
        BY DEF IsTail
    <2> HIDE DEF q, u, e
    <2>3. Marks(u)
        <3>1. ASSUME NEW i \in DOMAIN u, NEW j \in DOMAIN u,
                     i + 1 = j + 1
              PROVE  i = j
            BY <2>2, <3>1
        <3>2. ASSUME NEW i \in DOMAIN u, IsBegin(u[i])
              PROVE  \E j \in DOMAIN u : j > i /\ IsStatus(u[j])
            <4>1. PICK j \in DOMAIN q : j > i + 1 /\ IsStatus(q[j])
                BY <2>1, <2>2, <3>2 DEF Marks
            <4>2. j # 1 /\ j - 1 > i
                BY <2>2, <4>1
            <4>3. QED
                BY <2>2, <4>1, <4>2
        <3>3. QED
            BY <2>1, <2>2, <3>1, <3>2 DEF Marks
    <2>4. ASSUME NEW i \in DOMAIN u, IsStatus(u[i])
          PROVE  ~Ready(gateway_by_id', s)
        <3>1. i + 1 \in DOMAIN q /\ IsStatus(q[i + 1]) /\ i + 1 # 1
            BY <2>2, <2>4
        <3>2. ~IsStatus(e)
            BY <2>1, <2>2, <3>1 DEF Marks
        <3>3. ~Ready(gateway_by_id, s)
            BY <1>1, <1>4, <3>1 DEF LinkInv, q
        <3>4. QED
            BY <3>2, <3>3 DEF Follows, e
    <2>5. ASSUME NEW i \in DOMAIN u, IsEnd(u[i]), \A j \in DOMAIN u : ~IsBegin(u[j])
          PROVE  Loading(gateway_by_id', s)
        <3>1. i + 1 \in DOMAIN q /\ IsEnd(q[i + 1]) /\ i + 1 # 1
            BY <2>2, <2>5
        <3>2. ~IsEnd(e)
            BY <2>1, <2>2, <3>1 DEF Marks
        <3>3. CASE IsBegin(e)
            BY <3>3 DEF Follows, e
        <3>4. CASE ~IsBegin(e)
            <4>1. \A j \in DOMAIN q : ~IsBegin(q[j])
                BY <2>2, <2>5, <3>4
            <4>2. Loading(gateway_by_id, s)
                BY <1>1, <1>4, <3>1, <4>1 DEF LinkInv, q
            <4>3. QED
                BY <3>2, <4>2 DEF Follows, e
        <3>5. QED
            BY <3>3, <3>4
    <2>6. s \in linked'
        BY <1>4 DEF Taken
    <2>7. LinkInv(s)'
        BY <2>3, <2>4, <2>5, <2>6 DEF LinkInv, u
    <2>8. QED
        BY <1>2, <2>7 DEF LinksInv
<1>5. QED
    BY <1>3, <1>4

LEMMA LinkInit ==
    ASSUME Init
    PROVE  LinksInv
BY DEF Init, CoreInit, GatewaysInit, LinksInv, LinkInv, Ready

LEMMA LinkConnected ==
    ASSUME EventsInv, LinksInv, NEW s \in Sources, Connects(s)
    PROVE  LinksInv'
<1>1. /\ s \notin linked /\ queue[s] = <<>>
      /\ linked' = linked \cup {s}
      /\ gateway_by_id' = gateway_by_id
      /\ Sends(s, Download(s))
    BY DEF Connects, coreVars, gatewayVars
<1>2. /\ EventsOK(s, Download(s)) /\ Marks(Download(s))
      /\ \E i \in DOMAIN Download(s) : IsBegin(Download(s)[i])
    BY DownloadFacts
<1>3. Appended(s, Download(s))
    BY <1>1, <1>2, SendsFacts
<1>4. \A S : \A q \in Seq(S) : <<>> \o q = q
    OBVIOUS
<1>5. queue'[s] = Download(s)
    BY <1>1, <1>2, <1>3, <1>4 DEF Appended, EventsOK, IsSequence
<1>6. ~Ready(gateway_by_id, s)
    BY <1>1 DEF LinksInv, LinkInv
<1>7. LinkInv(s)'
    BY <1>1, <1>2, <1>5, <1>6 DEF LinkInv
<1>8. \A r \in Sources : r # s => LinkInv(r)'
    BY <1>1, <1>3, LinkSame DEF LinksInv, Appended
<1>9. QED
    BY <1>7, <1>8 DEF LinksInv

LEMMA LinkBroken ==
    ASSUME EventsInv, LinksInv, NEW s \in Sources, Breaks(s)
    PROVE  LinksInv'
<1>1. /\ linked' = linked \ {s}
      /\ gateway_by_id' = gateway_by_id
      /\ queue' = [queue EXCEPT ![s] = <<Plain("Disconnected", s)>>]
    BY DEF Breaks, coreVars, gatewayVars
<1>2. /\ queue'[s] = <<Plain("Disconnected", s)>>
      /\ \A r \in Sources : r # s => queue'[r] = queue[r]
    BY <1>1 DEF EventsInv
<1>3. queue'[s] # <<>>
    BY <1>2, OneEvent
<1>4. LinkInv(s)'
    BY <1>1, <1>2, <1>3 DEF LinkInv
<1>5. \A r \in Sources : r # s => LinkInv(r)'
    BY <1>1, <1>2, LinkSame DEF LinksInv
<1>6. QED
    BY <1>4, <1>5 DEF LinksInv

LEMMA LinkOutside ==
    ASSUME EventsInv, LinksInv, Outside
    PROVE  LinksInv'
<1>1. UNCHANGED gateway_by_id
    BY OutsideFacts DEF coreVars, gatewayVars
<1>2. ASSUME UNCHANGED <<queue, linked>>
      PROVE  LinksInv'
    BY <1>1, <1>2, LinkSame DEF LinksInv
<1>3. ASSUME NEW x \in Holdings, NEW side, Fills(x[1], x[2], side)
      PROVE  LinksInv'
    <2> DEFINE s == TradeSource[x[1]]
               after == held[x[1], x[2]] + (IF side = "BUY" THEN 1 ELSE -1)
               q == <<[kind |-> "OrderUpdate", source |-> s, account |-> x[1].account,
                       key |-> x[2], strategy_id |-> x[1].strategy, side |-> side,
                       quantity |-> 1], PositionOf(s, x[1], x[2], after)>>
    <2>1. SendsIfLinked(s, q) /\ linked' = linked
        BY <1>3 DEF Fills
    <2>2. s \in Sources /\ EventsOK(s, q) /\ AllUnmarked(q)
        BY FillEvents
    <2> HIDE DEF q, s
    <2>3. QED
        BY <1>1, <1>2, <2>1, <2>2, SendsFacts, LinkAppended
<1>4. ASSUME NEW k \in Keys, NEW layer, Moves(k, layer)
      PROVE  LinksInv'
    <2> DEFINE s == DataSource[k]
               q == <<DataOf(s, k, layer)>>
    <2>1. SendsIfLinked(s, q) /\ linked' = linked
        BY <1>4 DEF Moves
    <2>2. s \in Sources /\ EventsOK(s, q) /\ AllUnmarked(q)
        BY DataEvents
    <2> HIDE DEF q, s
    <2>3. QED
        BY <1>1, <1>2, <2>1, <2>2, SendsFacts, LinkAppended
<1>5. ASSUME NEW k \in Keys, Repeats(k)
      PROVE  LinksInv'
    <2> DEFINE s == DataSource[k]
               q == <<DataOf(s, k, top[k])>>
    <2>1. Sends(s, q) /\ s \in linked /\ linked' = linked
        BY <1>5 DEF Repeats
    <2>2. s \in Sources /\ EventsOK(s, q) /\ AllUnmarked(q)
        BY DataEvents
    <2> HIDE DEF q, s
    <2>3. QED
        BY <1>1, <2>1, <2>2, SendsFacts, LinkAppended
<1>6. ASSUME NEW s \in Sources, NEW update \in Updates, Changes(s, update)
      PROVE  LinksInv'
    <2> DEFINE q == <<[kind |-> "ParametersUpdate", source |-> s, update |-> update]>>
    <2>1. Sends(s, q) /\ s \in linked /\ linked' = linked
        BY <1>6 DEF Changes
    <2>2. EventsOK(s, q) /\ AllUnmarked(q)
        BY UpdateEvents
    <2> HIDE DEF q
    <2>3. QED
        BY <1>1, <2>1, <2>2, SendsFacts, LinkAppended
<1>7. QED
    BY <1>3, <1>4, <1>5, <1>6, LinkConnected, LinkBroken DEF Outside

LEMMA LinkStep ==
    ASSUME TypeInv, LinksInv, [Next]_vars
    PROVE  LinksInv'
<1>1. ASSUME UNCHANGED <<queue, linked, gateway_by_id>>
      PROVE  LinksInv'
    BY <1>1, LinkSame DEF LinksInv
<1>2. CASE UNCHANGED vars
    BY <1>1, <1>2 DEF vars, envVars, coreVars, gatewayVars
<1>3. CASE Configures /\ UNCHANGED envVars
    BY <1>1, <1>3, ConfiguresStep DEF envVars
<1>4. CASE DispatchesParameters /\ UNCHANGED envVars
    BY <1>1, <1>4, DispatchStep DEF envVars, TypeInv
<1>5. CASE Timer /\ UNCHANGED envVars
    BY <1>1, <1>5 DEF envVars, Timer, gatewayVars
<1>6. CASE Crashes
    <2>1. /\ linked' = {} /\ gateway_by_id' = <<>>
          /\ \A s \in Sources : queue'[s] = <<>>
        BY <1>6, CrashStep
    <2>2. QED
        BY <2>1 DEF LinksInv, LinkInv, Ready
<1>7. CASE Outside
    BY <1>7, LinkOutside DEF TypeInv
<1>8. ASSUME NEW s \in Sources, Receives(s)
      PROVE  LinksInv'
    <2>1. /\ Taken(s) /\ IsTail(queue[s], queue'[s])
          /\ EventOK(s, Head(queue[s])) /\ Handles(Head(queue[s]))
        BY <1>8, ReceivesFacts, ReceivesHandles DEF TypeInv
    <2>2. Follows(gateway_by_id, gateway_by_id', s, Head(queue[s]))
        BY <2>1, HandlesFollows DEF TypeInv
    <2>3. QED
        BY <2>1, <2>2, LinkTaken DEF TypeInv
<1>9. QED
    BY <1>2, <1>3, <1>4, <1>5, <1>6, <1>7, <1>8, NextCases

LEMMA LinkInvariant == Spec => []LinksInv
<1>1. Init => LinksInv
    BY LinkInit
<1>2. TypeInv /\ LinksInv /\ [Next]_vars => LinksInv'
    BY LinkStep
<1>3. QED
    BY <1>1, <1>2, TypeInvariant, PTL DEF Spec
-----------------------------------------------------------------------------
(* Only data of a market whose gateway is ready change quotes, and of what *)
(* is ready nothing of a download is under way.                            *)
LEMMA QuotesStep ==
    ASSUME DataAsConfigured, TypeInv, LinksInv, [Next]_vars,
           NEW s \in DOMAIN strategies \cap DOMAIN strategies',
           NEW l \in Legs(s) \cap DOMAIN strategies'[s].legs,
           strategies'[s].legs[l].quotes # strategies[s].legs[l].quotes
    PROVE  LET source == DataSource[markets.by_id[l[2]].key]
           IN  /\ source \in linked
               /\ OfAccount("DownloadEnd", source, "") \notin ToSet(queue[source])
<1>1. ~UNCHANGED strategies
    OBVIOUS
<1>2. ~Kept
    BY DEF Kept, StrategiesKept, LegsKept, Legs
<1>3. \E r \in Sources : Receives(r)
    <2>1. ~(UNCHANGED vars) /\ ~Outside
        BY <1>1, OutsideFacts DEF vars, coreVars
    <2>2. ~Configures
        BY <1>1, ConfiguresStep
    <2>3. ~DispatchesParameters
        BY <1>2, DispatchStep DEF TypeInv
    <2>4. ~Timer
        BY <1>2, TimerStep DEF TypeInv
    <2>5. ~Crashes
        BY CrashStep DEF Empty
    <2>6. QED
        BY <2>1, <2>2, <2>3, <2>4, <2>5, NextCases
<1>4. PICK r \in Sources : Receives(r)
    BY <1>3
<1> DEFINE e == Head(queue[r])
           market == get_market_ident(markets, e.key)
<1>5. /\ EventOK(r, e) /\ Handles(e) /\ CoreOK
      /\ queue[r] # <<>> /\ IsTail(queue[r], queue'[r])
    BY <1>4, ReceivesFacts, ReceivesHandles DEF TypeInv, Taken
<1> HIDE DEF e
<1>6. ~PositionUpdate(e)
    BY <1>5, PositionStepFacts, Zenon DEF PositionsOnlyOf, Legs
<1>7. ~(e.kind = "ParametersUpdate" /\ ParametersUpdate(e.update))
    BY <1>2, <1>5, UpdateStep
<1>8. IsData(e) /\ MarketData(e)
    BY <1>1, <1>2, <1>5, <1>6, <1>7, SettingsStep, ReferenceStep, ChangesStep, EndStep,
       StatusStep, OrderStepFacts DEF Handles
<1>9. market_is_ready(market) /\ QuotesOnlyOf(market, strategies, strategies')
    BY <1>1, <1>5, <1>8, MarketStepFacts
<1>10. l[2] = market
    BY <1>9 DEF QuotesOnlyOf, Legs
<1>11. market \in DOMAIN markets.by_id /\ markets.by_id[market].key = e.key
    <2>1. market \in DOMAIN markets.by_id /\ market # 0
        BY <1>5, <1>9 DEF market_is_ready, CoreOK, MarketsOK
    <2>2. e.key \in DOMAIN markets.ident /\ market = markets.ident[e.key]
        BY <2>1 DEF get_market_ident, Get, NoMarket
    <2>3. QED
        BY <1>5, <2>1, <2>2 DEF CoreOK, MarketsOK
<1>12. e.key \in Keys /\ DataSource[e.key] = r
    BY <1>5, <1>8 DEF EventOK
<1>13. r \in linked
    <2>1. ASSUME r \notin linked PROVE FALSE
        <3>1. queue[r] = <<Plain("Disconnected", r)>>
            BY <1>5, <2>1 DEF LinksInv, LinkInv
        <3>2. e.kind = "Disconnected"
            BY <3>1 DEF e, Plain
        <3>3. QED
            BY <1>8, <3>2 DEF IsData
    <2>2. QED
        BY <2>1
<1> DEFINE id == markets.by_id[market].mdata_gateway_id
<1>14. id # Unassigned /\ Ready(gateway_by_id, id) /\ ~Loading(gateway_by_id, id)
    BY <1>9 DEF market_is_ready, is_ready, is_downloading, Ready, Loading
<1>15. id = r
    <2>1. id \in Sources /\ SourceName[id] = markets.by_id[market].mdata_gateway_name
        BY <1>5, <1>11, <1>14 DEF CoreOK, MarketsNamed
    <2>2. NamedByFile(e.key, SourceName[id])
        BY <1>5, <1>11, <2>1 DEF CoreOK, MarketsNamed, DataAsConfigured
    <2>3. QED
        BY <1>12, <2>1, <2>2 DEF DataAsConfigured
<1>16. \A i \in DOMAIN queue[r] : ~IsEnd(queue[r][i])
    <2>1. LinkInv(r) /\ IsSequence(queue[r])
        BY DEF LinksInv, TypeInv, EventsInv, EventsOK
    <2>2. \A i \in DOMAIN queue[r] : ~IsStatus(queue[r][i])
        BY <1>13, <1>14, <1>15, <2>1 DEF LinkInv
    <2>3. \A i \in DOMAIN queue[r] : ~IsBegin(queue[r][i])
        BY <1>13, <2>1, <2>2 DEF LinkInv, Marks
    <2>4. QED
        BY <1>13, <1>14, <1>15, <2>1, <2>3 DEF LinkInv
<1>17. OfAccount("DownloadEnd", r, "") \notin ToSet(queue[r])
    <2>1. IsEnd(OfAccount("DownloadEnd", r, ""))
        BY DEF IsEnd, OfAccount
    <2>2. QED
        BY <1>16, <2>1 DEF ToSet
<1>18. QED
    BY <1>10, <1>11, <1>12, <1>13, <1>17

(* A leg is given quotes only when the download of its market's gateway is *)
(* done and the connection has not been lost (core/manager.cpp is_ready),  *)
(* whenever the data come from the gateway the file names.                 *)
THEOREM QuotesInTime ==
    ASSUME DataAsConfigured
    PROVE  Spec => QuotesOnlyOnceDownloaded
<1>1. TypeInv /\ LinksInv /\ [Next]_vars =>
        [\A s \in DOMAIN strategies \cap DOMAIN strategies' :
           \A l \in Legs(s) \cap DOMAIN strategies'[s].legs :
              strategies'[s].legs[l].quotes # strategies[s].legs[l].quotes =>
              LET source == DataSource[markets.by_id[l[2]].key]
              IN  /\ source \in linked
                  /\ OfAccount("DownloadEnd", source, "") \notin ToSet(queue[source])]_vars
    BY QuotesStep
<1>2. QED
    BY <1>1, TypeInvariant, LinkInvariant, PTL DEF Spec, QuotesOnlyOnceDownloaded
-----------------------------------------------------------------------------
CompleteInv ==
    /\ phase # "failed"
    /\ phase # "new" => Complete

LEMMA HandlesComplete ==
    ASSUME CompleteFile, CoreOK, Complete,
           NEW s \in Sources, NEW e, EventOK(s, e), Handles(e)
    PROVE  Complete' /\ phase' = "running"
<1>1. CASE e.kind = "GatewaySettings" /\ GatewaySettings(e)
    BY <1>1, SettingsStep DEF Steady
<1>2. CASE e.kind = "ReferenceData" /\ ReferenceData(e)
    BY <1>2, ReferenceStep DEF Steady
<1>3. CASE e.kind \in {"DownloadBegin", "Disconnected"} /\ GatewayChanges(e)
    BY <1>3, ChangesStep DEF Steady
<1>4. CASE e.kind = "DownloadEnd" /\ DownloadEnd(e)
    BY <1>4, EndStep DEF Steady
<1>5. CASE e.kind = "GatewayStatus" /\ GatewayStatus(e)
    BY <1>5, StatusStep DEF Steady
<1>6. CASE IsData(e) /\ MarketData(e)
    BY <1>6, MarketStepFacts DEF Steady
<1>7. CASE e.kind = "PositionUpdate" /\ PositionUpdate(e)
    <2>1. PICK x \in Holdings : IsPosition(e, x)
        BY <1>7 DEF EventOK
    <2>2. FileTrades(e.key[1], e.account)
        BY <2>1 DEF IsPosition, CompleteFile
    <2>3. QED
        BY <1>7, <2>2, PositionStepFacts
<1>8. CASE e.kind = "OrderUpdate" /\ OrderUpdate(e)
    BY <1>8, OrderStepFacts DEF Steady, CompleteFile
<1>9. CASE e.kind = "ParametersUpdate" /\ ParametersUpdate(e.update)
    BY <1>9, UpdateStep DEF CompleteFile, EventOK
<1>10. QED
    BY <1>1, <1>2, <1>3, <1>4, <1>5, <1>6, <1>7, <1>8, <1>9 DEF Handles

LEMMA CompleteStep ==
    ASSUME CompleteFile, TypeInv, CompleteInv, [Next]_vars
    PROVE  CompleteInv'
<1>1. ASSUME UNCHANGED coreVars
      PROVE  CompleteInv'
    BY <1>1 DEF coreVars, bookVars, CompleteInv, Complete, GatewaysLoaded, get_trade_gateway
<1>2. CASE UNCHANGED vars
    BY <1>1, <1>2 DEF vars
<1>3. CASE Configures /\ UNCHANGED envVars
    <2>1. Empty
        BY <1>3 DEF Configures, TypeInv
    <2>2. /\ phase' = "configured" /\ GatewaysLoaded'
          /\ UNCHANGED <<strategies, books>>
        BY <1>3, ConfiguresStep DEF CompleteFile
    <2>3. BooksNamed(books') /\ LegsTradable(strategies', markets')
        BY <2>1, <2>2 DEF Empty, BooksNamed, LegsTradable
    <2>4. QED
        BY <2>2, <2>3 DEF CompleteInv, Complete
<1>4. CASE DispatchesParameters /\ UNCHANGED envVars
    <2>1. Complete
        BY <1>4 DEF DispatchesParameters, CompleteInv
    <2>2. QED
        BY <1>4, <2>1, DispatchStep DEF TypeInv, CompleteFile, CompleteInv
<1>5. CASE Timer /\ UNCHANGED envVars
    <2>1. Complete
        BY <1>5 DEF Timer, CompleteInv
    <2>2. QED
        BY <1>5, <2>1, TimerStep DEF TypeInv, Steady, CompleteInv
<1>6. CASE Crashes
    BY <1>6, CrashStep DEF CompleteInv
<1>7. CASE Outside
    BY <1>1, <1>7, OutsideFacts
<1>8. ASSUME NEW s \in Sources, Receives(s)
      PROVE  CompleteInv'
    <2>1. EventOK(s, Head(queue[s])) /\ Handles(Head(queue[s]))
        BY <1>8, ReceivesFacts, ReceivesHandles DEF TypeInv
    <2>2. phase = "running"
        BY <2>1 DEF Handles, GatewaySettings, ReferenceData, GatewayChanges, DownloadEnd,
                    GatewayStatus, MarketData, PositionUpdate, OrderUpdate, ParametersUpdate
    <2>3. QED
        BY <2>1, <2>2, HandlesComplete DEF TypeInv, CompleteInv
<1>9. QED
    BY <1>2, <1>3, <1>4, <1>5, <1>6, <1>7, <1>8, NextCases

(* With a complete file nothing is thrown and no assert fails, in whatever *)
(* order the events come, after any lost connection, restart and change of *)
(* parameters: a book always has a gateway (oms/manager.cpp:103).          *)
THEOREM FileSuffices ==
    ASSUME CompleteFile
    PROVE  Spec => []NeverFails
<1>1. Init => CompleteInv
    BY DEF Init, CoreInit, CompleteInv
<1>2. TypeInv /\ CompleteInv /\ [Next]_vars => CompleteInv'
    BY CompleteStep
<1>3. CompleteInv => NeverFails
    BY DEF CompleteInv, NeverFails
<1>4. QED
    BY <1>1, <1>2, <1>3, TypeInvariant, PTL DEF Spec
-----------------------------------------------------------------------------
KnownInv ==
    /\ phase # "new" => \A x \in Holdings : HasPortfolio(PortfolioOf(x), portfolios)
    /\ phase \notin {"new", "configured"} => \A x \in Holdings : x[1].strategy \in DOMAIN strategies

(* Portfolio and leg have the position that is held.                       *)
Has(x) ==
    LET leg == <<x[1].account, markets.ident[x[2]]>>
        id == x[1].strategy
    IN  /\ x[2] \in DOMAIN markets.ident
        /\ id \in DOMAIN portfolios.table
        /\ leg \in DOMAIN portfolios.table[id].positions
        /\ portfolios.table[id].positions[leg] = Holds(x[1], x[2])
        /\ id \in DOMAIN strategies
        /\ leg \in DOMAIN strategies[id].legs
        /\ strategies[id].legs[leg].position = Holds(x[1], x[2])

(* The last that is under way about a position is what is held; when there *)
(* is nothing under way it has been taken.                                 *)
PositionInv(x) ==
    LET s == TradeSource[x[1]]
        q == queue[s]
    IN  s \in linked =>
        /\ \A i \in DOMAIN q :
             /\ IsPosition(q[i], x)
             /\ \A j \in DOMAIN q : j > i => ~IsPosition(q[j], x)
             => q[i] = PositionOf(s, x[1], x[2], held[x])
        /\ (\E i \in DOMAIN q : IsPosition(q[i], x)) \/ Has(x)

PositionsInv == \A x \in Holdings : PositionInv(x)

LEMMA HoldingPair ==
    ASSUME NEW x \in Holdings
    PROVE  /\ x = <<x[1], x[2]>>
           /\ TradeSource[x[1]] \in Sources
           /\ held[x[1], x[2]] = held[x]
<1>1. x \in Traders \X Keys
    BY EventsAssumption
<1>2. x = <<x[1], x[2]>> /\ x[1] \in Traders
    BY <1>1
<1>3. TradeSource[x[1]] \in Sources
    BY <1>2, EventsAssumption
<1>4. held[x[1], x[2]] = held[x]
    BY <1>2
<1>5. QED
    BY <1>2, <1>3, <1>4

LEMMA HasKept ==
    ASSUME NEW x \in Holdings, Has(x), PositionsStay, held'[x] = held[x]
    PROVE  Has(x)'
<1>1. held[x[1], x[2]] = held[x] /\ held'[x[1], x[2]] = held'[x]
    BY HoldingPair
<1>2. Holds(x[1], x[2])' = Holds(x[1], x[2])
    BY <1>1 DEF Holds
<1>3. /\ x[2] \in DOMAIN markets'.ident
      /\ markets'.ident[x[2]] = markets.ident[x[2]]
    BY DEF Has, PositionsStay, Grows
<1> DEFINE id == x[1].strategy
           leg == <<x[1].account, markets.ident[x[2]]>>
<1>4. /\ id \in DOMAIN portfolios'.table
      /\ portfolios'.table[id] = portfolios.table[id]
    BY DEF Has, PositionsStay, PortfoliosGrow
<1>5. /\ id \in DOMAIN strategies'
      /\ leg \in DOMAIN strategies'[id].legs
      /\ strategies'[id].legs[leg].position = strategies[id].legs[leg].position
    BY DEF Has, PositionsStay
<1>6. QED
    BY <1>2, <1>3, <1>4, <1>5 DEF Has

LEMMA HandlesPositions ==
    ASSUME HoldingsConfigured, CoreOK, NEW s \in Sources, NEW e, EventOK(s, e), Handles(e),
           e.kind # "PositionUpdate"
    PROVE  PositionsStay
<1>1. CASE e.kind = "GatewaySettings" /\ GatewaySettings(e)
    BY <1>1, SettingsStep, KeptStays
<1>2. CASE e.kind = "ReferenceData" /\ ReferenceData(e)
    BY <1>2, ReferenceStep, KeptStays
<1>3. CASE e.kind \in {"DownloadBegin", "Disconnected"} /\ GatewayChanges(e)
    BY <1>3, ChangesStep, KeptStays
<1>4. CASE e.kind = "DownloadEnd" /\ DownloadEnd(e)
    BY <1>4, EndStep, KeptStays
<1>5. CASE e.kind = "GatewayStatus" /\ GatewayStatus(e)
    BY <1>5, StatusStep, KeptStays
<1>6. CASE IsData(e) /\ MarketData(e)
    BY <1>6, MarketStepFacts
<1>7. CASE e.kind = "OrderUpdate" /\ OrderUpdate(e)
    <2>1. UNCHANGED <<markets, strategies, portfolios>>
        BY <1>7, OrderStepFacts DEF HoldingsConfigured
    <2>2. QED
        BY <2>1, GrowsFacts, PortfoliosSame DEF PositionsStay, CoreOK
<1>8. CASE e.kind = "ParametersUpdate" /\ ParametersUpdate(e.update)
    BY <1>8, UpdateStep, KeptStays
<1>9. QED
    BY <1>1, <1>2, <1>3, <1>4, <1>5, <1>6, <1>7, <1>8 DEF Handles

LEMMA KnownStep ==
    ASSUME HoldingsConfigured, TypeInv, KnownInv, [Next]_vars
    PROVE  KnownInv'
<1>1. ASSUME UNCHANGED coreVars
      PROVE  KnownInv'
    BY <1>1 DEF coreVars, KnownInv, HasPortfolio
<1>2. ASSUME PositionsStay, phase # "new",
             phase = "configured" =>
                 \A x \in Holdings : x[1].strategy \in DOMAIN strategies'
      PROVE  KnownInv'
    BY <1>2 DEF PositionsStay, PortfoliosGrow, KnownInv, HasPortfolio
<1>3. CASE UNCHANGED vars
    BY <1>1, <1>3 DEF vars
<1>4. CASE Configures /\ UNCHANGED envVars
    <2>1. /\ phase' = "configured"
          /\ \A c : AccountsGood(c, Len(File.account), portfolios')
        BY <1>4, ConfiguresStep DEF HoldingsConfigured
    <2>2. DOMAIN File.account = 1..Len(File.account)
        BY FileAssumption, SequenceDomain
    <2>3. \A x \in Holdings : HasPortfolio(PortfolioOf(x), portfolios')
        BY <2>1, <2>2 DEF AccountsGood, HoldingsConfigured
    <2>4. QED
        BY <2>1, <2>3 DEF KnownInv
<1>5. CASE DispatchesParameters /\ UNCHANGED envVars
    <2>1. /\ Kept
          /\ \A j \in DOMAIN Loaded :
                Prefix(Loaded[j].label) = "lqs" /\ Loaded[j].strategy_id # 0 =>
                    Loaded[j].strategy_id \in DOMAIN strategies'
        BY <1>5, DispatchStep DEF TypeInv
    <2>2. ASSUME NEW x \in Holdings
          PROVE  x[1].strategy \in DOMAIN strategies'
        <3>1. x[1].strategy # 0
            BY DEF HoldingsConfigured, AccountAgreed, PortfolioOf, NoPortfolio
        <3>2. QED
            BY <2>1, <3>1 DEF HoldingsConfigured
    <2>3. phase # "new"
        BY <1>5 DEF DispatchesParameters
    <2>4. QED
        BY <1>2, <2>1, <2>2, <2>3, KeptStays
<1>6. CASE Timer /\ UNCHANGED envVars
    <2>1. PositionsStay /\ phase = "running"
        BY <1>6, TimerStep, KeptStays DEF TypeInv, Timer
    <2>2. QED
        BY <1>2, <2>1
<1>7. CASE Crashes
    BY <1>7, CrashStep DEF KnownInv
<1>8. CASE Outside
    BY <1>1, <1>8, OutsideFacts
<1>9. ASSUME NEW s \in Sources, Receives(s)
      PROVE  KnownInv'
    <2> DEFINE e == Head(queue[s])
    <2>1. EventOK(s, e) /\ Handles(e) /\ CoreOK
        BY <1>9, ReceivesFacts, ReceivesHandles DEF TypeInv
    <2> HIDE DEF e
    <2>2. phase = "running"
        BY <2>1 DEF Handles, GatewaySettings, ReferenceData, GatewayChanges, DownloadEnd,
                    GatewayStatus, MarketData, PositionUpdate, OrderUpdate, ParametersUpdate
    <2>3. CASE e.kind # "PositionUpdate"
        BY <1>2, <2>1, <2>2, <2>3, HandlesPositions
    <2>4. CASE e.kind = "PositionUpdate"
        <3>1. PositionUpdate(e)
            BY <2>1, <2>4 DEF Handles, IsData
        <3>2. /\ portfolios'.by_account = portfolios.by_account
              /\ DOMAIN strategies' = DOMAIN strategies
            BY <2>1, <3>1, PositionStepFacts, Zenon DEF PositionsOnlyOf, EntriesOnlyOf
        <3>3. QED
            BY <2>2, <3>2 DEF KnownInv, HasPortfolio
    <2>5. QED
        BY <2>3, <2>4
<1>10. QED
    BY <1>3, <1>4, <1>5, <1>6, <1>7, <1>8, <1>9, NextCases

LEMMA PositionTakenFacts ==
    ASSUME HoldingsConfigured, TypeInv, KnownInv, phase = "running",
           NEW s \in Sources, NEW e, EventOK(s, e), e.kind = "PositionUpdate",
           PositionUpdate(e), UNCHANGED held, NEW x \in Holdings
    PROVE  /\ IsPosition(e, x) /\ e = PositionOf(s, x[1], x[2], held[x]) => Has(x)'
           /\ ~IsPosition(e, x) /\ Has(x) => Has(x)'
<1> DEFINE ident == portfolio_by_account(portfolios, e.account, e.key[1])
           leg == <<e.account, markets'.ident[e.key]>>
           exposure == Exposure(e.long_quantity, e.short_quantity)
           id == x[1].strategy
           mine == <<x[1].account, markets'.ident[x[2]]>>
<1>1. /\ MarketsOK(markets') /\ PortfoliosOK(portfolios')
      /\ Grows(markets, markets') /\ e.key \in DOMAIN markets'.ident
      /\ PositionsOnlyOf(ident, leg, exposure, strategies, strategies')
      /\ EntriesOnlyOf(ident, leg, exposure, portfolios, portfolios')
    <2>1. CoreOK /\ File.position_source # "ORDERS"
        BY DEF TypeInv, HoldingsConfigured
    <2>2. QED
        BY <2>1, PositionStepFacts DEF CoreOK
<1> HIDE DEF leg, exposure, ident
<1>2. held[x[1], x[2]] = held[x] /\ held'[x[1], x[2]] = held'[x]
    BY HoldingPair
<1>3. Holds(x[1], x[2])' = Holds(x[1], x[2])
    BY DEF Holds
<1>4. ASSUME IsPosition(e, x), e = PositionOf(s, x[1], x[2], held[x])
      PROVE  Has(x)'
    <2>1. e.account = x[1].account /\ e.key = x[2]
        BY <1>4 DEF IsPosition
    <2>2. exposure = Holds(x[1], x[2])
        BY <1>2, <1>4 DEF exposure, PositionOf, Holds
    <2>3. /\ HasPortfolio(PortfolioOf(x), portfolios)
          /\ id \in DOMAIN strategies
          /\ id # NoPortfolio
        BY DEF KnownInv, HoldingsConfigured, AccountAgreed, PortfolioOf
    <2>4. id \in DOMAIN portfolios.table
        BY <2>3 DEF HasPortfolio, PortfolioOf, TypeInv, CoreOK, PortfoliosOK
    <2>5. ident = id
        BY <2>1, <2>3, <2>4 DEF ident, portfolio_by_account, Get, HasPortfolio, PortfolioOf
    <2>6. leg = mine
        BY <2>1 DEF leg
    <2>7. /\ id \in DOMAIN strategies'
          /\ mine \in DOMAIN strategies'[id].legs
          /\ strategies'[id].legs[mine].position = exposure
        BY <1>1, <2>3, <2>5, <2>6 DEF PositionsOnlyOf
    <2>8. /\ id \in DOMAIN portfolios'.table
          /\ mine \in DOMAIN portfolios'.table[id].positions
          /\ portfolios'.table[id].positions[mine] = exposure
        BY <1>1, <2>3, <2>4, <2>5, <2>6 DEF EntriesOnlyOf
    <2>9. x[2] \in DOMAIN markets'.ident
        BY <1>1, <2>1
    <2>10. QED
        BY <1>3, <2>2, <2>7, <2>8, <2>9 DEF Has
<1>5. ASSUME ~IsPosition(e, x), Has(x)
      PROVE  Has(x)'
    <2>1. x[2] \in DOMAIN markets'.ident /\ markets'.ident[x[2]] = markets.ident[x[2]]
        BY <1>1, <1>5 DEF Has, Grows
    <2>2. mine # leg
        <3>1. ASSUME mine = leg PROVE FALSE
            <4>1. e.account = x[1].account /\ markets'.ident[x[2]] = markets'.ident[e.key]
                BY <3>1 DEF leg
            <4>2. x[2] = e.key
                BY <1>1, <2>1, <4>1 DEF MarketsOK
            <4>3. QED
                BY <1>5, <4>1, <4>2 DEF IsPosition
        <3>2. QED
            BY <3>1
    <2>3. /\ id \in DOMAIN portfolios'.table
          /\ mine \in DOMAIN portfolios'.table[id].positions
          /\ portfolios'.table[id].positions[mine] = portfolios.table[id].positions[mine]
        BY <1>1, <1>5, <2>1, <2>2 DEF EntriesOnlyOf, Has
    <2>4. /\ id \in DOMAIN strategies'
          /\ mine \in DOMAIN strategies'[id].legs
          /\ strategies'[id].legs[mine].position = strategies[id].legs[mine].position
        BY <1>1, <1>5, <2>1, <2>2 DEF PositionsOnlyOf, Has
    <2>5. QED
        BY <1>3, <1>5, <2>1, <2>3, <2>4 DEF Has
<1>6. QED
    BY <1>4, <1>5

(* Distinct holdings have distinct events.                                 *)
LEMMA PositionDistinct ==
    ASSUME HoldingsConfigured, NEW x \in Holdings, NEW y \in Holdings, NEW e,
           IsPosition(e, x), IsPosition(e, y)
    PROVE  x = y
BY DEF HoldingsConfigured, IsPosition

LEMMA TakenPositions ==
    ASSUME HoldingsConfigured, TypeInv, KnownInv, PositionsInv,
           NEW s \in Sources, Taken(s), IsTail(queue[s], queue'[s]),
           EventOK(s, Head(queue[s])), Handles(Head(queue[s]))
    PROVE  PositionsInv'
<1> DEFINE e == Head(queue[s])
           q == queue[s]
           u == queue'[s]
<1>1. phase = "running" /\ UNCHANGED <<linked, held>>
    BY DEF Handles, GatewaySettings, ReferenceData, GatewayChanges, DownloadEnd, Taken,
           GatewayStatus, MarketData, PositionUpdate, OrderUpdate, ParametersUpdate
<1>2. /\ 1 \in DOMAIN q /\ e = q[1]
      /\ \A i \in DOMAIN u : i \in Nat \ {0} /\ i + 1 \in DOMAIN q /\ u[i] = q[i + 1]
      /\ \A i \in DOMAIN q : i \in Nat \ {0} /\ (i # 1 => i - 1 \in DOMAIN u /\ u[i - 1] = q[i])
    BY DEF IsTail
<1> HIDE DEF e
<1>3. ASSUME NEW x \in Holdings
      PROVE  /\ IsPosition(e, x) /\ e = PositionOf(s, x[1], x[2], held[x]) => Has(x)'
             /\ ~IsPosition(e, x) /\ Has(x) => Has(x)'
    <2>1. CASE e.kind = "PositionUpdate"
        <3>1. PositionUpdate(e)
            BY <2>1 DEF Handles, IsData, e
        <3>2. QED
            BY <1>1, <2>1, <3>1, PositionTakenFacts DEF e
    <2>2. CASE e.kind # "PositionUpdate"
        <3>1. PositionsStay
            BY <2>2, HandlesPositions DEF TypeInv, e
        <3>2. ~IsPosition(e, x)
            BY <2>2 DEF IsPosition
        <3>3. QED
            BY <1>1, <3>1, <3>2, HasKept
    <2>3. QED
        BY <2>1, <2>2
<1>4. ASSUME NEW x \in Holdings, TradeSource[x[1]] # s
      PROVE  PositionInv(x)'
    <2>1. queue'[TradeSource[x[1]]] = queue[TradeSource[x[1]]]
        BY <1>4, HoldingPair DEF Taken
    <2>2. ~IsPosition(e, x)
        <3>1. ASSUME IsPosition(e, x) PROVE FALSE
            <4>1. PICK y \in Holdings : Through(s, y) /\ IsPosition(e, y)
                BY <3>1 DEF EventOK, IsPosition, e
            <4>2. x = y
                BY <3>1, <4>1, PositionDistinct
            <4>3. QED
                BY <1>4, <4>1, <4>2 DEF Through
        <3>2. QED
            BY <3>1
    <2>3. Has(x) => Has(x)'
        BY <1>3, <2>2
    <2>4. PositionInv(x)
        BY DEF PositionsInv
    <2>5. QED
        BY <1>1, <2>1, <2>3, <2>4 DEF PositionInv
<1>5. ASSUME NEW x \in Holdings, TradeSource[x[1]] = s, s \in linked
      PROVE  PositionInv(x)'
    <2> HIDE DEF q, u
    <2>1. /\ \A i \in DOMAIN q :
               /\ IsPosition(q[i], x)
               /\ \A j \in DOMAIN q : j > i => ~IsPosition(q[j], x)
               => q[i] = PositionOf(s, x[1], x[2], held[x])
          /\ (\E i \in DOMAIN q : IsPosition(q[i], x)) \/ Has(x)
        BY <1>5 DEF PositionsInv, PositionInv, q
    <2>2. ASSUME NEW i \in DOMAIN u, IsPosition(u[i], x),
                 \A j \in DOMAIN u : j > i => ~IsPosition(u[j], x)
          PROVE  u[i] = PositionOf(s, x[1], x[2], held[x])
        <3>1. \A j \in DOMAIN q : j > i + 1 => ~IsPosition(q[j], x)
            <4>1. ASSUME NEW j \in DOMAIN q, j > i + 1
                  PROVE  ~IsPosition(q[j], x)
                <5>1. j # 1 /\ j - 1 > i
                    BY <1>2, <4>1
                <5>2. j - 1 \in DOMAIN u /\ u[j - 1] = q[j]
                    BY <1>2, <5>1
                <5>3. QED
                    BY <2>2, <5>1, <5>2
            <4>2. QED
                BY <4>1
        <3>2. i + 1 \in DOMAIN q /\ u[i] = q[i + 1]
            BY <1>2
        <3>3. QED
            BY <2>1, <2>2, <3>1, <3>2
    <2>3. ASSUME \A i \in DOMAIN u : ~IsPosition(u[i], x)
          PROVE  Has(x)'
        <3>1. \A i \in DOMAIN q : i # 1 => ~IsPosition(q[i], x)
            BY <1>2, <2>3
        <3>2. CASE IsPosition(e, x)
            <4>1. \A j \in DOMAIN q : j > 1 => ~IsPosition(q[j], x)
                BY <3>1
            <4>2. e = PositionOf(s, x[1], x[2], held[x])
                BY <1>2, <2>1, <3>2, <4>1
            <4>3. QED
                BY <1>3, <3>2, <4>2
        <3>3. CASE ~IsPosition(e, x)
            <4>1. Has(x)
                BY <1>2, <2>1, <3>1, <3>3
            <4>2. QED
                BY <1>3, <3>3, <4>1
        <3>4. QED
            BY <3>2, <3>3
    <2>4. QED
        BY <1>1, <1>5, <2>2, <2>3 DEF PositionInv, u
<1>6. ASSUME NEW x \in Holdings, TradeSource[x[1]] = s, s \notin linked
      PROVE  PositionInv(x)'
    BY <1>1, <1>6 DEF PositionInv
<1>7. QED
    BY <1>4, <1>5, <1>6 DEF PositionsInv

(* The core has not seen an event yet: what it has stays.                  *)
LEMMA HasUnseen ==
    ASSUME TypeInv, UNCHANGED coreVars, NEW x \in Holdings, Has(x), held'[x] = held[x]
    PROVE  Has(x)'
<1>1. UNCHANGED <<markets, strategies, portfolios>>
    BY DEF coreVars
<1>2. PositionsStay
    BY <1>1, GrowsFacts, PortfoliosSame DEF PositionsStay, TypeInv, CoreOK
<1>3. QED
    BY <1>2, HasKept

LEMMA PositionUntold ==
    ASSUME TypeInv, UNCHANGED coreVars, NEW s \in Sources, NEW q, EventsOK(s, q),
           Appended(s, q), UNCHANGED linked,
           NEW x \in Holdings, PositionInv(x), held'[x] = held[x],
           \A i \in DOMAIN q : ~IsPosition(q[i], x)
    PROVE  PositionInv(x)'
<1> DEFINE r == TradeSource[x[1]]
           p == queue[r]
           u == queue'[r]
<1>1. r \in Sources
    BY HoldingPair
<1>2. /\ \A i \in DOMAIN u : IsPosition(u[i], x) => i \in DOMAIN p /\ u[i] = p[i]
      /\ \A i \in DOMAIN p : i \in DOMAIN u /\ u[i] = p[i]
    <2>1. CASE r # s
        BY <1>1, <2>1 DEF Appended
    <2>2. CASE r = s
        <3>1. IsSequence(p) /\ IsSequence(q)
            BY <1>1 DEF TypeInv, EventsInv, EventsOK
        <3>2. IsConcat(p, q, u)
            BY <2>2, <3>1, ConcatFacts DEF Appended
        <3>3. DOMAIN p = 1..Len(p) /\ DOMAIN u = 1..Len(u)
            BY <3>1, <3>2, SequenceDomain DEF IsConcat
        <3> HIDE DEF p, u
        <3>4. \A i \in DOMAIN p : i \in DOMAIN u /\ u[i] = p[i]
            BY <3>2, <3>3 DEF IsConcat
        <3>5. \A i \in DOMAIN u : IsPosition(u[i], x) => i \in DOMAIN p /\ u[i] = p[i]
            BY <3>2 DEF IsConcat
        <3>6. QED
            BY <3>4, <3>5
    <2>3. QED
        BY <2>1, <2>2
<1>3. CASE r \in linked
    <2> HIDE DEF p, u, r
    <2>1. /\ \A i \in DOMAIN p :
               /\ IsPosition(p[i], x)
               /\ \A j \in DOMAIN p : j > i => ~IsPosition(p[j], x)
               => p[i] = PositionOf(r, x[1], x[2], held[x])
          /\ (\E i \in DOMAIN p : IsPosition(p[i], x)) \/ Has(x)
        BY <1>3 DEF PositionInv, p, r
    <2>2. ASSUME NEW i \in DOMAIN u, IsPosition(u[i], x),
                 \A j \in DOMAIN u : j > i => ~IsPosition(u[j], x)
          PROVE  u[i] = PositionOf(r, x[1], x[2], held'[x])
        <3>1. i \in DOMAIN p /\ u[i] = p[i]
            BY <1>2, <2>2
        <3>2. \A j \in DOMAIN p : j > i => ~IsPosition(p[j], x)
            BY <1>2, <2>2
        <3>3. QED
            BY <2>1, <2>2, <3>1, <3>2
    <2>3. (\E i \in DOMAIN u : IsPosition(u[i], x)) \/ Has(x)'
        BY <1>2, <2>1, HasUnseen
    <2>4. QED
        BY <2>2, <2>3 DEF PositionInv, u, r
<1>4. CASE r \notin linked
    BY <1>4 DEF PositionInv
<1>5. QED
    BY <1>3, <1>4

LEMMA PositionTold ==
    ASSUME TypeInv, NEW x \in Holdings, NEW q, EventsOK(TradeSource[x[1]], q),
           Appended(TradeSource[x[1]], q),
           DOMAIN q = {1, 2}, q[2] = PositionOf(TradeSource[x[1]], x[1], x[2], held'[x])
    PROVE  PositionInv(x)'
<1> DEFINE s == TradeSource[x[1]]
           p == queue[s]
           u == queue'[s]
<1>1. s \in Sources
    BY HoldingPair
<1>2. IsSequence(p) /\ IsSequence(q)
    BY <1>1 DEF TypeInv, EventsInv, EventsOK
<1>3. IsConcat(p, q, u)
    BY <1>2, ConcatFacts DEF Appended
<1>4. /\ DOMAIN u = 1..Len(u) /\ DOMAIN q = 1..Len(q) /\ Len(q) \in Nat
    BY <1>2, <1>3, SequenceDomain DEF IsConcat
<1>5. Len(q) = 2
    BY <1>4
<1>6. IsPosition(q[2], x)
    BY PositionFacts DEF Through
<1> HIDE DEF p, u
<1>7. /\ Len(u) \in DOMAIN u /\ Len(u) \in Nat /\ u[Len(u)] = q[2]
    BY <1>3, <1>4, <1>5 DEF IsConcat
<1>8. ASSUME NEW i \in DOMAIN u,
             \A j \in DOMAIN u : j > i => ~IsPosition(u[j], x)
      PROVE  u[i] = q[2]
    BY <1>4, <1>6, <1>7, <1>8
<1>9. QED
    BY <1>6, <1>7, <1>8 DEF PositionInv, u, s

LEMMA PositionConnected ==
    ASSUME HoldingsConfigured, TypeInv, PositionsInv, NEW s \in Sources, Connects(s)
    PROVE  PositionsInv'
<1>1. /\ s \notin linked /\ queue[s] = <<>>
      /\ linked' = linked \cup {s}
      /\ UNCHANGED <<coreVars, held>>
      /\ Sends(s, Download(s))
    BY DEF Connects
<1>2. /\ EventsOK(s, Download(s)) /\ AllTellHeld(s, Download(s))
      /\ \A x \in Holdings : Through(s, x) => Told(s, Download(s), x)
    BY DownloadFacts
<1>3. Appended(s, Download(s))
    BY <1>1, <1>2, SendsFacts DEF TypeInv
<1>4. \A S : \A q \in Seq(S) : <<>> \o q = q
    OBVIOUS
<1>5. queue'[s] = Download(s)
    BY <1>1, <1>2, <1>3, <1>4 DEF Appended, EventsOK, IsSequence
<1>6. ASSUME NEW x \in Holdings, TradeSource[x[1]] # s
      PROVE  PositionInv(x)'
    <2>1. queue'[TradeSource[x[1]]] = queue[TradeSource[x[1]]]
        BY <1>3, <1>6, HoldingPair DEF Appended
    <2>2. held'[x] = held[x] /\ PositionInv(x)
        BY <1>1 DEF PositionsInv
    <2>3. Has(x) => Has(x)'
        BY <1>1, <2>2, HasUnseen
    <2>4. TradeSource[x[1]] \in linked' => TradeSource[x[1]] \in linked
        BY <1>1, <1>6
    <2>5. QED
        BY <2>1, <2>2, <2>3, <2>4 DEF PositionInv
<1>7. ASSUME NEW x \in Holdings, TradeSource[x[1]] = s
      PROVE  PositionInv(x)'
    <2> DEFINE q == Download(s)
    <2> HIDE DEF q
    <2>1. ASSUME NEW i \in DOMAIN q, IsPosition(q[i], x)
          PROVE  q[i] = PositionOf(s, x[1], x[2], held[x])
        <3>1. PICK y \in Holdings : Through(s, y) /\ q[i] = PositionOf(s, y[1], y[2], held[y])
            BY <1>2, <2>1 DEF AllTellHeld, TellsHeld, IsPosition, q
        <3>2. IsPosition(q[i], y)
            BY <3>1, PositionFacts
        <3>3. x = y
            BY <2>1, <3>2, PositionDistinct
        <3>4. QED
            BY <3>1, <3>3
    <2>2. \E i \in DOMAIN q : IsPosition(q[i], x)
        <3>1. PICK i \in DOMAIN q : q[i] = PositionOf(s, x[1], x[2], held[x])
            BY <1>2, <1>7 DEF Told, Through, q
        <3>2. QED
            BY <1>7, <3>1, PositionFacts DEF Through
    <2>3. queue'[s] = q /\ held'[x] = held[x]
        BY <1>1, <1>5 DEF q
    <2>4. QED
        BY <1>7, <2>1, <2>2, <2>3 DEF PositionInv
<1>8. QED
    BY <1>6, <1>7 DEF PositionsInv

LEMMA PositionBroken ==
    ASSUME TypeInv, PositionsInv, NEW s \in Sources, Breaks(s)
    PROVE  PositionsInv'
<1>1. /\ linked' = linked \ {s}
      /\ UNCHANGED <<coreVars, held>>
      /\ queue' = [queue EXCEPT ![s] = <<Plain("Disconnected", s)>>]
    BY DEF Breaks
<1>2. \A r \in Sources : r # s => queue'[r] = queue[r]
    BY <1>1 DEF TypeInv, EventsInv
<1>3. ASSUME NEW x \in Holdings, TradeSource[x[1]] # s
      PROVE  PositionInv(x)'
    <2>1. queue'[TradeSource[x[1]]] = queue[TradeSource[x[1]]]
        BY <1>2, <1>3, HoldingPair
    <2>2. held'[x] = held[x] /\ PositionInv(x)
        BY <1>1 DEF PositionsInv
    <2>3. Has(x) => Has(x)'
        BY <1>1, <2>2, HasUnseen
    <2>4. TradeSource[x[1]] \in linked' => TradeSource[x[1]] \in linked
        BY <1>1
    <2>5. QED
        BY <2>1, <2>2, <2>3, <2>4 DEF PositionInv
<1>4. ASSUME NEW x \in Holdings, TradeSource[x[1]] = s
      PROVE  PositionInv(x)'
    BY <1>1, <1>4 DEF PositionInv
<1>5. QED
    BY <1>3, <1>4 DEF PositionsInv

(* Events without a position leave the invariant as it is.                 *)
LEMMA PositionsUntold ==
    ASSUME TypeInv, PositionsInv, UNCHANGED coreVars, NEW s \in Sources,
           NEW q, EventsOK(s, q), SendsIfLinked(s, q), UNCHANGED <<linked, held>>,
           \A i \in DOMAIN q : q[i].kind # "PositionUpdate"
    PROVE  PositionsInv'
<1>1. CASE s \in linked
    <2>1. Appended(s, q)
        BY <1>1, SendsFacts DEF TypeInv
    <2>2. ASSUME NEW x \in Holdings
          PROVE  PositionInv(x)'
        <3>1. PositionInv(x) /\ held'[x] = held[x]
            BY DEF PositionsInv
        <3>2. \A i \in DOMAIN q : ~IsPosition(q[i], x)
            BY DEF IsPosition
        <3>3. QED
            BY <2>1, <3>1, <3>2, PositionUntold
    <2>3. QED
        BY <2>2 DEF PositionsInv
<1>2. CASE s \notin linked
    <2>1. UNCHANGED queue
        BY <1>2 DEF SendsIfLinked
    <2>2. ASSUME NEW x \in Holdings
          PROVE  PositionInv(x)'
        <3>1. PositionInv(x) /\ held'[x] = held[x]
            BY DEF PositionsInv
        <3>2. Has(x) => Has(x)'
            BY <3>1, HasUnseen
        <3>3. QED
            BY <2>1, <3>1, <3>2 DEF PositionInv
    <2>3. QED
        BY <2>2 DEF PositionsInv
<1>3. QED
    BY <1>1, <1>2

LEMMA PositionFilled ==
    ASSUME HoldingsConfigured, TypeInv, PositionsInv, NEW x \in Holdings, NEW side,
           Fills(x[1], x[2], side)
    PROVE  PositionsInv'
<1> DEFINE s == TradeSource[x[1]]
           after == held[x[1], x[2]] + (IF side = "BUY" THEN 1 ELSE -1)
           q == <<[kind |-> "OrderUpdate", source |-> s, account |-> x[1].account,
                   key |-> x[2], strategy_id |-> x[1].strategy, side |-> side,
                   quantity |-> 1], PositionOf(s, x[1], x[2], after)>>
<1>1. /\ SendsIfLinked(s, q)
      /\ held' = [held EXCEPT ![<<x[1], x[2]>>] = after]
      /\ UNCHANGED <<coreVars, linked>>
    BY DEF Fills
<1>2. /\ s \in Sources
      /\ EventsOK(s, q)
      /\ DOMAIN q = {1, 2}
      /\ q[1].kind = "OrderUpdate"
      /\ q[2] = PositionOf(s, x[1], x[2], after)
    BY FillEvents
<1> HIDE DEF after, q
<1>3. held'[x] = after /\ \A y \in Holdings : y # x => held'[y] = held[y]
    BY <1>1, HoldingPair DEF TypeInv, EventsInv
<1>4. CASE s \in linked
    <2>1. Appended(s, q)
        BY <1>1, <1>2, <1>4, SendsFacts DEF TypeInv
    <2>2. PositionInv(x)'
        BY <1>2, <1>3, <2>1, PositionTold
    <2>3. ASSUME NEW y \in Holdings, y # x
          PROVE  PositionInv(y)'
        <3>1. IsPosition(q[2], x)
            BY <1>2, PositionFacts DEF Through
        <3>2. \A i \in DOMAIN q : ~IsPosition(q[i], y)
            BY <1>2, <2>3, <3>1, PositionDistinct DEF IsPosition
        <3>3. PositionInv(y) /\ held'[y] = held[y]
            BY <1>3, <2>3 DEF PositionsInv
        <3>4. QED
            BY <1>1, <1>2, <2>1, <3>2, <3>3, PositionUntold
    <2>4. QED
        BY <2>2, <2>3 DEF PositionsInv
<1>5. CASE s \notin linked
    <2>1. UNCHANGED queue
        BY <1>1, <1>5 DEF SendsIfLinked
    <2>2. ASSUME NEW y \in Holdings
          PROVE  PositionInv(y)'
        <3>1. CASE y = x
            BY <1>1, <1>5, <3>1 DEF PositionInv
        <3>2. CASE y # x
            <4>1. PositionInv(y) /\ held'[y] = held[y]
                BY <1>3, <3>2 DEF PositionsInv
            <4>2. Has(y) => Has(y)'
                BY <1>1, <4>1, HasUnseen
            <4>3. QED
                BY <1>1, <2>1, <4>1, <4>2 DEF PositionInv
        <3>3. QED
            BY <3>1, <3>2
    <2>3. QED
        BY <2>2 DEF PositionsInv
<1>6. QED
    BY <1>4, <1>5

LEMMA PositionsOutside ==
    ASSUME HoldingsConfigured, TypeInv, PositionsInv, Outside
    PROVE  PositionsInv'
<1>1. UNCHANGED coreVars
    BY OutsideFacts
<1>2. ASSUME NEW k \in Keys, NEW layer, Moves(k, layer)
      PROVE  PositionsInv'
    <2> DEFINE s == DataSource[k]
               q == <<DataOf(s, k, layer)>>
    <2>1. SendsIfLinked(s, q) /\ UNCHANGED <<linked, held>>
        BY <1>2 DEF Moves
    <2>2. /\ s \in Sources /\ EventsOK(s, q)
          /\ DOMAIN q = {1} /\ IsData(q[1])
        BY DataEvents
    <2> HIDE DEF q, s
    <2>3. \A i \in DOMAIN q : q[i].kind # "PositionUpdate"
        BY <2>2 DEF IsData
    <2>4. QED
        BY <1>1, <2>1, <2>2, <2>3, PositionsUntold
<1>3. ASSUME NEW k \in Keys, Repeats(k)
      PROVE  PositionsInv'
    <2> DEFINE s == DataSource[k]
               q == <<DataOf(s, k, top[k])>>
    <2>1. SendsIfLinked(s, q) /\ UNCHANGED <<linked, held>>
        BY <1>3 DEF Repeats, SendsIfLinked
    <2>2. /\ s \in Sources /\ EventsOK(s, q)
          /\ DOMAIN q = {1} /\ IsData(q[1])
        BY DataEvents
    <2> HIDE DEF q, s
    <2>3. \A i \in DOMAIN q : q[i].kind # "PositionUpdate"
        BY <2>2 DEF IsData
    <2>4. QED
        BY <1>1, <2>1, <2>2, <2>3, PositionsUntold
<1>4. ASSUME NEW s \in Sources, NEW update \in Updates, Changes(s, update)
      PROVE  PositionsInv'
    <2> DEFINE q == <<[kind |-> "ParametersUpdate", source |-> s, update |-> update]>>
    <2>1. SendsIfLinked(s, q) /\ UNCHANGED <<linked, held>>
        BY <1>4 DEF Changes, SendsIfLinked
    <2>2. EventsOK(s, q) /\ DOMAIN q = {1} /\ q[1].kind = "ParametersUpdate"
        BY UpdateEvents
    <2> HIDE DEF q
    <2>3. \A i \in DOMAIN q : q[i].kind # "PositionUpdate"
        BY <2>2
    <2>4. QED
        BY <1>1, <2>1, <2>2, <2>3, PositionsUntold
<1>5. QED
    BY <1>2, <1>3, <1>4, PositionFilled, PositionConnected, PositionBroken DEF Outside

LEMMA PositionsStep ==
    ASSUME HoldingsConfigured, TypeInv, KnownInv, PositionsInv, [Next]_vars
    PROVE  PositionsInv'
<1>1. ASSUME linked' = {}
      PROVE  PositionsInv'
    BY <1>1 DEF PositionsInv, PositionInv
<1>2. ASSUME PositionsStay, UNCHANGED envVars
      PROVE  PositionsInv'
    <2>1. UNCHANGED <<queue, linked, held>>
        BY <1>2 DEF envVars
    <2>2. \A x \in Holdings : Has(x) => Has(x)'
        BY <1>2, <2>1, HasKept
    <2>3. QED
        BY <2>1, <2>2 DEF PositionsInv, PositionInv
<1>3. CASE UNCHANGED vars
    <2>1. UNCHANGED coreVars /\ UNCHANGED envVars
        BY <1>3 DEF vars
    <2>2. PositionsStay
        BY <2>1, GrowsFacts, PortfoliosSame DEF coreVars, PositionsStay, TypeInv, CoreOK
    <2>3. QED
        BY <1>2, <2>1, <2>2
<1>4. CASE Configures /\ UNCHANGED envVars
    BY <1>1, <1>4 DEF TypeInv, Configures, envVars
<1>5. CASE DispatchesParameters /\ UNCHANGED envVars
    BY <1>1, <1>5 DEF TypeInv, DispatchesParameters, envVars
<1>6. CASE Timer /\ UNCHANGED envVars
    BY <1>2, <1>6, TimerStep, KeptStays DEF TypeInv
<1>7. CASE Crashes
    BY <1>1, <1>7, CrashStep
<1>8. CASE Outside
    BY <1>8, PositionsOutside
<1>9. ASSUME NEW s \in Sources, Receives(s)
      PROVE  PositionsInv'
    <2>1. /\ Taken(s) /\ IsTail(queue[s], queue'[s])
          /\ EventOK(s, Head(queue[s])) /\ Handles(Head(queue[s]))
        BY <1>9, ReceivesFacts, ReceivesHandles DEF TypeInv
    <2>2. QED
        BY <2>1, TakenPositions
<1>10. QED
    BY <1>3, <1>4, <1>5, <1>6, <1>7, <1>8, <1>9, NextCases

LEMMA PositionsAgree ==
    ASSUME HoldingsConfigured, PositionsInv
    PROVE  ExposureAgrees
<1>1. ASSUME NEW x \in Holdings, Informed(x[1])
      PROVE  LET t == x[1]
                 market == get_market_ident(markets, x[2])
             IN  /\ get_position(portfolios, t.strategy, t.account, market) = Holds(t, x[2])
                 /\ strategies[t.strategy].legs[<<t.account, market>>].position
                        = Holds(t, x[2])
    <2> DEFINE q == queue[TradeSource[x[1]]]
    <2>1. TradeSource[x[1]] \in linked /\ \A i \in DOMAIN q : IsData(q[i])
        BY <1>1 DEF Informed
    <2>2. \A i \in DOMAIN q : ~IsPosition(q[i], x)
        BY <2>1 DEF IsPosition, IsData
    <2>3. Has(x)
        BY <2>1, <2>2 DEF PositionsInv, PositionInv
    <2>4. get_market_ident(markets, x[2]) = markets.ident[x[2]]
        BY <2>3 DEF Has, get_market_ident, Get
    <2>5. x[1].strategy # NoPortfolio
        BY DEF HoldingsConfigured, AccountAgreed, PortfolioOf
    <2>6. QED
        BY <2>3, <2>4, <2>5 DEF Has, get_position, Get
<1>2. QED
    BY <1>1, Zenon DEF ExposureAgrees

(* Once the gateway of an account has no more to tell, portfolio and pricer*)
(* hold the positions the account has, after any number of fills, lost     *)
(* connections and restarts (portfolio/manager.cpp:82, lqs/pricer.cpp:60). *)
THEOREM PositionsArrive ==
    ASSUME HoldingsConfigured
    PROVE  Spec => []ExposureAgrees
<1>1. Init => KnownInv /\ PositionsInv
    BY DEF Init, CoreInit, KnownInv, PositionsInv, PositionInv
<1>2. TypeInv /\ KnownInv /\ [Next]_vars => KnownInv'
    BY KnownStep
<1>3. TypeInv /\ KnownInv /\ PositionsInv /\ [Next]_vars => PositionsInv'
    BY PositionsStep
<1>4. PositionsInv => ExposureAgrees
    BY PositionsAgree
<1>5. QED
    BY <1>1, <1>2, <1>3, <1>4, TypeInvariant, PTL DEF Spec
-----------------------------------------------------------------------------
(* Terms: what the parameters set, and that nothing else changes them.     *)
TermsKept(ss, ts) ==
    \A s \in DOMAIN ss :
        /\ s \in DOMAIN ts
        /\ \A l \in DOMAIN ss[s].legs :
             l \in DOMAIN ts[s].legs /\ ts[s].legs[l].terms = ss[s].legs[l].terms

LEMMA QuoteLegsTerms ==
    ASSUME NEW ms, NEW ss, StrategiesOK(ss, ms), NEW market, NEW quotes
    PROVE  TermsKept(ss, QuoteLegs(ss, market, quotes))
<1> DEFINE ts == QuoteLegs(ss, market, quotes)
<1>1. /\ DOMAIN ts = DOMAIN ss
      /\ \A s \in DOMAIN ss :
           ts[s] = [ss[s] EXCEPT !.legs = [l \in DOMAIN @ |->
                      IF l[2] = market THEN [@[l] EXCEPT !.quotes = quotes] ELSE @[l]]]
    BY DEF QuoteLegs
<1> HIDE DEF ts
<1>2. ASSUME NEW s \in DOMAIN ss
      PROVE  /\ DOMAIN ts[s].legs = DOMAIN ss[s].legs
             /\ \A l \in DOMAIN ss[s].legs :
                  ts[s].legs[l] = IF l[2] = market
                                  THEN [ss[s].legs[l] EXCEPT !.quotes = quotes]
                                  ELSE ss[s].legs[l]
    BY <1>1 DEF StrategiesOK, StrategyOK
<1>3. ASSUME NEW s \in DOMAIN ss, NEW l \in DOMAIN ss[s].legs
      PROVE  ts[s].legs[l].terms = ss[s].legs[l].terms
    <2>1. DOMAIN ss[s].legs[l] = LegFields
        BY DEF StrategiesOK, StrategyOK
    <2>2. QED
        BY <1>2, <2>1 DEF LegFields
<1>4. QED
    BY <1>1, <1>2, <1>3 DEF TermsKept, ts

LEMMA EmplaceLegTerms ==
    ASSUME NEW ms, NEW st, StrategyOK(st, ms), NEW leg
    PROVE  LET tt == EmplaceLeg(st, leg)
           IN  /\ leg \in DOMAIN tt.legs
               /\ \A l \in DOMAIN st.legs : l \in DOMAIN tt.legs /\ tt.legs[l] = st.legs[l]
               /\ DOMAIN tt.legs = DOMAIN st.legs \cup {leg}
               /\ DOMAIN tt = DOMAIN st
               /\ \A l \in DOMAIN tt.legs : DOMAIN tt.legs[l] = LegFields
<1> DEFINE tt == EmplaceLeg(st, leg)
<1>1. /\ DOMAIN tt = DOMAIN st
      /\ tt.legs = TryEmplace(st.legs, leg, NewLeg)
    BY DEF EmplaceLeg, StrategyOK
<1> HIDE DEF tt
<1>2. /\ DOMAIN tt.legs = DOMAIN st.legs \cup {leg}
      /\ \A l \in DOMAIN st.legs : tt.legs[l] = st.legs[l]
      /\ leg \notin DOMAIN st.legs => tt.legs[leg] = NewLeg
    BY <1>1 DEF TryEmplace, Put, Get
<1>3. DOMAIN NewLeg = LegFields
    BY DEF NewLeg, LegFields
<1>4. \A l \in DOMAIN tt.legs : DOMAIN tt.legs[l] = LegFields
    BY <1>2, <1>3 DEF StrategyOK
<1>5. QED
    BY <1>1, <1>2, <1>4 DEF tt

LEMMA TakeExposureTerms ==
    ASSUME NEW ms, NEW ss, StrategiesOK(ss, ms), NEW strategy, NEW account, NEW market,
           NEW exposure
    PROVE  TermsKept(ss, TakeExposure(ss, strategy, account, market, exposure))
<1> DEFINE ts == TakeExposure(ss, strategy, account, market, exposure)
           leg == <<account, market>>
<1>1. CASE strategy \notin DOMAIN ss
    BY <1>1 DEF TakeExposure, TermsKept
<1>2. CASE strategy \in DOMAIN ss
    <2> DEFINE st == ss[strategy]
               tt == EmplaceLeg(st, leg)
               uu == ts[strategy]
    <2>1. ts = [ss EXCEPT ![strategy] = [tt EXCEPT !.legs[leg].position = exposure]]
        BY <1>2 DEF TakeExposure
    <2>2. /\ leg \in DOMAIN tt.legs
          /\ \A l \in DOMAIN st.legs : l \in DOMAIN tt.legs /\ tt.legs[l] = st.legs[l]
          /\ DOMAIN tt = {"enabled", "legs"}
          /\ \A l \in DOMAIN tt.legs : DOMAIN tt.legs[l] = LegFields
        <3>1. StrategyOK(st, ms)
            BY <1>2 DEF StrategiesOK
        <3>2. DOMAIN st = {"enabled", "legs"}
            BY <3>1 DEF StrategyOK
        <3> HIDE DEF st, leg
        <3>3. QED
            BY <3>1, <3>2, EmplaceLegTerms
    <2> HIDE DEF ts, tt
    <2>3. /\ DOMAIN ts = DOMAIN ss
          /\ uu = [tt EXCEPT !.legs[leg].position = exposure]
          /\ \A s \in DOMAIN ss : s # strategy => ts[s] = ss[s]
        BY <1>2, <2>1
    <2> HIDE DEF uu, leg, st
    <2>4. /\ DOMAIN uu.legs = DOMAIN tt.legs
          /\ uu.legs[leg] = [tt.legs[leg] EXCEPT !.position = exposure]
          /\ \A l \in DOMAIN tt.legs : l # leg => uu.legs[l] = tt.legs[l]
        BY <2>2, <2>3
    <2>5. uu.legs[leg].terms = tt.legs[leg].terms
        BY <2>2, <2>4 DEF LegFields
    <2>6. \A l \in DOMAIN st.legs :
             l \in DOMAIN uu.legs /\ uu.legs[l].terms = st.legs[l].terms
        BY <2>2, <2>4, <2>5
    <2>7. QED
        BY <2>3, <2>6 DEF TermsKept, ts, uu, st
<1>3. QED
    BY <1>1, <1>2

LEMMA HandlesTerms ==
    ASSUME CoreOK, NEW e, Handles(e), e.kind # "ParametersUpdate"
    PROVE  TermsKept(strategies, strategies')
<1>1. CASE UNCHANGED strategies
    BY <1>1 DEF TermsKept
<1>2. CASE ~UNCHANGED strategies
    <2>1. \/ \E market, quotes : strategies' = QuoteLegs(strategies, market, quotes)
          \/ \E strategy, account, market, exposure :
               strategies' = TakeExposure(strategies, strategy, account, market, exposure)
        BY <1>2 DEF Handles, GatewaySettings, ReferenceData, GatewayChanges, DownloadEnd,
                    GatewayStatus, MarketData, PositionUpdate, OrderUpdate
    <2>2. QED
        BY <2>1, QuoteLegsTerms, TakeExposureTerms DEF CoreOK
<1>3. QED
    BY <1>1, <1>2

(* One parameter: the term it is about has its value, in the leg it names  *)
(* or in all of them, and every other term is as it was.                   *)
LEMMA StrategyParameterTerms ==
    ASSUME NEW ms, NEW st, StrategyOK(st, ms), NEW p, NEW label,
           EmplacesLeg(p, label) => Key(p) \in DOMAIN ms.ident
    PROVE  LET tt == StrategyParameter(st, ms, p, label)
               leg == <<p.account, ms.ident[Key(p)]>>
               sets == label # <<"enabled">> /\ ~Underlies(label)
           IN  /\ sets /\ Named(p) =>
                    /\ leg \in DOMAIN tt.legs
                    /\ label \in DOMAIN tt.legs[leg].terms
                    /\ tt.legs[leg].terms[label] = p.value
               /\ \A l \in DOMAIN st.legs :
                    /\ l \in DOMAIN tt.legs
                    /\ \A w \in DOMAIN st.legs[l].terms :
                         /\ w \in DOMAIN tt.legs[l].terms
                         /\ \/ tt.legs[l].terms[w] = st.legs[l].terms[w]
                            \/ /\ sets /\ w = label /\ tt.legs[l].terms[w] = p.value
                               /\ Named(p) => l = leg
<1> DEFINE tt == StrategyParameter(st, ms, p, label)
           leg == <<p.account, get_market_ident(ms, Key(p))>>
           sets == label # <<"enabled">> /\ ~Underlies(label)
           emplaced == IF EmplacesLeg(p, label) THEN EmplaceLeg(st, leg) ELSE st
           told == IF Named(p) THEN {leg} ELSE DOMAIN st.legs
<1>1. sets /\ Named(p) => leg = <<p.account, ms.ident[Key(p)]>>
    BY DEF get_market_ident, Get, EmplacesLeg
<1>2. tt = IF label = <<"enabled">> THEN [st EXCEPT !.enabled = p.value = <<"true">>]
           ELSE IF Underlies(label) THEN emplaced
           ELSE [emplaced EXCEPT !.legs = [l \in DOMAIN @ |->
                    IF l \in told THEN SetTerm(@[l], label, p.value) ELSE @[l]]]
    BY DEF StrategyParameter
<1>3. /\ \A l \in DOMAIN st.legs : l \in DOMAIN emplaced.legs /\ emplaced.legs[l] = st.legs[l]
      /\ sets /\ Named(p) => leg \in DOMAIN emplaced.legs
      /\ DOMAIN emplaced = {"enabled", "legs"}
      /\ \A l \in DOMAIN emplaced.legs : DOMAIN emplaced.legs[l] = LegFields
    <2>1. CASE EmplacesLeg(p, label)
        <3>1. emplaced = EmplaceLeg(st, leg)
            BY <2>1
        <3>2. DOMAIN st = {"enabled", "legs"}
            BY DEF StrategyOK
        <3> HIDE DEF emplaced, leg
        <3>3. QED
            BY <3>1, <3>2, EmplaceLegTerms
    <2>2. CASE ~EmplacesLeg(p, label)
        BY <2>2 DEF EmplacesLeg, StrategyOK
    <2>3. QED
        BY <2>1, <2>2
<1> HIDE DEF tt, leg, emplaced
<1>4. CASE label = <<"enabled">>
    <2>1. tt.legs = st.legs
        BY <1>2, <1>4 DEF StrategyOK
    <2>2. QED
        BY <1>4, <2>1 DEF tt
<1>5. CASE label # <<"enabled">> /\ Underlies(label)
    <2>1. tt = emplaced
        BY <1>2, <1>5
    <2>2. QED
        BY <1>3, <1>5, <2>1 DEF tt
<1>6. CASE sets
    <2>1. tt.legs = [l \in DOMAIN emplaced.legs |->
                IF l \in told THEN SetTerm(emplaced.legs[l], label, p.value)
                ELSE emplaced.legs[l]]
        <3>1. tt = [emplaced EXCEPT !.legs = [l \in DOMAIN @ |->
                      IF l \in told THEN SetTerm(@[l], label, p.value) ELSE @[l]]]
            BY <1>2, <1>6
        <3>2. QED
            BY <1>3, <3>1
    <2>2. ASSUME NEW x, DOMAIN x = LegFields
          PROVE  LET y == SetTerm(x, label, p.value)
                 IN  /\ label \in DOMAIN y.terms
                     /\ y.terms[label] = p.value
                     /\ \A w \in DOMAIN x.terms :
                          /\ w \in DOMAIN y.terms
                          /\ w # label => y.terms[w] = x.terms[w]
        <3>1. SetTerm(x, label, p.value).terms = Put(x.terms, label, p.value)
            BY <2>2 DEF SetTerm, LegFields
        <3>2. QED
            BY <3>1 DEF Put
    <2> HIDE DEF told
    <2>3. ASSUME NEW l \in DOMAIN emplaced.legs, l \in told
          PROVE  /\ label \in DOMAIN tt.legs[l].terms
                 /\ tt.legs[l].terms[label] = p.value
                 /\ \A w \in DOMAIN emplaced.legs[l].terms :
                      /\ w \in DOMAIN tt.legs[l].terms
                      /\ w # label => tt.legs[l].terms[w] = emplaced.legs[l].terms[w]
        <3>1. tt.legs[l] = SetTerm(emplaced.legs[l], label, p.value)
            BY <2>1, <2>3
        <3>2. DOMAIN emplaced.legs[l] = LegFields
            BY <1>3
        <3>3. QED
            BY <2>2, <3>1, <3>2
    <2>4. \A l \in DOMAIN emplaced.legs :
             l \in DOMAIN tt.legs /\ (l \notin told => tt.legs[l] = emplaced.legs[l])
        BY <2>1
    <2>5. Named(p) =>
             /\ leg \in DOMAIN tt.legs
             /\ label \in DOMAIN tt.legs[leg].terms
             /\ tt.legs[leg].terms[label] = p.value
        <3>1. Named(p) => leg \in told
            BY DEF told
        <3>2. QED
            BY <1>3, <1>6, <2>3, <2>4, <3>1
    <2>6. ASSUME NEW l \in DOMAIN st.legs, NEW w \in DOMAIN st.legs[l].terms
          PROVE  /\ l \in DOMAIN tt.legs
                 /\ w \in DOMAIN tt.legs[l].terms
                 /\ \/ tt.legs[l].terms[w] = st.legs[l].terms[w]
                    \/ /\ w = label /\ tt.legs[l].terms[w] = p.value
                       /\ Named(p) => l = leg
        <3>1. l \in DOMAIN emplaced.legs /\ emplaced.legs[l] = st.legs[l]
            BY <1>3
        <3>2. Named(p) /\ l \in told => l = leg
            BY DEF told
        <3>3. CASE l \in told
            BY <2>3, <2>4, <3>1, <3>2, <3>3
        <3>4. CASE l \notin told
            BY <2>4, <3>1, <3>4
        <3>5. QED
            BY <3>3, <3>4
    <2>7. \A l \in DOMAIN st.legs : l \in DOMAIN tt.legs
        BY <1>3, <2>4
    <2>8. QED
        BY <1>1, <1>6, <2>5, <2>6, <2>7 DEF tt
<1>7. QED
    BY <1>4, <1>5, <1>6

(* The leg that a parameter names has the value of the parameter.          *)
TermIs(ms, ss, p) ==
    LET id == p.strategy_id
        leg == <<p.account, ms.ident[Key(p)]>>
        label == Rest(p.label)
    IN  /\ Key(p) \in DOMAIN ms.ident
        /\ id \in DOMAIN ss
        /\ leg \in DOMAIN ss[id].legs
        /\ label \in DOMAIN ss[id].legs[leg].terms
        /\ ss[id].legs[leg].terms[label] = p.value

LEMMA TermStays ==
    ASSUME NEW ms, NEW ns, Grows(ms, ns), NEW ss, NEW ts, TermsKept(ss, ts),
           NEW p, TermIs(ms, ss, p)
    PROVE  TermIs(ns, ts, p)
<1>1. Key(p) \in DOMAIN ns.ident /\ ns.ident[Key(p)] = ms.ident[Key(p)]
    BY DEF TermIs, Grows
<1>2. QED
    BY <1>1 DEF TermIs, TermsKept

(* The parameters one after the other; c is as for PricerGood, and the     *)
(* place of the parameter whose term is followed.                          *)
Followed(c) == c[4][c[5]]
Apart(c) ==
    /\ c[5] \in DOMAIN c[4] /\ TellsTerm(Followed(c))
    /\ \A n \in DOMAIN c[4] :
         c[5] < n /\ Overwrites(c[4][n], Followed(c)) => c[4][n].value = Followed(c).value

TermGood(c, i, acc) ==
    /\ PricerGood(c, i, acc)
    /\ c[5] <= i => TermIs(acc.markets, acc.strategies, Followed(c))

TermFold == INSTANCE FoldLemmas WITH Op <- PricerStep, Good <- TermGood

LEMMA IdentApart ==
    ASSUME NEW ms, MarketsOK(ms), NEW k \in DOMAIN ms.ident, NEW l \in DOMAIN ms.ident,
           ms.ident[k] = ms.ident[l]
    PROVE  k = l
BY DEF MarketsOK

(* What a parameter does to the terms of a strategy.                       *)
ParameterSets(st, tt, ms, p, label) ==
    LET leg == <<p.account, ms.ident[Key(p)]>>
        sets == label # <<"enabled">> /\ ~Underlies(label)
    IN  /\ sets /\ Named(p) =>
             /\ leg \in DOMAIN tt.legs
             /\ label \in DOMAIN tt.legs[leg].terms
             /\ tt.legs[leg].terms[label] = p.value
        /\ \A l \in DOMAIN st.legs :
             /\ l \in DOMAIN tt.legs
             /\ \A w \in DOMAIN st.legs[l].terms :
                  /\ w \in DOMAIN tt.legs[l].terms
                  /\ \/ tt.legs[l].terms[w] = st.legs[l].terms[w]
                     \/ /\ sets /\ w = label /\ tt.legs[l].terms[w] = p.value
                        /\ Named(p) => l = leg

LEMMA ParameterSetsTerms ==
    ASSUME NEW ms, NEW st, StrategyOK(st, ms), NEW p, NEW label,
           EmplacesLeg(p, label) => Key(p) \in DOMAIN ms.ident
    PROVE  ParameterSets(st, StrategyParameter(st, ms, p, label), ms, p, label)
BY StrategyParameterTerms DEF ParameterSets

LEMMA TermStepFacts ==
    ASSUME NEW c, NEW i \in Nat \ {0}, i \in DOMAIN c[4], NEW acc, TermGood(c, i - 1, acc),
           MarketsOK(c[1]), Apart(c), c[5] \in Nat
    PROVE  TermGood(c, i, PricerStep(c, acc, c[4][i]))
<1> DEFINE p == c[4][i]
           t == Followed(c)
           label == Rest(p.label)
           ms == ParameterMarkets(acc.markets, p, label)
           known == IF p.strategy_id = 0 THEN acc.strategies
                    ELSE TryEmplace(acc.strategies, p.strategy_id, NewStrategy)
           told == IF p.strategy_id = 0 THEN DOMAIN known ELSE {p.strategy_id}
           next == PricerStep(c, acc, p)
           Given(s) == StrategyParameter(known[s], ms, p, label)
<1>1. PricerGood(c, i - 1, acc) /\ PricerGood(c, i, next)
    BY PricerStepFacts DEF TermGood
<1>2. CASE Prefix(p.label) # "lqs"
    <2>1. next = acc
        BY <1>2 DEF PricerStep, PricerParameter
    <2>2. c[5] # i
        BY <1>2 DEF Apart, TellsTerm, IsTerm, Followed
    <2>3. c[5] <= i => c[5] <= i - 1
        BY <2>2
    <2> HIDE DEF next
    <2>4. QED
        BY <1>1, <2>1, <2>3 DEF TermGood, next
<1>3. CASE Prefix(p.label) = "lqs"
    <2>1. /\ next.markets = IF told = {} THEN acc.markets ELSE ms
          /\ next.strategies = [s \in DOMAIN known |-> IF s \in told THEN Given(s) ELSE known[s]]
        BY <1>3 DEF PricerStep, PricerParameter
    <2>2. /\ MarketsOK(ms)
          /\ Grows(acc.markets, ms)
          /\ EmplacesLeg(p, label) => Key(p) \in DOMAIN ms.ident
        BY <1>1, ParameterMarketsFacts DEF PricerGood
    <2>3. /\ \A s \in DOMAIN acc.strategies : s \in DOMAIN known /\ known[s] = acc.strategies[s]
          /\ \A s \in DOMAIN known : s \in DOMAIN acc.strategies \/ known[s] = NewStrategy
          /\ p.strategy_id # 0 => p.strategy_id \in DOMAIN known
        BY DEF TryEmplace, Put, Get
    <2>4. StrategyOK(NewStrategy, ms)
        BY DEF StrategyOK, NewStrategy
    <2>5. StrategiesOK(acc.strategies, ms)
        BY <1>1, <2>2, StrategiesGrow DEF PricerGood
    <2>6. \A s \in DOMAIN known : StrategyOK(known[s], ms)
        BY <2>3, <2>4, <2>5 DEF StrategiesOK
    <2> DEFINE leg == <<p.account, ms.ident[Key(p)]>>
               sets == label # <<"enabled">> /\ ~Underlies(label)
    <2>7. ASSUME NEW s \in DOMAIN known
          PROVE  /\ sets /\ Named(p) =>
                      /\ leg \in DOMAIN Given(s).legs
                      /\ label \in DOMAIN Given(s).legs[leg].terms
                      /\ Given(s).legs[leg].terms[label] = p.value
                 /\ \A l \in DOMAIN known[s].legs :
                      /\ l \in DOMAIN Given(s).legs
                      /\ \A w \in DOMAIN known[s].legs[l].terms :
                           /\ w \in DOMAIN Given(s).legs[l].terms
                           /\ \/ Given(s).legs[l].terms[w] = known[s].legs[l].terms[w]
                              \/ /\ sets /\ w = label
                                 /\ Given(s).legs[l].terms[w] = p.value
                                 /\ Named(p) => l = leg
        <3>1. ParameterSets(known[s], Given(s), ms, p, label)
            BY <2>2, <2>6, ParameterSetsTerms
        <3> HIDE DEF Given, known, ms
        <3>2. QED
            BY <3>1 DEF ParameterSets
    <2>8. sets /\ Named(p) => EmplacesLeg(p, label)
        BY DEF EmplacesLeg
    <2> HIDE DEF next, known, ms, Given
    <2>9. /\ DOMAIN next.strategies = DOMAIN known
          /\ \A s \in DOMAIN known :
               next.strategies[s] = IF s \in told THEN Given(s) ELSE known[s]
        BY <2>1
    <2>10. CASE c[5] = i
        <3>1. sets /\ Named(p) /\ p.strategy_id # 0 /\ t = p
            BY <2>10 DEF Apart, TellsTerm, IsTerm, Followed
        <3>2. /\ p.strategy_id \in DOMAIN known /\ told = {p.strategy_id}
              /\ next.markets = ms
              /\ next.strategies[p.strategy_id] = Given(p.strategy_id)
            BY <2>1, <2>3, <2>9, <3>1
        <3>3. Key(p) \in DOMAIN ms.ident
            BY <2>2, <2>8, <3>1
        <3>4. TermIs(next.markets, next.strategies, p)
            BY <2>7, <2>9, <3>1, <3>2, <3>3 DEF TermIs
        <3>5. QED
            BY <1>1, <3>1, <3>4 DEF TermGood, next
    <2>11. CASE c[5] < i
        <3> DEFINE s == t.strategy_id
                   mine == <<t.account, acc.markets.ident[Key(t)]>>
                   w == Rest(t.label)
        <3>1. TermIs(acc.markets, acc.strategies, t)
            BY <2>11 DEF TermGood
        <3>2. /\ Key(t) \in DOMAIN ms.ident
              /\ ms.ident[Key(t)] = acc.markets.ident[Key(t)]
              /\ s \in DOMAIN known /\ known[s] = acc.strategies[s]
              /\ mine \in DOMAIN known[s].legs
              /\ w \in DOMAIN known[s].legs[mine].terms
              /\ known[s].legs[mine].terms[w] = t.value
            BY <2>2, <2>3, <3>1 DEF TermIs, Grows
        <3>3. /\ Key(t) \in DOMAIN next.markets.ident
              /\ next.markets.ident[Key(t)] = acc.markets.ident[Key(t)]
            BY <2>1, <3>1, <3>2 DEF TermIs
        <3>4. CASE s \notin told
            <4>1. next.strategies[s] = known[s]
                BY <2>9, <3>2, <3>4
            <4>2. TermIs(next.markets, next.strategies, t)
                BY <2>9, <3>2, <3>3, <4>1 DEF TermIs
            <4>3. QED
                BY <1>1, <4>2 DEF TermGood, next
        <3>5. CASE s \in told
            <4>1. next.strategies[s] = Given(s)
                BY <2>9, <3>2, <3>5
            <4>2. /\ mine \in DOMAIN Given(s).legs
                  /\ w \in DOMAIN Given(s).legs[mine].terms
                  /\ \/ Given(s).legs[mine].terms[w] = t.value
                     \/ /\ sets /\ w = label
                        /\ Given(s).legs[mine].terms[w] = p.value
                        /\ Named(p) => mine = leg
                BY <2>7, <3>2
            <4>3. ASSUME /\ sets /\ w = label
                         /\ Given(s).legs[mine].terms[w] = p.value
                         /\ Named(p) => mine = leg
                  PROVE  Given(s).legs[mine].terms[w] = t.value
                <5>1. p.strategy_id \in {0, s}
                    BY <3>5
                <5>2. ASSUME Named(p)
                      PROVE  p.account = t.account /\ Key(p) = Key(t)
                    <6>1. p.account = t.account /\ ms.ident[Key(p)] = ms.ident[Key(t)]
                        BY <3>2, <4>3, <5>2
                    <6>2. Key(p) \in DOMAIN ms.ident
                        BY <2>2, <2>8, <4>3, <5>2
                    <6>3. Key(p) = Key(t)
                        BY <2>2, <3>2, <6>1, <6>2, IdentApart
                    <6>4. QED
                        BY <6>1, <6>3
                <5>3. Overwrites(p, t)
                    BY <1>3, <4>3, <5>1, <5>2 DEF Overwrites
                <5>4. p.value = t.value
                    BY <2>11, <5>3 DEF Apart
                <5>5. QED
                    BY <4>3, <5>4
            <4>4. Given(s).legs[mine].terms[w] = t.value
                BY <4>2, <4>3
            <4>5. TermIs(next.markets, next.strategies, t)
                BY <2>9, <3>2, <3>3, <4>1, <4>2, <4>4 DEF TermIs
            <4>6. QED
                BY <1>1, <4>5 DEF TermGood, next
        <3>6. QED
            BY <3>4, <3>5
    <2>12. CASE c[5] > i
        BY <1>1, <2>12 DEF TermGood, next
    <2>13. QED
        BY <2>10, <2>11, <2>12
<1>4. QED
    BY <1>2, <1>3

LEMMA TermFolded ==
    ASSUME NEW ms, MarketsOK(ms), NEW ss, StrategiesOK(ss, ms), NEW holds,
           NEW update, IsSequence(update), NEW m \in DOMAIN update,
           Apart(<<ms, ss, holds, update, m>>)
    PROVE  LET pricer == PricerFolded(ms, ss, holds, update)
           IN  TermIs(pricer.markets, pricer.strategies, update[m])
<1> DEFINE n == Len(update)
           c == <<ms, ss, holds, update, m>>
           base == [markets |-> ms, strategies |-> ss, holds |-> holds]
<1>1. n \in Nat /\ DOMAIN update = 1..n /\ m \in Nat \ {0} /\ m <= n
    BY SequenceDomain
<1> HIDE DEF n
<1>2. TermGood(c, 0, base)
    BY <1>1, GrowsFacts, KeptFacts DEF PricerGood, TermGood
<1>3. /\ c[4] = update /\ c[5] = m
      /\ MarketsOK(c[1]) /\ Apart(c)
    OBVIOUS
<1> HIDE DEF c, base
<1>4. \A i \in 1..n : \A acc :
        TermGood(c, i - 1, acc) => TermGood(c, i, PricerStep(c, acc, update[i]))
    BY <1>1, <1>3, TermStepFacts
<1>5. TermGood(c, n, TermFold!Folded(c, base, update))
    BY <1>1, <1>2, <1>4, TermFold!FoldKeeps, SetInduction
<1>6. PricerFolded(ms, ss, holds, update) = TermFold!Folded(c, base, update)
    BY DEF PricerFolded, base, PricerStep, TermFold!Folded, TermFold!Max,
           FoldLeft, MapThenFoldSet, Max
<1>7. QED
    BY <1>1, <1>3, <1>5, <1>6 DEF TermGood, Followed

LEMMA DispatchTerms ==
    ASSUME CoreOK, ParametersApart, DispatchesParameters
    PROVE  \A n \in DOMAIN Loaded :
               TellsTerm(Loaded[n]) => TermIs(markets', strategies', Loaded[n])
<1> DEFINE oms == OmsFolded(Loaded)
           asserts == oms.holds /\ \A i \in DOMAIN Loaded : PortfolioAsserts(Loaded[i])
           pricer == PricerFolded(oms.markets, strategies, asserts, Loaded)
<1>1. markets' = pricer.markets /\ strategies' = pricer.strategies
    BY DEF DispatchesParameters, ParametersHandled, OmsFolded, PricerFolded
<1>2. IsSequence(Loaded)
    BY LoadedFacts
<1>3. OmsGood(<<markets, Loaded, books>>, Len(Loaded), oms)
    BY <1>2, OmsFoldedFacts DEF CoreOK
<1> HIDE DEF oms
<1>4. MarketsOK(oms.markets) /\ Grows(markets, oms.markets)
    BY <1>3 DEF OmsGood
<1>5. StrategiesOK(strategies, oms.markets)
    BY <1>4, StrategiesGrow DEF CoreOK
<1> HIDE DEF asserts
<1>6. ASSUME NEW m \in DOMAIN Loaded, TellsTerm(Loaded[m])
      PROVE  TermIs(pricer.markets, pricer.strategies, Loaded[m])
    <2>1. Apart(<<oms.markets, strategies, asserts, Loaded, m>>)
        BY <1>6 DEF Apart, Followed, ParametersApart
    <2>2. QED
        BY <1>2, <1>4, <1>5, <2>1, TermFolded
<1>7. QED
    BY <1>1, <1>6

(* As long as no parameter has been changed, none is on its way, and the   *)
(* legs have the values of the file.                                       *)
NoUpdates(q) == \A i \in DOMAIN q : q[i].kind # "ParametersUpdate"
NoneSent == used.changes = 0 => \A s \in Sources : NoUpdates(queue[s])
TermsTold ==
    \A n \in DOMAIN Loaded : TellsTerm(Loaded[n]) => TermIs(markets, strategies, Loaded[n])
UsedOK == used \in [DOMAIN Budget -> Nat]

DeliveredInv ==
    /\ UsedOK /\ NoneSent
    /\ phase = "running" /\ used.changes = 0 => TermsTold

LEMMA SpendFacts ==
    ASSUME UsedOK, NEW what \in DOMAIN Budget, Spend(what)
    PROVE  /\ UsedOK'
           /\ used'.changes = 0 => used.changes = 0 /\ what # "changes"
<1>1. DOMAIN Budget = {"fills", "moves", "drops", "changes"}
    BY DEF Budget
<1> DEFINE D == DOMAIN Budget
<1>2. what \in D /\ used \in [D -> Nat] /\ used' = [used EXCEPT ![what] = @ + 1]
    BY DEF UsedOK, Spend
<1>3. D = {"fills", "moves", "drops", "changes"}
    BY <1>1
<1> HIDE DEF D
<1>4. used' \in [D -> Nat]
    BY <1>2, <1>3
<1>5. used'["changes"] = IF what = "changes" THEN used["changes"] + 1 ELSE used["changes"]
    BY <1>2, <1>3
<1>6. used["changes"] \in Nat
    BY <1>2, <1>3
<1>7. used'["changes"] = 0 => used["changes"] = 0 /\ what # "changes"
    BY <1>5, <1>6
<1>8. QED
    BY <1>4, <1>7 DEF UsedOK, D

LEMMA NoUpdatesAppended ==
    ASSUME EventsInv, \A r \in Sources : NoUpdates(queue[r]), NEW s \in Sources,
           NEW q, IsSequence(q), NoUpdates(q), Appended(s, q)
    PROVE  \A r \in Sources : NoUpdates(queue'[r])
<1> DEFINE u == queue[s]
           w == queue'[s]
<1>1. IsSequence(u) /\ w = u \o q
    BY DEF EventsInv, EventsOK, Appended
<1> HIDE DEF u, w
<1>2. IsConcat(u, q, w)
    BY <1>1, ConcatFacts
<1>3. NoUpdates(u)
    BY DEF u
<1>4. NoUpdates(w)
    BY <1>2, <1>3 DEF IsConcat, NoUpdates
<1>5. QED
    BY <1>4 DEF w, Appended

LEMMA DeliveredOutside ==
    ASSUME EventsInv, DeliveredInv, Outside
    PROVE  DeliveredInv'
<1>1. UNCHANGED <<phase, markets, strategies>>
    BY OutsideFacts DEF coreVars
<1>2. ASSUME UsedOK',
             used'.changes = 0 =>
                 used.changes = 0 /\ \A r \in Sources : NoUpdates(queue'[r])
      PROVE  DeliveredInv'
    BY <1>1, <1>2 DEF DeliveredInv, NoneSent, TermsTold
<1>3. ASSUME NEW s \in Sources, NEW q, EventsOK(s, q), NoUpdates(q),
             \/ Appended(s, q) \/ UNCHANGED queue,
             UsedOK', used'.changes = 0 => used.changes = 0
      PROVE  DeliveredInv'
    <2>1. IsSequence(q)
        BY <1>3 DEF EventsOK
    <2>2. ASSUME used.changes = 0
          PROVE  \A r \in Sources : NoUpdates(queue'[r])
        BY <1>3, <2>1, <2>2, NoUpdatesAppended DEF DeliveredInv, NoneSent
    <2>3. QED
        BY <1>2, <1>3, <2>2
<1>4. /\ {"fills", "moves", "drops", "changes"} = DOMAIN Budget
      /\ UsedOK /\ (used' = used => UsedOK')
    BY DEF DeliveredInv, UsedOK, Budget
<1>5. ASSUME NEW x \in Holdings, NEW side, Fills(x[1], x[2], side)
      PROVE  DeliveredInv'
    <2> DEFINE s == TradeSource[x[1]]
               after == held[x[1], x[2]] + (IF side = "BUY" THEN 1 ELSE -1)
               q == <<[kind |-> "OrderUpdate", source |-> s, account |-> x[1].account,
                       key |-> x[2], strategy_id |-> x[1].strategy, side |-> side,
                       quantity |-> 1], PositionOf(s, x[1], x[2], after)>>
    <2>1. SendsIfLinked(s, q) /\ Spend("fills")
        BY <1>5 DEF Fills
    <2>2. /\ s \in Sources /\ EventsOK(s, q) /\ DOMAIN q = {1, 2}
          /\ q[1].kind = "OrderUpdate"
          /\ q[2] = PositionOf(s, x[1], x[2], after)
        BY FillEvents
    <2> HIDE DEF q, s, after
    <2>3. NoUpdates(q)
        BY <2>2 DEF NoUpdates, PositionOf
    <2>4. Appended(s, q) \/ UNCHANGED queue
        BY <2>1, <2>2, SendsFacts
    <2>5. QED
        BY <1>3, <1>4, <2>1, <2>2, <2>3, <2>4, SpendFacts
<1>6. ASSUME NEW k \in Keys, NEW layer, Moves(k, layer)
      PROVE  DeliveredInv'
    <2> DEFINE s == DataSource[k]
               q == <<DataOf(s, k, layer)>>
    <2>1. SendsIfLinked(s, q) /\ Spend("moves")
        BY <1>6 DEF Moves
    <2>2. s \in Sources /\ EventsOK(s, q) /\ DOMAIN q = {1} /\ IsData(q[1])
        BY DataEvents
    <2> HIDE DEF q, s
    <2>3. NoUpdates(q)
        BY <2>2 DEF NoUpdates, IsData
    <2>4. Appended(s, q) \/ UNCHANGED queue
        BY <2>1, <2>2, SendsFacts
    <2>5. QED
        BY <1>3, <1>4, <2>1, <2>2, <2>3, <2>4, SpendFacts
<1>7. ASSUME NEW k \in Keys, Repeats(k)
      PROVE  DeliveredInv'
    <2> DEFINE s == DataSource[k]
               q == <<DataOf(s, k, top[k])>>
    <2>1. Sends(s, q) /\ used' = used
        BY <1>7 DEF Repeats
    <2>2. s \in Sources /\ EventsOK(s, q) /\ DOMAIN q = {1} /\ IsData(q[1])
        BY DataEvents
    <2> HIDE DEF q, s
    <2>3. NoUpdates(q)
        BY <2>2 DEF NoUpdates, IsData
    <2>4. Appended(s, q)
        BY <2>1, <2>2, SendsFacts
    <2>5. QED
        BY <1>3, <1>4, <2>1, <2>2, <2>3, <2>4
<1>8. ASSUME NEW s \in Sources, Connects(s)
      PROVE  DeliveredInv'
    <2>1. Sends(s, Download(s)) /\ used' = used
        BY <1>8 DEF Connects
    <2>2. EventsOK(s, Download(s)) /\ AllTellHeld(s, Download(s))
        BY DownloadFacts
    <2>3. NoUpdates(Download(s))
        BY <2>2 DEF NoUpdates, AllTellHeld, TellsHeld
    <2>4. Appended(s, Download(s))
        BY <2>1, <2>2, SendsFacts
    <2>5. QED
        BY <1>3, <1>4, <2>1, <2>2, <2>3, <2>4
<1>9. ASSUME NEW s \in Sources, Breaks(s)
      PROVE  DeliveredInv'
    <2> DEFINE e == Plain("Disconnected", s)
               q == <<e>>
    <2>1. Spend("drops") /\ queue' = [queue EXCEPT ![s] = q]
        BY <1>9 DEF Breaks
    <2>2. e.kind = "Disconnected" /\ DOMAIN q = {1} /\ q[1] = e
        BY BreakEvents
    <2> HIDE DEF q, e
    <2>3. NoUpdates(q)
        BY <2>2 DEF NoUpdates
    <2>4. \A r \in Sources : queue'[r] = IF r = s THEN q ELSE queue[r]
        BY <2>1 DEF EventsInv
    <2>5. UsedOK' /\ (used'.changes = 0 => used.changes = 0)
        BY <1>4, <2>1, SpendFacts
    <2>6. QED
        BY <1>2, <2>3, <2>4, <2>5 DEF DeliveredInv, NoneSent
<1>10. ASSUME NEW s \in Sources, NEW update \in Updates, Changes(s, update)
      PROVE  DeliveredInv'
    <2>1. UsedOK' /\ used'.changes # 0
        BY <1>4, <1>10, SpendFacts DEF Changes
    <2>2. QED
        BY <1>2, <2>1
<1>11. QED
    BY <1>5, <1>6, <1>7, <1>8, <1>9, <1>10 DEF Outside

LEMMA DeliveredStep ==
    ASSUME ParametersApart, TypeInv, DeliveredInv, [Next]_vars
    PROVE  DeliveredInv'
<1>1. ASSUME UNCHANGED <<phase, markets, strategies>>, UNCHANGED envVars
      PROVE  DeliveredInv'
    BY <1>1 DEF DeliveredInv, UsedOK, NoneSent, TermsTold, envVars
<1>2. ASSUME Grows(markets, markets'), TermsKept(strategies, strategies'), phase = "running",
             used' = used, NoneSent'
      PROVE  DeliveredInv'
    <2>1. TermsTold => TermsTold'
        BY <1>2, TermStays DEF TermsTold
    <2>2. QED
        BY <1>2, <2>1 DEF DeliveredInv, UsedOK
<1>3. CASE UNCHANGED vars
    BY <1>1, <1>3 DEF vars, coreVars
<1>4. CASE Configures /\ UNCHANGED envVars
    BY <1>4, ConfiguresStep DEF DeliveredInv, UsedOK, NoneSent, envVars
<1>5. CASE DispatchesParameters /\ UNCHANGED envVars
    <2>1. TermsTold'
        BY <1>5, DispatchTerms DEF TermsTold, TypeInv
    <2>2. QED
        BY <1>5, <2>1 DEF DeliveredInv, UsedOK, NoneSent, envVars
<1>6. CASE Timer /\ UNCHANGED envVars
    BY <1>1, <1>6 DEF Timer
<1>7. CASE Crashes
    <2>1. phase' = "new" /\ \A s \in Sources : queue'[s] = <<>>
        BY <1>7, CrashStep
    <2>2. UsedOK'
        BY <1>7, SpendFacts DEF Crashes, DeliveredInv, Budget
    <2>3. QED
        BY <2>1, <2>2, EmptyLen DEF DeliveredInv, NoneSent, NoUpdates
<1>8. CASE Outside
    BY <1>8, DeliveredOutside DEF TypeInv
<1>9. ASSUME NEW s \in Sources, Receives(s)
      PROVE  DeliveredInv'
    <2> DEFINE e == Head(queue[s])
    <2>1. /\ Taken(s) /\ IsTail(queue[s], queue'[s])
          /\ EventOK(s, e) /\ Handles(e)
          /\ used' = used
        BY <1>9, ReceivesFacts, ReceivesHandles DEF TypeInv, Receives, Takes
    <2>2. NoneSent'
        <3>1. SUFFICES ASSUME used.changes = 0, NEW r \in Sources
                       PROVE  NoUpdates(queue'[r])
            BY <2>1 DEF NoneSent
        <3>2. NoUpdates(queue[r])
            BY <3>1 DEF DeliveredInv, NoneSent
        <3>3. CASE r = s
            BY <2>1, <3>2, <3>3 DEF NoUpdates, IsTail
        <3>4. CASE r # s
            BY <2>1, <3>2, <3>4 DEF Taken
        <3>5. QED
            BY <3>3, <3>4
    <2>3. UsedOK'
        BY <2>1 DEF DeliveredInv, UsedOK
    <2>4. CASE used.changes = 0
        <3>1. e.kind # "ParametersUpdate"
            BY <2>1, <2>4 DEF DeliveredInv, NoneSent, NoUpdates, IsTail
        <3> HIDE DEF e
        <3>2. TermsKept(strategies, strategies') /\ Grows(markets, markets')
            BY <2>1, <3>1, HandlesTerms, HandlesStep DEF TypeInv
        <3>3. phase = "running"
            BY <2>1, <1>9 DEF Handles, GatewaySettings, ReferenceData, GatewayChanges,
                  DownloadEnd, GatewayStatus, MarketData, PositionUpdate, OrderUpdate,
                  ParametersUpdate
        <3>4. QED
            BY <1>2, <2>1, <2>2, <3>2, <3>3
    <2>5. CASE used.changes # 0
        BY <2>1, <2>2, <2>3, <2>5 DEF DeliveredInv
    <2>6. QED
        BY <2>4, <2>5
<1>10. QED
    BY <1>3, <1>4, <1>5, <1>6, <1>7, <1>8, <1>9, NextCases

LEMMA DeliveredLegs ==
    ASSUME ParametersApart, DeliveredInv
    PROVE  ConfigDelivered
<1>1. SUFFICES ASSUME phase = "running", used.changes = 0,
                      NEW i \in DOMAIN File.parameter,
                      Prefix(File.parameter[i].label) = "lqs",
                      Rest(File.parameter[i].label) \notin {<<"enabled">>, <<"underlying">>},
                      NEW account \in ToSet(File.parameter[i].account.values),
                      NEW j \in DOMAIN File.parameter[i].symbol.values
               PROVE  LET node == File.parameter[i]
                          count == Len(node.value.values)
                          key == <<node.exchange, node.symbol.values[j]>>
                          leg == <<account, get_market_ident(markets, key)>>
                      IN  strategies[Number[node.strategy]].legs[leg].terms[Rest(node.label)] =
                              node.value.values[IF j < count THEN j ELSE count]
    BY Zenon DEF ConfigDelivered
<1> DEFINE node == File.parameter[i]
           p == FileParameter(node, account, j)
<1>2. /\ IsTerm(node.label)
      /\ node.exchange # "" /\ "" \notin ToSet(node.symbol.values)
      /\ Number[node.strategy] # 0
      /\ node.value.values # <<>>
    <2>1. node.symbol.values # <<>>
        BY <1>1, EmptyLen
    <2>2. QED
        BY <1>1, <2>1 DEF ParametersApart
<1>3. InList(Loaded, p)
    <2>1. NodeIn(Loaded, node)
        BY LoadedFacts DEF ParametersApart
    <2>2. QED
        BY <1>1, <1>2, <2>1 DEF NodeIn, HasAll
<1>4. /\ p.label = node.label /\ p.exchange = node.exchange /\ p.account = account
      /\ p.strategy_id = Number[node.strategy] /\ p.symbol = node.symbol.values[j]
      /\ p.value = node.value.values[IF j < Len(node.value.values) THEN j
                                     ELSE Len(node.value.values)]
    BY DEF FileParameter
<1>5. p.symbol # ""
    BY <1>1, <1>2, <1>4 DEF ToSet
<1> HIDE DEF p
<1>6. TellsTerm(p)
    BY <1>2, <1>4, <1>5 DEF TellsTerm, Named
<1>7. TermIs(markets, strategies, p)
    BY <1>1, <1>3, <1>6 DEF InList, DeliveredInv, TermsTold
<1>8. /\ Key(p) = <<node.exchange, node.symbol.values[j]>>
      /\ get_market_ident(markets, Key(p)) = markets.ident[Key(p)]
    BY <1>4, <1>7 DEF Key, TermIs, get_market_ident, Get
<1>9. QED
    BY <1>4, <1>7, <1>8 DEF TermIs

(* As long as no parameter has been changed, every account and symbol of a *)
(* table has the value that stands for it in the file, however the gateways*)
(* come and go: its own, or the last one when there are fewer values than  *)
(* symbols (config/toml_file.hpp:208).                                     *)
THEOREM ParametersDelivered ==
    ASSUME ParametersApart
    PROVE  Spec => []ConfigDelivered
<1>1. Init => DeliveredInv
    BY EmptyLen DEF Init, CoreInit, DeliveredInv, UsedOK, NoneSent, NoUpdates, Budget
<1>2. TypeInv /\ DeliveredInv /\ [Next]_vars => DeliveredInv'
    BY DeliveredStep
<1>3. DeliveredInv => ConfigDelivered
    BY DeliveredLegs
<1>4. QED
    BY <1>1, <1>2, <1>3, TypeInvariant, PTL DEF Spec
=============================================================================
