# Models of roq-apps

TLA+ models, model-checking runs and machine-checked proofs for the trading
applications in `src/`: an order manager (OMS), the caches around it and the
quoting strategies that drive it. The program is one thread. Events of the
gateways (market data, order updates, acknowledgements, positions, downloads,
status, timer) are handled to their end, one after another. What is hard is not
shared memory but *what is true when an event arrives*: requests are answered
later, refusals and updates race, connections break, processes restart, and the
manager acts on what it believes rests at the exchange.

## 1. Inventory

| Component (source under `src/src/roq`) | State | Operations | Talks to | Correct when |
|---|---|---|---|---|
| **Order manager** `core/oms` | per book: orders (pending / confirmed / expected version), levels (target and expected quantity), ban, pending counters, two positions; the index `market_by_order_`; `max_order_id` | target quotes, order update, order ack, timer, gateway status, download begin/end, position update, rate limit trigger, parameters; `process()` after most of them | is given quotes by the pricer, sends create/modify/cancel to the gateway, hands trades to portfolios | the exchange ends up with what was asked for; never more than the target is created; book = exchange once all is handled; ids and versions are never reused; no request during download, ban or unavailability |
| **Gateway cache** `core/gateway` | per gateway and account: available, downloading; numbers by name | `is_ready`, `is_downloading`, `get_source`, cached events | read by all | answers follow the last events; a name leads to the number of its connection |
| **Market cache** `core/market` | ids by exchange and symbol, tick size, gateway of market data | reference data, gateway settings, `emplace_market`, configure | all | one id per market, kept for ever |
| **Best quotes** `core/best_quotes`, `core/best_quotes.cpp` | best bid/ask per market | top of book, market by price | pricer | last data of the chosen source, once the gateway is ready |
| **Portfolios** `core/portfolio` | portfolios by number, name and account; positions per account and market | trades, position updates, parameters, configure | gives exposures to the pricer | the position an account has, from the configured source |
| **Core strategy** `core/strategy.cpp`, `core/manager.cpp` | none of its own | start; dispatches each event: config, caches, portfolios, OMS, pricer; quotes, exposures, trades and targets between them | all | whatever the order of the gateways' events, positions and quotes arrive and no assert fails |
| **LQS** `lqs` | legs (position, quotes, terms, underlying), underlyings (delta, limits, legs) | parameters, reference data, quotes, exposures, compute, dispatch | reads quotes and exposures, sends target quotes to OMS | positions go to zero and never through it; the delta stays within its thresholds; switched off means no trading |
| **Configuration** `core/config` | TOML parameters, markets, accounts | load, dispatch, updates | all | every leg gets the value the file gives it |
| **DAG** `dag` | graph of computing nodes | build paths, recompute | pricer | nodes after what they read; circles are refused |
| **Spreader** `spreader` | spreads, legs, hedges | quotes | pricer | does not compile with the rest |

Hard behaviours, all of them listed with their lines under `hazards` in
`PROJECT.json`: the adjusting loop of `process()` that starts over; partial
fills and amendments that cross; refusals that race the final update; restart
and reconnection in the middle of anything; bans that several handlers assign;
two indices of the same orders; asserts that are active in the default build;
in LQS, room granted to several legs at once and quotes that are not withdrawn;
in the core, identifiers that five parts hand out and keep, market data dropped
while a gateway is not ready, and parameters that come before what they are for.

## 2. Modules

| Module | What it is |
|---|---|
| `Oms` | The order manager for one book. One action per handler; `process()` is the steps *begin, count, adjust, place* of `phase`, in the order of the code, so that every choice of the hash map's iteration order is explored. No recursion: it is proved about. |
| `OmsExchange` | `Oms` with the gateway and the exchange: FIFO requests, two independent channels back (updates, refusals), fills, cancellations nobody asked for, lost connections, crashes, downloads. |
| `OmsProperties` | Invariants, action properties, fairness and liveness of that composition. |
| `OrderRequests` | An abstract specification of a client's requests: ids ascend, versions ascend, requests arrive in order or are lost together. `OmsExchange` is shown to implement it. |
| `OmsClaims` | What a comment says and the code does not do. |
| `OmsOpen` | `Oms` under any gateway: events of a small set, in any order, any number of times. |
| `OmsLemmas` | What every step of `Oms` keeps, whatever the gateway does: the lemmas that the proofs about `OmsOpen` and about `OmsExchange` share. |
| `OmsProof` | Theorems about `OmsOpen`, from these lemmas. |
| `OmsExchangeProof` | Theorems about `OmsExchange`: types, the refinement of `OrderRequests`, asserts; then that book and exchange agree (`QuietAgreement`), that positions do (`PositionAgrees`) and that new orders fit into their levels (`CreatesFit`). |
| `Lqs` | The liquidation strategy: one action per handler of the pricer; the walks over parameters, legs and the legs of an underlying are steps, as in the code's loops. |
| `LqsTrading` | `Lqs` with a gateway, markets that move, and the order manager and exchange reduced to targets, what rests of them, fills and their reports. Properties and fairness. |
| `DataLemmas` | A set of naturals has a least element, induction over naturals, what `MapThenSumSet` of a finite set is, and that sums over more and of more are no less: lemmas that the proofs of the components share. |
| `LqsProof` | Theorems about `LqsTrading` and their proofs. |
| `Tables` | The hash maps and prefixed names that the core's parts share. |
| `Gateways`, `Markets`, `Portfolios`, `Config` | `gateway::Manager`, `market::Manager`, `portfolio::Manager` with `Portfolio`, `config::Manager` with `TomlFile`: one module each, state and operations. |
| `Books` | The books of `oms::Manager`: how they are found, emplaced and routed to a gateway. |
| `CoreStrategy` | `core::Strategy`: start and one action per event, each going through all the parts in the order of the code. Composes the five modules above. |
| `CoreEvents` | `CoreStrategy` between gateways: a queue per connection, downloads, fills, moving markets, changed parameters, lost connections, restarts. |
| `CoreProperties` | Invariants, action properties, liveness and a claim about that composition, and what the theorems assume of the configuration file. |
| `FoldLemmas` | What `FoldLeft` keeps, for any operator that is folded. |
| `CoreProof` | Theorems about `CoreEvents`, one for each invariant and action property of the core. |
| `EvaluationOrder` | Abstract: what `dag::Graph::build_path` promises. |
| `Graph` | `build_path`, one step per edge followed; shown to implement `EvaluationOrder`. |
| `GraphProof` | Theorems about `Graph` and their proofs. |
| `MCOms`, `MCOmsOpen`, `MCLqs`, `MCCore`, `MCGraph` | Values of the constants for the runs. |

How `Oms` corresponds to the code (`core/oms/manager.cpp`):

* `orders[id]` is `book.orders`; `pending`, `confirmed`, `expected` of an order
  are its `OrderVersion`s with the fields some code reads. `IsPending` is
  `is_pending()`. `rejected` is `rejects_count # 0`, the only use of it.
* `expected`, `pending`, `uncounted`, `holes` are the level sums, the counters
  and the loops of `process()`. The code leaves the sums between two calls; they
  are cleared at the end of the call here, since the next call clears them
  before it reads them. The same holds for the erasure of empty levels.
* Prices are tick indices and quantities are lots: the order manager only
  compares, adds and subtracts them. A NaN price is `NoPrice`.
* Time is relative. `ban` is `ban_until - now`; the timer moves `now`.
* `Handler("begin")` ends a handler that calls `process()`, `Handler("idle")`
  one that does not, early returns included.
* A failed assert is the phase `"abort"`; asserts are on in the default build.
* One book. Books share `max_order_id` only; the routing of an update to its
  book by strategy, account and market is `known` here and `FindsBook` in `Books`.
* `info.min_trade_vol` is never set by any code: comparing with NaN is false,
  so `can_create` does not look at it.

How `Lqs` corresponds to the code (`lqs/`):

* `legs[l]` and `underlyings[u]` are the structs `Leg` and `Underlying` with the
  fields some code reads; a leg is a pair of market and account. `target_position`
  and `delta_greek` are never set or read by other code. The position is bought
  minus sold, the only use of the two.
* `Compute(l, ..)`, `SumLeg` and `QuoteLeg` are `strategy.compute`,
  `underlying.compute` and `leg.compute` with `pricer.dispatch`. Legs take an
  event one after another in any order (`todo`), and each computes its siblings,
  which may not have taken it yet.
* `quoted[l]` is what the order manager was sent last. The code checks the
  spread in basis points; here it is in ticks. An infinite limit is `Infinity`;
  a delta that is NaN is `NoDelta`, and leaves no room, as `max` gives 0.
* One strategy. Parameters without a strategy id reach every strategy there is;
  they are the parameters of this one. An `underlying:` label other than the two
  limits does nothing but emplace the underlying, and is left out.
* In `LqsTrading` the order manager is `Oms` as the strategy sees it: `Refilled`
  is `process()` bringing orders to the targets (promised by `Converges`), and
  the ban after a fill is a guard. `Lqs` over the whole of `Oms` is planned.

How the core corresponds to the code (`core/`):

* One action of `CoreStrategy` is one event handled to its end. A part that
  reads what an earlier part has just changed reads the primed variable, or the
  value handed on (`ms`, `acc`): markets are emplaced by several parts during one
  event, so `Markets` takes the manager as a value.
* `markets.by_id` and `markets.ident` are `market_by_id_` and
  `market_by_symbol_by_exchange_`; `configure()` clears both and goes on counting.
* A [[parameter]] table is a record; a node of the file is missing, a scalar or
  an array, since `get_pairs` tells them apart. Strings that are numbers are the
  domain of `Number`; everything else makes `parse_uint32` throw.
* The parameters of the file are dispatched by the constructor (`Configures`,
  then `DispatchesParameters`), before any event; `portfolios.set_handler` comes
  after, and nothing makes an exposure before. The second dispatch in
  `DownloadEnd` is compiled only with `ROQ_NO_TOML_SQL`, which nothing defines.
* `strategies` is what the pricer is told: position, quotes and terms of each
  leg. Its answer to an event is any set of legs that have quotes
  (`TargetQuotes`), and a leg without a book is then given one.
* `TopOfBook` overwrites the bid's volume with the ask's (`FromTop`), as in
  `strategy.cpp:53`. `MarketByPriceUpdate` reaches the library's cache twice,
  which makes no difference to a book of prices.
* A throw or a failed assert is the phase `"failed"`.

How `Graph` corresponds to `dag/graph.hpp`: `todo` is the hash set, from which
any node may be taken; `range` is the iterator's rest of `equal_range`; the
buckets `path[dist]` are `ByDistance`. `edges` is a multimap, so that edges have
names here. `reverse` is the copying constructor, which turns dependencies into
edges (the moving constructor takes edges as they are).

The gateway, the exchange and the library's cache of a gateway are not in the
repository. They are modelled from the events the handlers take and the
requests they send, and marked external in `PROJECT.json`.

## 3. Runs

Every bound is a constant of the cfg; exchange events are counted in `used`.

| Run | Bounds | Shows |
|---|---|---|
| `oms_safety` | 1 side, 2 prices, all quotes of up to 2 lots, 3 ids, 3 versions; 1 whole fill, 1 refusal, 1 cancellation (which may hide a fill), 1 lost link / crash / status change, 2 changes of quotes or parameters; bans on; a fill or cancellation may be told within a download | `CreatesFit`: an order is created only for what is missing at the exchange. `RequestsInOrder`: refinement of `OrderRequests`. `NeverAborts`: no assert fails. |
| `oms_ladder` | as above with 2 ids, 2 fills in parts, no bans; the download tells the new position too | `QuietAgreement`: the book is what works at the exchange once all is handled. `PositionAgrees`: so is the position. |
| `oms_sides` | both sides, 3 prices, 4 ids, 1 fill, refusal, cancellation, lost link; downloads as in `oms_ladder` | the same and `CreatesFit` on two sides at once |
| `oms_live` | 1 lot, with and without `ban_modify` and bans, 4 ids, 4 versions | `Converges`: what was asked for rests in the end |
| `oms_live_ladder` | 2 lots on 2 levels, 1 fill in parts, 1 refusal | `Converges` although levels are counted twice |
| `oms_open` | 2 ids, 2 versions, updates of every status for either id, all acks, `EraseOnNotReady` | `IndexAgrees`, `ExpectedIsRequestOrReport`, `CreatesOnSettledSide`, `RequestsOnlyWhenAllowed` whatever the gateway sends |
| `lqs` | 2 accounts with one future, 1 spot market, positions of up to 2 lots, 2 reports under way, 2 changes among switching off and on, other modes, wider limits, a second registration, a market that loses a side | `QuotesNeverAbort`, `TargetsReducePosition`, `PassiveQuotesRest`, `SendsWithinDelta`, `Liquidates` |
| `core` | 2 gateways, 2 markets (one by top of book, one by price), 3 accounts of which 2 share a portfolio, 3 positions, the parameters of the sample file in small, one of them with fewer values than symbols; 1 fill, 1 move, 1 changed parameter, 2 lost connections or crashes, 2 of these together (`MaxTogether`) | `IdsStable`, `BooksReachable`, `BooksResolve`, `ConfigDelivered`, `NeverFails`, `ExposureAgrees`, `QuotesOnlyOnceDownloaded`, `QuotesArrive` |
| `graph` | all graphs of up to 4 edges on 4 nodes, from one node | `Settled`, `DependenciesFirst`, `ImplementsOrder`, `Terminates`; deadlock is not checked, because the function returns |
| `claim_*` | `claim_one_in_flight` as `oms_ladder`, `claim_increases` as `lqs`, `claim_orders` as `core`, all smaller | three sentences of the repository the code breaks (section 5) |

Why these bounds: the interesting steps of `process()` need two levels of a side
(one with an excess, one with a hole) and at most two orders there; a race needs
one request under way and one event; ids and versions must survive one restart,
which takes one id before it and one after. Each run allows one of each kind of
trouble, in every combination and order with the others. In `core` the number of
interleavings of two downloads with anything else bounds it to two troubles in one
behaviour; two are needed for a restart or a lost connection during the download
that follows another one, or after a fill. Four edges give a circle, a diamond,
two ways of different length and a double edge on the way to it.

What the runs assume of the surroundings, beyond the code:

* `BookAtStart`: the parameters arrive before the first download, as they do
  when the gateway stores them. Without a book the download's orders are not
  taken; nothing in the code enforces the order (hazard at line 751).
* `PartialFills = FALSE` in `oms_safety`: with partial fills `CreatesFit` fails,
  as a consequence of the defect that `claim_one_in_flight` shows.
* `Conflates = FALSE` where `PositionAgrees` is an invariant; a fill told by the
  update that tells the cancellation is left out (section 5).
* `DownloadTells`: a gateway puts its whole download on the way at once. What
  happens to an order before it has arrived is either told after `DownloadEnd`, or
  just before it, that is after the snapshot of orders and position
  (`TellsWithinDownload`). In `oms_safety` and `oms_live_ladder` it is told alone
  (`"reports"`), in `oms_ladder` and `oms_sides` with the new position behind it
  (`"positions"`), in `oms_live` never. `PositionAgrees` fails with `"reports"`
  (section 5). Updates between the other parts of a download are not modelled.
* `BanOutlastsReports = TRUE` in `lqs`: `Liquidates` needs a ban after fills
  (`oms:post_fill_timeout`) that lasts until the account's position is reported.
  Without it the order manager refills a quote the strategy has not yet been told
  is filled, and the position swings. Positions are reported after the
  parameters (hazard at `lqs/pricer.cpp:60`), quotes after the download of the
  gateway, which brings every tick size (`core.is_ready`).
* `TradingAssumption`, for the runs and proofs of `Lqs`: a parameter has a value of
  its label's kind (`Parameter`), so that no execution mode parses to `UNDEFINED`,
  and the two sides of a market do not cross. With a crossed market the price of
  one side passes the other's, and a quote that joins does not rest.
* `Masks` offer modification with creation and cancellation: otherwise an assert
  of `create_order` fails (section 5).
* In `core`, a gateway announces its status within its download and before the
  reference data, and the download of an account brings every position it has,
  also those that have become zero: nothing in the code clears a portfolio. The
  file is complete and each account has a trade gateway. `Spot`'s data come from
  the other gateway than the one its account trades through, `F`'s from the same:
  a book of `Spot` that target quotes emplace is not routed as one that an `oms:`
  parameter emplaces (section 5), and both find the gateway they name.

### Fairness

`FairSpec` asks for weak fairness of the steps of `process()` (a handler that
runs ends) and strong fairness of the delivery of events, of the gateway's
answers, of reconnection, of the loading of the configuration and of the timer
that is due (`Ticks(TRUE)`: the event loop calls it every few milliseconds and
it processes once a second). Strong, because a handler that runs disables the
others for a moment. Nothing forces fills, refusals, cancellations, lost
connections, crashes or new quotes: they are bounded, so that in the end the
quotes stay. `Converges` is stated for behaviours that do not run out of ids or
versions (`OutOfBounds`).

`CoreEvents!FairSpec`: the process starts, each connection's events are delivered
in order, a lost connection is made again, and a gateway that is linked sends data
of its markets again and again. It is stated of the variable that such a step
changes (`WF_queue(Delivered(s))`), because a step is always enabled when the head
of its queue is there, and deciding ENABLED of a whole handler would try every set
of target quotes. Data are strongly fair: they wait for those on their way. The
timer comes again and again (`WF_books(Ticks)`: the order manager processes once a
second, `oms/manager.cpp:630`), which is all that resolves a book nothing else touches:
`BooksResolve` needs it.
`Graph!Spec` is weakly fair, a loop that runs.

`LqsTrading!FairSpec`: a handler ends; the gateway sends what it has; quotes of
every market come again and again; and for each leg the next of report, refill
and fill happens. Changes of markets and parameters are bounded and not forced.
`Liquidates` is stated for behaviours in which trading is on in the end: a
strategy switched off or a market that stays one-sided owes nothing.

## 4. Proofs

`OmsProof` proves about `OmsOpen!Spec`, for all sets of prices, quotes,
parameters, updates and all bounds:

| Theorem | Property |
|---|---|
| `TypeCorrect` | `[]TypeOK` |
| `IndexCorrect` | `[]IndexAgrees` |
| `ExpectedCorrect` | `[]ExpectedIsRequestOrReport` |
| `RequestsCorrect` | `RequestsOnlyWhenAllowed` |
| `CreatesCorrect` | `CreatesOnSettledSide` |

The argument. `TypeOK` is not inductive: that a level sum stays a natural
number needs every order that is counted to have a price (`PricedOrders`: its
expected price is set unless it is over, and so is its confirmed price once it
was confirmed), and that the loop visits orders that exist (`Counted`). `TypeInv`
is the three together. `HolesInv` says that holes are what the targets exceed
the sums by, only while creating. `RequestsCorrect` needs `Allowed`: from the
first step after the early returns to the last, no event is handled, so what
they tested still holds. `CreatesCorrect` needs `CountInv`: while counting, the
counter of a side is at least one as soon as a counted order of it has a request
under way, and when the loop has ended every order is counted; a restart of the
loop clears the counters and visits everything again, which is why the property
survives the defect of the sums. The assumptions are those named `...Assumption`
in the modules and the two conjuncts of `Answers`: a refusal of an amendment
answers one that was sent, and a creation is never too late.

`OmsExchangeProof` proves about `OmsExchange!XSpec`, for all sides, prices, quotes, parameters and masks, and for
any number of ids, versions, fills, refusals, cancellations, lost connections,
crashes and changes:

| Theorem | Property | Hypotheses |
|---|---|---|
| `TypesAgree` | `[]XTypeOK` | `~EraseOnNotReady` |
| `RequestsImplemented` | `RequestsInOrder`, the refinement of `OrderRequests` | `~EraseOnNotReady` |
| `AssertsNeverFail` | `[]NeverAborts` | `~EraseOnNotReady`, `ModifyOffered` |
| `BookAgrees` | `[]QuietAgreement` | `~EraseOnNotReady`, `BookAtStart` |
| `PositionHolds` | `[]PositionAgrees` | `~EraseOnNotReady`, `BookAtStart`, `~Conflates`, `DownloadTells = "nothing"` |
| `CreatesWithinTarget` | `CreatesFit` | `~EraseOnNotReady`, `BookAtStart`, `~PartialFills` |

The hypotheses are what the runs assume too, and each stands at a hazard of the
code: the flag `erase_all_orders_on_gateway_not_ready` is off by default
(`core/flags/flags.cpp:29`); with it on, orders are forgotten that still work, one
of which an update brings back with the version of its last response while a
request with a later one is on its way.
`ModifyOffered` says that a gateway which offers to create and to cancel offers to
modify (line 352). `BookAtStart` says that the book's parameters come before the
first download (line 751). `~Conflates` says that a fill is told before the
cancellation of the rest (line 609). `DownloadTells = "nothing"` says that no fill is
told between the position of a download and its end (line 947); that one may be, when
the new position follows, is model-checked only (`oms_ladder`, `oms_sides`), and the
other theorems need no such hypothesis. `~PartialFills` says that orders are filled
whole: a partial fill is taken for the answer to a request under way
(`claim_one_in_flight`). TLC finds a counterexample to
`RequestsInOrder`, `QuietAgreement`, `PositionAgrees` and `CreatesFit` with the flag
on, to the last three without `BookAtStart`, to `NeverAborts` without
`ModifyOffered`, to `PositionAgrees` with `Conflates` and with `DownloadTells = "reports"`, and to
`CreatesFit` with `PartialFills`. With the flag on it finds none to `XTypeOK` and
`NeverAborts`; their proofs rest on `Inv`, which holds with the flag off only.

The argument, in four layers, each the inductive invariant of its theorems. `Inv` is
part of `AgreementInv`, and that of the other two. Each was checked by TLC before it
was proved, the first three on the instances of `oms_ladder` and `oms_sides`, the
last on those of `oms_safety` and `oms_sides` with whole fills.

* `Inv` is what `OmsLemmas` knows of the manager (`ManagerInv`), the budgets
  (`BoundsInv`) and what may be on the paths between the two (`PathsInv`). That
  no id is used twice is `DownloadInv`: an id the exchange has seen is below
  `max_order_id`, or else a download is on its way whose end tells of it, and
  then nothing is sent. That versions grow is `VersionsInv`: the book's version of
  an order is never below one that is on its way or was seen; an order that a
  download brings back continues with the version the exchange has seen. Both
  need to know when the book forgets an order: `FinalInv` (nothing follows the
  final update) and `ForgottenInv` (what is under way for an order that the book
  does not have concerns one that is gone). `AmendedInv` gives the two conjuncts of
  `Answers` that `OmsOpen` assumes of a gateway, which this composition therefore
  implements.
* `AgreementInv` relates book, exchange and messages for each order: a live order
  is in the book or about to be told of (`LiveInv`), one in the book is live or
  its end, its creation or the refusal of it is on its way (`BookInv`), the last
  update says what rests (`LastInv`, `ConfirmedInv`), and what waits is about to be
  answered (`WaitsInv`). When the paths are empty, these say `QuietAgreement`.
* `HoldsInv` says that the position is the one counting starts from, plus, for
  each order, what the updates on its way will still add (`Promise`). The sum over
  the orders is given by its partial sums (`IsSum`), so that no fold is needed: a
  step changes what one order is due (`SumChanges`), or starts from a snapshot
  that leaves nothing due (`SumOfZeros`). `OnceInv`, `TradedInv` and `CanceledInv`
  say that a download tells of each order once and before its end, that the lots
  traded only grow, and that a cancellation tells of no new fill.
* `FitInv` says that when orders are created the manager knows what rests.
  `UnderWayInv`: of every order in the book one request, one refusal or one report
  is under way, or none (`OneUnderWay`), and while one is the order is pending.
  `CountInv` and `PlaceInv`: on a side that orders are created on nothing is pending
  but what this very loop created, on other levels. So the live orders of the side
  are in the book (`HeldInv`), nothing more will be told of them, and what is expected
  of them is what rests. `SumInv`: for each level, what is expected of the orders
  visited adds up to no more than the level's sum, although the loop starts over
  without clearing the sums: it may count an order twice, never too few. What rests
  is then at most what the level expects, nothing else is on its way there, and the
  new order is for the difference to the target.

The steps are first put into a few shapes (`Shapes`, `PositionShapes`): an order
is amended, created, heard of, answered, and so on, whatever handler does it. The
lemma of a shape says what it does to the invariant, so that the thirty actions
of the composition are looked at once, and not once per part of the invariant.

`GraphProof` proves about `Graph!Spec`, for every finite set of edges, any nodes
and any graph over them:

| Theorem | Property |
|---|---|
| `TypeCorrect` | `[]TypeOK` |
| `DistancesGrow` | `[]Settled` |
| `ListsInOrder` | `[]DependenciesFirst` |
| `Implements` | `Abstract!Spec`, the refinement `ImplementsOrder` |

The argument. While it runs, the nodes met are reachable, every edge out of a
node that is settled leads to a node that is further away, and `todo` with the
node at hand covers the rest. At the end nothing is left, so that the nodes met
are closed under the edges, hence all that is reachable, and the distances order
them. That a circle is reported only when there is one needs more: a distance is
the length of a walk from the start. A walk longer than there are edges uses an
edge twice (the pigeonhole principle, from the cardinality of the finite set of
edges), and what lies between the two uses is a circle of reachable nodes. The
steps of the abstract specification follow: `Finish` is `Lists`, the edge that is
too long is `Refuses`, everything else a stutter. The one assumption is
`GraphAssumption`. The inductive invariant is `TypeOK`, `Settled`,
`DependenciesFirst` and the two facts above, `Bounded` and `Walked`.

`LqsProof` proves about `LqsTrading!Spec`, for any markets, accounts, prices,
positions, configuration, later parameters and bounds:

| Theorem | Property |
|---|---|
| `TypeCorrect` | `[]TypeOK` |
| `AssertsHold` | `[]QuotesNeverAbort` |
| `QuotesRest` | `[]PassiveQuotesRest` |
| `TargetsReduce` | `[]TargetsReducePosition` |
| `WithinDelta` | `SendsWithinDelta` |

The argument. `TypeInv` adds to `TypeOK` that the loops walk over legs and
underlyings that exist (`WalkOK`, `RegisteredOK`): a handler is interrupted by
nothing, but the leg it is about was chosen in an earlier step. `AssertsHold`
needs `DownloadInv`: while the gateway downloads no leg has quotes, and when it
has ended each leg has its tick size or is still to be visited by the handler of
the end. A leg emplaced later takes the tick size of its market at once. It is
here that the order of the events counts, as `core.is_ready` enforces it.
`QuotesRest` and `TargetsReduce` need `CurrentInv`: the quotes of a leg are those
of its own position and market, except for the one leg that was changed and is
waiting for its turn among the legs of its underlying. Since the walk ends only
after all of them, no leg waits when the handler has ended. `SentInv` says that
what was sent is what was computed unless it was withheld, and `ReportInv` that
the last report under way, or else what the strategy knows, is the position.
The withheld quotes are the exception of the theorem and the finding
`claim_increases`. `WithinDelta` needs `DeltaInv`: while a handler walks over the
legs of an underlying, its delta is what the legs passed so far add up to
(`AddUpTo`, by their partial sums), and it is what all of them add up to for as long
as the quotes are computed, since dispatching a leg changes none of the terms. The
property adds up a set and the code a sequence: when no leg is registered twice, the
two are the same in whatever order the legs were registered (`SumOfTerms`). The
assumptions are `LqsAssumption` and `TradingAssumption`.

`CoreProof` proves about `CoreEvents!Spec`, for any file, gateways, markets,
accounts, later parameters and bounds:

| Theorem | Property | Hypotheses |
|---|---|---|
| `TypeCorrect` | `[]TypeOK` | |
| `BooksFound` | `[]BooksReachable` | |
| `NumbersStable` | `IdsStable` | |
| `QuotesInTime` | `QuotesOnlyOnceDownloaded` | `DataAsConfigured` |
| `FileSuffices` | `[]NeverFails` | `CompleteFile` |
| `PositionsArrive` | `[]ExposureAgrees` | `HoldingsConfigured` |
| `ParametersDelivered` | `[]ConfigDelivered` | `ParametersApart` |

The hypotheses are about the file and how it fits the gateways. They are stated at
the end of `CoreProperties`; TLC evaluates them on the file of the run
(`HypothesesHold` in `MCCore`). `DataAsConfigured`: the data of a market come from
the gateway its `[[market]]` table names, and gateways have names. `CompleteFile`:
what is traded or held has an account in the file, with a trade gateway (without one
the assert at `oms/manager.cpp:103` fails), and a parameter names all it is about.
`HoldingsConfigured`: the tables of an account that holds positions agree on its
portfolio, whose number is that of the strategy, and no two such accounts have the
same name in one market. `ParametersApart`: a table of terms names its strategy and
markets and has a value, and what one parameter sets no later one sets to something
else, a parameter for all legs or all strategies included. Two of them exclude
`position_source = "ORDERS"`, which the finding `claim_orders` is about.

The argument. A handler of parameters or of the file is a fold over a sequence, and
what a fold keeps is an induction. `FoldLemmas` does it once: the operator that is
folded and what is kept are its constants, and `CoreProof` takes an instance for each
of the folds (`FoldKeeps`). No theorem of the library takes an operator, but an
instance does. What is kept of markets, portfolios, books and strategies by one
element is then a lemma about one step.

* `TypeInv` is `CoreOK` and `EventsInv`. `CoreOK` says that the two tables of the
  markets are inverse, that a market's gateway is the one of the name the file gives
  (`MarketsNamed`), and that books and legs have a market; each part keeps it because
  markets only grow (`Grows`), whichever of the parts emplaces them within one event.
  `EventsInv` says what may be on the queues.
* `LinksInv` relates a queue to what the core believes of the gateway: a status or an
  end of download that is still on its way means that the gateway is not ready. Hence
  data are traded upon after the download only.
* `CompleteInv`: every book has the name of a gateway, and every leg with an account
  could be given a book. It needs that target quotes come from legs, and legs from
  parameters and positions only.
* `PositionsInv`: when a connection is up, the last position on its way for an account
  and market is the one held, and when none is on its way it has arrived (`Has`). A
  download tells of every holding (`DownloadFacts`), a lost connection owes nothing
  until the next one. `KnownInv` adds that portfolio and strategy are there.
* `DeliveredInv`: as long as no parameter was changed, none is on a queue, and each
  term is what the file says (`TermIs`). The fold over the file follows one parameter:
  once it has been told, what comes later leaves its term alone or sets it again to the
  same value (`TermGood`). The other events keep all terms (`TermsKept`).

Each property was first model-checked by its run on a small instance.
Every invariant and every action property that a passing run checks is stated by a
theorem. Model-checked only is liveness (`Converges`, `Liquidates`, `QuotesArrive`,
`BooksResolve`, `Terminates`), which is out of the prover's reach.

## 5. What the code does not do

Runs that end in a counterexample, each against a sentence of the repository
(quoted in `PROJECT.json`, `findings`):

1. `claim_one_in_flight`: a partial fill clears a pending amendment, and a
   second request of the same order is sent while the first is on its way.
2. `claim_increases`: quotes that are empty are not sent. A strategy that is
   switched off, or whose market has lost a side, leaves its old targets with the
   order manager, which refills them and takes the position through zero.
3. `claim_orders`: with `position_source = "ORDERS"` a fill never moves the
   position. The trade that the order manager hands on has no account, and the
   portfolio is looked up by one.

Found while modelling and listed without a run; the definitions named model them:

* "goto again" is said to recalculate all levels; the sums are not cleared, so
  after one request every order counts twice (`Amend` in
  `Oms`). `Converges` and `CreatesOnSettledSide` hold nevertheless: too large a
  sum makes too few orders, and the timer repairs it.
* Each leg is given the whole room of the delta, whatever the others were asked to
  trade (`DeltaMinus`). When two long legs against a short one are filled before the
  next computation, the delta of the combination leaves its range, which the strategy's
  README says it should not. `SendsWithinDelta` is what holds: each leg alone.
* A fill told by the update that tells the cancellation is never counted
  (`order_canceled`; `PositionAgrees` fails with `Conflates = TRUE`).
* A fill told within a download after its position, and not followed by a new one,
  is overwritten when the download ends (`DownloadEnd`; `PositionAgrees` fails with
  `DownloadTells = "reports"`). Which order a gateway keeps is not in the repository.
* An account without modification makes an assert fail (`CreateAsserts`;
  `NeverAborts` fails with `Masks` that leave MODIFY out).
* Partial fills start the ban meant for full fills, and there is one ban for both
  sides of a book.
* A book that target quotes emplace sends its orders to the market data gateway
  of its market, not to the trade gateway of its account (`TargetBook`); one that
  an `oms:` parameter has emplaced is routed as configured. The two are the same
  in the sample file.

## 6. Plan

In order of importance; 1 to 6 are done.

1. `Oms`, `OmsOpen`, `OmsProof`: the order manager and its invariants.
2. `OmsExchange`, `OmsProperties`, `OrderRequests`, `OmsClaims`.
3. `Lqs`, `LqsTrading`: the strategy, its loop through fills and reports.
4. `Tables`, `Gateways`, `Markets`, `Portfolios`, `Config`, `Books`, and their
   composition `CoreStrategy`, `CoreEvents`, `CoreProperties`.
5. `EvaluationOrder`, `Graph`, `GraphProof`.
6. Proofs: those of section 4.
7. Three legs of one underlying (the room is granted to each of them), two
   underlyings (a leg that moves stays counted), and an abstract `Quoting` that
   `LqsTrading` implements: a leg is asked to trade towards zero only.
8. `Lqs` and `Oms` within `CoreStrategy` instead of any answers.

### Not modelled

* Parsing of TOML and of the command line, logging, formatting, the subscriptions
  handed to the client library, Python and shell scripts: input and output without
  state of interest.
* The rest of the DAG. `USE_DAG` is commented out in `core/factory.cpp`, and the
  pricer there has no behaviour to check: nothing calls `rebuild_paths`, so that no
  node is ever computed, and nothing fills `node_by_name`.
* The spreader, which the build leaves out because it does not compile.
* `config/client.cpp`, all of which is commented out at its only use.
