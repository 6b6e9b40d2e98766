----------------------------- MODULE CoreEvents -----------------------------
(***************************************************************************)
(* core::Strategy with the gateways that send it events, and what it must  *)
(* make of them.  The gateways are not in the repository: they are         *)
(* modelled from the events handled.  Each sends its events in order; the  *)
(* gateways do not wait for each other.  On connecting a gateway sends its *)
(* settings, a download with its status and its markets (with their last   *)
(* market data), and a download of each account with all its positions.    *)
(***************************************************************************)
EXTENDS CoreStrategy

CONSTANTS
    Keys,          \* <<exchange, symbol>> of the markets there are
    DataSource,    \* the connection that brings the data of a market
    TradeSource,   \* the connection that trades for an account
    Traders,       \* the accounts: [strategy, account]
    Layers,        \* what the top of a market may be
    Updates,       \* parameters that may be changed later
    Holdings,      \* the markets each account has positions in
    Positions,     \* what the accounts may hold at first
    MaxFills, MaxMoves, MaxDrops, MaxChanges,
    MaxTogether    \* fills, moves, drops and changes in one behaviour

ASSUME EventsAssumption ==
    /\ DataSource \in [Keys -> Sources]
    /\ TradeSource \in [Traders -> Sources]
    /\ IsFiniteSet(Keys) /\ IsFiniteSet(Traders)
    /\ Holdings \subseteq Traders \X Keys
    /\ \A t \in Traders : t.account # ""
    /\ \A update \in Updates : IsSequence(update)
    /\ {MaxFills, MaxMoves, MaxDrops, MaxChanges, MaxTogether} \subseteq Nat

VARIABLES
    queue,    \* events on their way, per connection
    linked,   \* the connections that are up
    held,     \* the position of each account in each market
    top,      \* the top of each market
    used      \* what has been used of every bound

envVars == <<queue, linked, held, top, used>>
vars == <<coreVars, envVars>>

Budget == [fills |-> MaxFills, moves |-> MaxMoves, drops |-> MaxDrops,
           changes |-> MaxChanges]

Spend(what) ==
    /\ used[what] < Budget[what]
    /\ used.fills + used.moves + used.drops + used.changes < MaxTogether
    /\ used' = [used EXCEPT ![what] = @ + 1]
-----------------------------------------------------------------------------
(* Events                                                                  *)

Plain(kind, s) == [kind |-> kind, source |-> s]
OfAccount(kind, s, account) == [kind |-> kind, source |-> s, account |-> account]

DataOf(s, k, layer) ==
    [kind |-> LET nodes == {i \in DOMAIN File.market : k[2] \in ToSet(File.market[i].symbols)}
              IN  IF \E i \in nodes : File.market[i].best_quotes_source = "MARKET_BY_PRICE"
                  THEN "MarketByPriceUpdate" ELSE "TopOfBook",
     source |-> s, key |-> k, layer |-> layer]

PositionOf(s, t, k, position) ==
    [kind |-> "PositionUpdate", source |-> s, account |-> t.account, key |-> k,
     long_quantity |-> IF position > 0 THEN position ELSE 0,
     short_quantity |-> IF position < 0 THEN -position ELSE 0]

MarketsDownload(s) ==
    FoldLeft(LAMBDA acc, k :
                IF DataSource[k] # s THEN acc
                ELSE acc \o <<[kind |-> "ReferenceData", source |-> s, key |-> k,
                               tick_size |-> 1], DataOf(s, k, top[k])>>,
             <<>>, SetToSeq(Keys))

AccountDownload(s, t) ==
    <<OfAccount("DownloadBegin", s, t.account)>>
    \o FoldLeft(LAMBDA acc, k : Append(acc, PositionOf(s, t, k, held[t, k])),
                <<>>, SetToSeq({k \in Keys : <<t, k>> \in Holdings}))
    \o <<OfAccount("DownloadEnd", s, t.account)>>

Download(s) ==
    <<Plain("GatewaySettings", s), OfAccount("DownloadBegin", s, ""),
      [kind |-> "GatewayStatus", source |-> s, available |-> MdSupport]>>
    \o MarketsDownload(s)
    \o <<OfAccount("DownloadEnd", s, "")>>
    \o FoldLeft(LAMBDA acc, t :
                    IF TradeSource[t] = s THEN acc \o AccountDownload(s, t) ELSE acc,
                <<>>, SetToSeq(Traders))
-----------------------------------------------------------------------------
(* The gateways                                                            *)

Sends(s, events) == queue' = [queue EXCEPT ![s] = @ \o events]
SendsIfLinked(s, events) == IF s \in linked THEN Sends(s, events) ELSE UNCHANGED queue

Connects(s) ==
    /\ phase = "running"
    /\ s \notin linked
    /\ queue[s] = <<>>
    /\ linked' = linked \cup {s}
    /\ Sends(s, Download(s))
    /\ UNCHANGED <<coreVars, held, top, used>>

(* The connection is lost with the events under way.                       *)
Breaks(s) ==
    /\ s \in linked
    /\ Spend("drops")
    /\ linked' = linked \ {s}
    /\ queue' = [queue EXCEPT ![s] = <<Plain("Disconnected", s)>>]
    /\ UNCHANGED <<coreVars, held, top>>

Crashes ==
    /\ phase = "running"
    /\ Spend("drops")
    /\ linked' = {}
    /\ queue' = [s \in Sources |-> <<>>]
    /\ CoreRestarts
    /\ UNCHANGED <<held, top>>

(* An order of an account is filled: the order is reported, then the       *)
(* position.                                                               *)
Fills(t, k, side) ==
    LET s == TradeSource[t]
        after == held[t, k] + (IF side = "BUY" THEN 1 ELSE -1)
    IN  /\ Spend("fills")
        /\ held' = [held EXCEPT ![<<t, k>>] = after]
        /\ SendsIfLinked(s,
             <<[kind |-> "OrderUpdate", source |-> s, account |-> t.account, key |-> k,
                strategy_id |-> t.strategy, side |-> side, quantity |-> 1],
               PositionOf(s, t, k, after)>>)
        /\ UNCHANGED <<coreVars, linked, top>>

Moves(k, layer) ==
    /\ layer # top[k]
    /\ Spend("moves")
    /\ top' = [top EXCEPT ![k] = layer]
    /\ SendsIfLinked(DataSource[k], <<DataOf(DataSource[k], k, layer)>>)
    /\ UNCHANGED <<coreVars, linked, held>>

IsData(e) == e.kind \in {"TopOfBook", "MarketByPriceUpdate"}

(* Market data keep coming although the top stays the same.                *)
Repeats(k) ==
    LET s == DataSource[k]
    IN  /\ s \in linked
        /\ \A i \in DOMAIN queue[s] : ~IsData(queue[s][i])
        /\ Sends(s, <<DataOf(s, k, top[k])>>)
        /\ UNCHANGED <<coreVars, linked, held, top, used>>

(* Parameters are changed in the gateway that stores them.                 *)
Changes(s, update) ==
    /\ s \in linked
    /\ Spend("changes")
    /\ Sends(s, <<[kind |-> "ParametersUpdate", source |-> s, update |-> update]>>)
    /\ UNCHANGED <<coreVars, linked, held, top>>
-----------------------------------------------------------------------------
(* The client's event loop                                                 *)

Takes(s, kinds) ==
    /\ queue[s] # <<>>
    /\ Head(queue[s]).kind \in kinds
    /\ queue' = [queue EXCEPT ![s] = Tail(@)]
    /\ UNCHANGED <<linked, held, top, used>>

Receives(s) ==
    LET e == Head(queue[s])
    IN  \/ Takes(s, {"GatewaySettings"}) /\ GatewaySettings(e)
        \/ Takes(s, {"ReferenceData"}) /\ ReferenceData(e)
        \/ Takes(s, {"DownloadBegin", "Disconnected"}) /\ GatewayChanges(e)
        \/ Takes(s, {"DownloadEnd"}) /\ DownloadEnd(e)
        \/ Takes(s, {"GatewayStatus"}) /\ GatewayStatus(e)
        \/ Takes(s, {"TopOfBook", "MarketByPriceUpdate"}) /\ MarketData(e)
        \/ Takes(s, {"PositionUpdate"}) /\ PositionUpdate(e)
        \/ Takes(s, {"OrderUpdate"}) /\ OrderUpdate(e)
        \/ Takes(s, {"ParametersUpdate"}) /\ ParametersUpdate(e.update)

Ticks == Timer /\ UNCHANGED envVars
Starts == (Configures \/ DispatchesParameters) /\ UNCHANGED envVars
-----------------------------------------------------------------------------
Init ==
    /\ CoreInit
    /\ queue = [s \in Sources |-> <<>>]
    /\ linked = {}
    /\ held \in [Holdings -> Positions]
    /\ \E layer \in Layers : top = [k \in Keys |-> layer]
    /\ used = [what \in DOMAIN Budget |-> 0]

Happens ==
    \/ \E s \in Sources : Breaks(s)
    \/ \E x \in Holdings, side \in {"BUY", "SELL"} : Fills(x[1], x[2], side)
    \/ \E k \in Keys, layer \in Layers : Moves(k, layer)
    \/ \E s \in Sources, update \in Updates : Changes(s, update)
    \/ Crashes

Next ==
    \/ Starts \/ Ticks \/ Happens
    \/ \E s \in Sources : Connects(s) \/ Receives(s)
    \/ \E k \in Keys : Repeats(k)

Spec == Init /\ [][Next]_vars

(* Fairness: the process starts, events are delivered, a lost connection   *)
(* is made again, market data keep coming, and the timer fires.  It is     *)
(* stated of the variable that such a step changes, whatever else the step *)
(* does.                                                                   *)
StartGoesOn ==
    \/ phase = "new" /\ phase' = "configured"
    \/ phase = "configured" /\ phase' = "running"

Delivered(s) ==
    /\ queue[s] # <<>>
    /\ queue' = [queue EXCEPT ![s] = Tail(@)]

Linked(s) ==
    /\ phase = "running"
    /\ s \notin linked /\ queue[s] = <<>>
    /\ linked' = linked \cup {s}

DataSent(k) ==
    LET s == DataSource[k]
    IN  /\ s \in linked
        /\ \A i \in DOMAIN queue[s] : ~IsData(queue[s][i])
        /\ queue' = [queue EXCEPT ![s] = Append(@, DataOf(s, k, top[k]))]

FairSpec ==
    /\ Spec
    /\ WF_phase(StartGoesOn)
    /\ \A s \in Sources : WF_linked(Linked(s)) /\ WF_queue(Delivered(s))
    /\ \A k \in Keys : SF_queue(DataSent(k))
    /\ WF_books(Ticks)
=============================================================================
