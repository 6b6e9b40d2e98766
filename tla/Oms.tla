-------------------------------- MODULE Oms --------------------------------
(***************************************************************************)
(* The order manager, oms::Manager (src/src/roq/core/oms), for one book:   *)
(* one strategy trading one market through one account.  The pricer gives  *)
(* it target quotes; it keeps working orders on the price levels so that   *)
(* what it expects to rest on every level equals the target.               *)
(*                                                                         *)
(* The program is one thread: a handler runs to its end before the next    *)
(* event is looked at.  Every handler here is guarded by phase = "idle".   *)
(* A handler that calls process() leaves phase = "begin", and from then on *)
(* only the steps of process() are enabled until it returns to "idle":     *)
(*                                                                         *)
(*   begin  -> the early returns, then the levels are cleared              *)
(*   count  -> the loop over the orders that adds them up per level        *)
(*   adjust -> the loop that modifies or cancels ("goto again" = count)    *)
(*   place  -> the loop that creates orders, one level per step            *)
(*   abort  -> an assert failed (asserts are on in the default build)      *)
(*                                                                         *)
(* The hash maps are walked in an unspecified order: a choice with \E.     *)
(* Prices are tick indices, quantities are lots.  Time is relative: ban is *)
(* ban_until - now, zero when it has passed.                               *)
(***************************************************************************)
EXTENDS Integers, Sequences, FiniteSets

CONSTANTS
    Sides,        \* the sides quoted: a subset of {"BUY", "SELL"}
    Prices,       \* tick indices of the price levels
    Targets,      \* the target quotes the pricer may send
    ParamSets,    \* the values of the book's parameters
    RejectBan,    \* reject_timeout_
    MaxBan,       \* longest ban a rate limit trigger asks for
    EraseOnNotReady, \* Flags::erase_all_orders_on_gateway_not_ready
    MaxOrderId,   \* bound on the order ids given out
    MaxVersion    \* bound on the versions of one order

NoPrice == 0      \* NaN in a price that was never set

Quantity == Nat

ASSUME ConstantsAssumption ==
    /\ Sides \subseteq {"BUY", "SELL"}
    /\ Prices \subseteq Nat \ {NoPrice}
    /\ Targets \subseteq [Sides -> [Prices -> Quantity]]
    /\ ParamSets \subseteq
         [ban_modify : BOOLEAN, post_fill : Nat, post_cancel : Nat]
    /\ ParamSets # {}
    /\ RejectBan \in Nat
    /\ MaxBan \in Nat
    /\ EraseOnNotReady \in BOOLEAN
    /\ MaxOrderId \in Nat
    /\ MaxVersion \in Nat \ {0}

VARIABLES
    known,        \* the book exists in books_
    params,       \* ban_modify, post_fill_timeout, post_cancel_timeout
    target,       \* level.target_quantity of bids and asks
    expected,     \* level.expected_quantity
    orders,       \* book.orders
    indexed,      \* the keys of market_by_order_
    max_order_id,
    pending,      \* book.pending, per side
    ban,          \* ban_until - now
    position_by_orders,
    position_by_account,
    phase,        \* where the running handler is
    uncounted,    \* orders its counting loop has still to visit
    holes,        \* levels its creating loop has still to fill
    out,          \* requests handed to dispatcher.send
    available,    \* the gateway's GatewayStatus.available for the account
    downloading,  \* between DownloadBegin and DownloadEnd
    tick_known    \* the market's tick_size has been received

bookVars == <<known, params, target, orders, indexed>>
posVars  == <<position_by_orders, position_by_account>>
procVars == <<expected, pending, uncounted, holes>>
gwVars   == <<available, downloading, tick_known>>
omsVars  == <<bookVars, posVars, procVars, gwVars,
              max_order_id, ban, phase, out>>
-----------------------------------------------------------------------------
(* Data *)

SupportTypes == {"CREATE", "MODIFY", "CANCEL"}
RequestTypes == {"CREATE", "MODIFY", "CANCEL"}
NoRequest == "UNDEFINED"

(* UNDEFINED stands for every status that no handler asks for.             *)
OrderStatuses == {"UNDEFINED", "WORKING", "COMPLETED", "CANCELED", "REJECTED"}

(* A rate limit stands for GATEWAY_NOT_READY too: the two are one branch.   *)
Errors == {"OTHER", "TOO_LATE_TO_MODIFY_OR_CANCEL", "REQUEST_RATE_LIMIT_REACHED"}
Phases == {"idle", "begin", "count", "adjust", "place", "abort"}

AnyPrice == Prices \cup {NoPrice}

PendingState == [type : RequestTypes \cup {NoRequest}, version : Nat,
                 price : AnyPrice, quantity : Quantity]
ConfirmedState == [status : OrderStatuses, version : Nat,
                   price : AnyPrice, quantity : Quantity]
ExpectedState == [price : AnyPrice, quantity : Quantity]

Order ==
    [side : Sides, traded : Nat, rejected : BOOLEAN,
     pending : PendingState, confirmed : ConfirmedState, expected : ExpectedState]

Request ==
    [type : RequestTypes, id : Nat, version : Nat, conditional : Nat,
     side : Sides, price : AnyPrice, quantity : Quantity]

OrderUpdate ==
    [id : Nat, side : Sides, price : Prices, remaining : Quantity,
     traded : Nat, status : OrderStatuses, accepted : Nat, response : Nat,
     stale : BOOLEAN]

NoLevels == [s \in Sides |-> [p \in Prices |-> 0]]
Signed(side, q) == IF side = "BUY" THEN q ELSE -q
Max2(a, b) == IF a >= b THEN a ELSE b
Drop(f, k) == [x \in DOMAIN f \ {k} |-> f[x]]
Put(f, k, v) == [x \in DOMAIN f \cup {k} |-> IF x = k THEN v ELSE f[x]]

IsPending(o) == o.pending.type # NoRequest
IsOver(o) == o.confirmed.status \in {"COMPLETED", "CANCELED"}
State(v) == [price |-> v.price, quantity |-> v.quantity]

(* Mutant: a download under way does not stop requests.                    *)
ReadyWhileDownloading(mask) == mask \subseteq available

IsReady(mask) == ~downloading /\ mask \subseteq available
-----------------------------------------------------------------------------
(* process(book): the early returns, then the levels are cleared.          *)

ProcessReturns ==
    /\ phase = "begin"
    /\ \/ ~known
       \/ ~IsReady({"CREATE", "CANCEL"})
       \/ ~tick_known
       \/ ban > 0
    /\ phase' = "idle"
    /\ UNCHANGED <<bookVars, posVars, procVars, gwVars, max_order_id, ban, out>>

(* The label "again": the pending counters restart from zero and every     *)
(* order is visited; the level sums are not cleared.                       *)
CountAgain(os) ==
    /\ pending' = [s \in Sides |-> 0]
    /\ uncounted' = DOMAIN os
    /\ phase' = "count"
    /\ UNCHANGED holes

ProcessBegins ==
    /\ phase = "begin"
    /\ known
    /\ IsReady({"CREATE", "CANCEL"})
    /\ tick_known
    /\ ban = 0
    /\ expected' = NoLevels
    /\ CountAgain(orders)
    /\ UNCHANGED <<bookVars, posVars, gwVars, max_order_id, ban, out>>

(* One turn of the counting loop.  Its sums do not depend on the order of  *)
(* the visits: the smallest id goes first.                                 *)
CountOrder(id) ==
    LET o == orders[id]
    IN  /\ phase = "count"
        /\ id \in uncounted
        /\ \A other \in uncounted : id <= other
        /\ uncounted' = uncounted \ {id}
        /\ IF IsOver(o)
           THEN UNCHANGED <<pending, expected>>
           ELSE /\ pending' = [pending EXCEPT
                       ![o.side] = @ + (IF IsPending(o) THEN 1 ELSE 0)]
                /\ expected' = [expected EXCEPT
                       ![o.side][o.expected.price] = @ + o.expected.quantity]
        /\ UNCHANGED <<bookVars, posVars, gwVars,
                       max_order_id, ban, phase, out, holes>>

CountEnds ==
    /\ phase = "count"
    /\ uncounted = {}
    /\ phase' = "adjust"
    /\ UNCHANGED <<bookVars, posVars, procVars, gwVars, max_order_id, ban, out>>
-----------------------------------------------------------------------------
(* process(book): the loop that moves or cancels an order of a level that  *)
(* has more than its target, and starts over after each request.           *)

can_cancel(o) ==
    /\ o.confirmed.version # 0
    /\ ~IsPending(o)
    /\ o.pending.version < MaxVersion   \* bound

can_modify(o) ==
    /\ ~params.ban_modify
    /\ ~o.rejected
    /\ can_cancel(o)
    /\ IsReady({"MODIFY"})

Excess(o) == expected[o.side][o.expected.price] > target[o.side][o.expected.price]
Hole(s, p) == target[s][p] - expected[s][p]
(* Mutant: levels that have too much count as holes too.                   *)
HolesOfEither(s) == {p \in Prices : Hole(s, p) # 0}

HolesOf(s) == {p \in Prices : Hole(s, p) > 0}

(* The order's next request: what was pending is replaced, and what is     *)
(* expected is what was asked for.                                         *)
Requested(o, type, price, quantity) ==
    [o EXCEPT !.pending = [type |-> type, version |-> o.pending.version + 1,
                           price |-> price, quantity |-> quantity],
              !.expected = [price |-> price, quantity |-> quantity]]

Send(id, o) ==
    out' = Append(out, [type |-> o.pending.type, id |-> id,
                        version |-> o.pending.version,
                        conditional |-> o.confirmed.version,
                        side |-> o.side, price |-> o.pending.price,
                        quantity |-> o.pending.quantity])

Amend(id, o) ==
    /\ orders' = [orders EXCEPT ![id] = o]
    /\ Send(id, o)
    /\ CountAgain(orders)
    /\ UNCHANGED <<known, params, target, indexed, expected, posVars, gwVars,
                   max_order_id, ban>>

modify_order(id) ==
    LET o == orders[id]
    IN  /\ phase = "adjust"
        /\ Excess(o)
        /\ can_modify(o)
        /\ \E p \in HolesOf(o.side) :
              Amend(id, Requested(o, "MODIFY", p, Hole(o.side, p)))

cancel_order(id) ==
    LET o == orders[id]
    IN  /\ phase = "adjust"
        /\ Excess(o)
        /\ can_cancel(o)
        /\ ~(can_modify(o) /\ HolesOf(o.side) # {})
        /\ Amend(id, Requested(o, "CANCEL", o.expected.price, 0))

(* Mutant: a request under way does not stop new orders.                   *)
CreatesWhilePending(s) == s \in Sides

(* Nothing sets info.min_trade_vol: the comparison with it, a NaN, is      *)
(* false.                                                                  *)
can_create(s) == pending[s] = 0

AdjustEnds ==
    /\ phase = "adjust"
    /\ \A id \in DOMAIN orders : ~(Excess(orders[id]) /\ can_cancel(orders[id]))
    /\ holes' = {h \in Sides \X Prices :
                    Hole(h[1], h[2]) > 0 /\ can_create(h[1])}
    /\ phase' = "place"
    /\ UNCHANGED <<bookVars, posVars, gwVars, expected, pending, uncounted,
                   max_order_id, ban, out>>
-----------------------------------------------------------------------------
(* process(book): the loop that creates orders, buy levels first, and the  *)
(* erasure of empty levels, which only forgets zeros.                      *)

Created(s, p) ==
    [side |-> s, traded |-> 0, rejected |-> FALSE,
     pending   |-> [type |-> "CREATE", version |-> 1,
                    price |-> p, quantity |-> Hole(s, p)],
     confirmed |-> [status |-> "UNDEFINED", version |-> 0,
                    price |-> NoPrice, quantity |-> 0],
     expected  |-> [price |-> p, quantity |-> Hole(s, p)]]

NextHole(s, p) ==
    /\ phase = "place"
    /\ <<s, p>> \in holes
    /\ s = "SELL" => \A h \in holes : h[1] = "SELL"

(* create_order asserts that the gateway can modify orders and that the id *)
(* it takes is free.                                                       *)
create_order(s, p) ==
    /\ NextHole(s, p)
    /\ max_order_id < MaxOrderId        \* bound
    /\ IsReady({"MODIFY"})
    /\ max_order_id + 1 \notin DOMAIN orders
    /\ max_order_id' = max_order_id + 1
    /\ orders' = Put(orders, max_order_id + 1, Created(s, p))
    /\ indexed' = indexed \cup {max_order_id + 1}
    /\ Send(max_order_id + 1, Created(s, p))
    /\ holes' = holes \ {<<s, p>>}
    /\ UNCHANGED <<known, params, target, posVars, gwVars, expected, pending,
                   uncounted, ban, phase>>

CreateAsserts(s, p) ==
    /\ NextHole(s, p)
    /\ max_order_id < MaxOrderId        \* bound
    /\ ~(IsReady({"MODIFY"}) /\ max_order_id + 1 \notin DOMAIN orders)
    /\ phase' = "abort"
    /\ UNCHANGED <<bookVars, posVars, procVars, gwVars, max_order_id, ban, out>>

(* Nothing reads the sums and counters between two calls of process(): they *)
(* are cleared here instead of at the next call.                           *)
ProcessEnds ==
    /\ phase = "place"
    /\ holes = {} \/ max_order_id = MaxOrderId
    /\ phase' = "idle"
    /\ holes' = {}
    /\ expected' = NoLevels
    /\ pending' = [s \in Sides |-> 0]
    /\ UNCHANGED <<bookVars, posVars, gwVars, uncounted, max_order_id, ban, out>>

Process ==
    \/ ProcessReturns \/ ProcessBegins \/ CountEnds \/ AdjustEnds \/ ProcessEnds
    \/ \E id \in DOMAIN orders : CountOrder(id) \/ modify_order(id) \/ cancel_order(id)
    \/ \E s \in Sides, p \in Prices : create_order(s, p) \/ CreateAsserts(s, p)
-----------------------------------------------------------------------------
(* Event handlers.  Each runs from "idle"; those that end with a call of   *)
(* process() leave "begin".                                                *)

Handler(next) == phase = "idle" /\ phase' = next

TargetQuotes(t) ==
    /\ Handler("begin")
    /\ tick_known
    /\ known' = TRUE
    /\ target' = t
    /\ UNCHANGED <<params, orders, indexed, posVars, procVars, gwVars,
                   max_order_id, ban, out>>

(* Quotes for a market of unknown tick size are dropped.                   *)
TargetsDropped ==
    /\ Handler("idle")
    /\ ~tick_known
    /\ UNCHANGED <<bookVars, posVars, procVars, gwVars, max_order_id, ban, out>>

ReferenceData ==
    /\ Handler("idle")
    /\ tick_known' = TRUE
    /\ UNCHANGED <<bookVars, posVars, procVars, available, downloading,
                   max_order_id, ban, out>>

ParametersUpdate(p) ==
    /\ Handler("idle")
    /\ known' = TRUE
    /\ params' = p
    /\ UNCHANGED <<target, orders, indexed, posVars, procVars, gwVars,
                   max_order_id, ban, out>>

Elapsed(d) == IF ban > d THEN ban - d ELSE 0

(* d is the time since the last timer; books are processed when a second   *)
(* has passed since they were last.                                        *)
Timer(d, due) ==
    /\ Handler(IF due THEN "begin" ELSE "idle")
    /\ ban' = Elapsed(d)
    /\ UNCHANGED <<bookVars, posVars, procVars, gwVars, max_order_id, out>>

RateLimitTrigger(d) ==
    /\ Handler("idle")
    /\ known
    /\ ban' = d
    /\ UNCHANGED <<bookVars, posVars, procVars, gwVars, max_order_id, out>>

(* Mutant: the index keeps the erased order.                               *)
EraseKeepsIndex(id) ==
    /\ orders' = Drop(orders, id)
    /\ UNCHANGED indexed

erase_order(id) ==
    /\ orders' = Drop(orders, id)
    /\ indexed' = indexed \ {id}

erase_all_orders ==
    /\ orders' = <<>>
    /\ indexed' = indexed \ DOMAIN orders

GatewayStatus(mask) ==
    /\ Handler("idle")
    /\ available' = mask
    /\ IF EraseOnNotReady /\ ~({"CREATE", "CANCEL"} \subseteq mask)
       THEN erase_all_orders
       ELSE UNCHANGED <<orders, indexed>>
    /\ UNCHANGED <<known, params, target, posVars, procVars, downloading,
                   tick_known, max_order_id, ban, out>>

(* The order manager has no handler of it: the gateway's cache forgets     *)
(* what was available.                                                     *)
Disconnected ==
    /\ Handler("idle")
    /\ available' = {}
    /\ UNCHANGED <<bookVars, posVars, procVars, downloading,
                   tick_known, max_order_id, ban, out>>

DownloadBegin ==
    /\ Handler("idle")
    /\ downloading' = TRUE
    /\ position_by_orders' = 0
    /\ position_by_account' = 0
    /\ erase_all_orders
    /\ UNCHANGED <<known, params, target, procVars, available,
                   tick_known, max_order_id, ban, out>>

(* Mutant: the ids used in earlier runs are not skipped.                   *)
DownloadEndForgetsIds(last) ==
    /\ Handler("idle")
    /\ downloading' = FALSE
    /\ position_by_orders' = position_by_account
    /\ UNCHANGED <<bookVars, position_by_account, procVars, available,
                   tick_known, max_order_id, ban, out>>

DownloadEnd(last) ==
    /\ Handler("idle")
    /\ downloading' = FALSE
    /\ max_order_id' = Max2(max_order_id, last)
    /\ position_by_orders' = position_by_account
    /\ UNCHANGED <<bookVars, position_by_account, procVars, available,
                   tick_known, ban, out>>

PositionUpdate(x) ==
    /\ Handler("idle")
    /\ position_by_account' = IF known THEN x ELSE position_by_account
    /\ UNCHANGED <<bookVars, position_by_orders, procVars, gwVars,
                   max_order_id, ban, out>>
-----------------------------------------------------------------------------
(* OrderUpdate                                                             *)

OrderUpdateFrame ==
    UNCHANGED <<known, params, target, position_by_account, procVars, gwVars,
                max_order_id, out>>

UpdateNotFound(u) ==
    /\ Handler("idle")
    /\ ~known
    /\ UNCHANGED <<bookVars, posVars, procVars, gwVars, max_order_id, ban, out>>

IsNew(u) == u.id \notin DOMAIN orders

(* Stale orders, and orders first seen when no longer working, are not kept. *)
UpdateErases(u) ==
    /\ Handler("begin")
    /\ known
    /\ u.stale \/ u.status = "REJECTED" \/ (IsNew(u) /\ u.status # "WORKING")
    /\ erase_order(u.id)
    /\ UNCHANGED <<position_by_orders, ban>>
    /\ OrderUpdateFrame

(* Mutant: the version of the last acceptance stands for the last answer.  *)
ReportedAsAccepted(u) ==
    [side |-> u.side, traded |-> u.traded, rejected |-> FALSE,
     pending   |-> [type |-> NoRequest, version |-> u.accepted,
                    price |-> NoPrice, quantity |-> 0],
     confirmed |-> [status |-> u.status, version |-> u.accepted,
                    price |-> u.price, quantity |-> u.remaining],
     expected  |-> [price |-> u.price, quantity |-> u.remaining]]

Reported(u) ==
    [side |-> u.side, traded |-> u.traded, rejected |-> FALSE,
     pending   |-> [type |-> NoRequest, version |-> u.response,
                    price |-> NoPrice, quantity |-> 0],
     confirmed |-> [status |-> u.status, version |-> u.accepted,
                    price |-> u.price, quantity |-> u.remaining],
     expected  |-> [price |-> u.price, quantity |-> u.remaining]]

UpdateAdds(u) ==
    /\ Handler("begin")
    /\ known /\ ~u.stale /\ IsNew(u)
    /\ u.status = "WORKING"
    /\ orders' = Put(orders, u.id, Reported(u))
    /\ indexed' = indexed \cup {u.id}
    /\ UNCHANGED <<position_by_orders, ban>>
    /\ OrderUpdateFrame

order_fills(side, fill) ==
    IF fill > 0
    THEN /\ position_by_orders' = position_by_orders + Signed(side, fill)
         /\ ban' = IF params.post_fill # 0 THEN params.post_fill ELSE ban
    ELSE UNCHANGED <<position_by_orders, ban>>

(* Mutant: a confirmed order still waits for its request.                  *)
ConfirmedStillPending(o, u) ==
    [o EXCEPT !.confirmed = [status |-> u.status, version |-> u.accepted,
                             price |-> u.price, quantity |-> u.remaining],
              !.expected = [price |-> u.price, quantity |-> u.remaining],
              !.traded = u.traded]

(* The last request is taken for answered, whatever the update is about.   *)
Confirmed(o, u) ==
    [o EXCEPT !.confirmed = [status |-> u.status, version |-> u.accepted,
                             price |-> u.price, quantity |-> u.remaining],
              !.expected = [price |-> u.price, quantity |-> u.remaining],
              !.pending.type = NoRequest,
              !.traded = u.traded]

order_confirm(u) ==
    /\ Handler("begin")
    /\ known /\ ~u.stale /\ ~IsNew(u)
    /\ u.status = "WORKING"
    /\ orders' = [orders EXCEPT ![u.id] = Confirmed(@, u)]
    /\ order_fills(u.side, u.traded - orders[u.id].traded)
    /\ UNCHANGED indexed
    /\ OrderUpdateFrame

(* Mutant: the last fill of an order is not counted.                       *)
CompletesUncounted(u) ==
    /\ Handler("begin")
    /\ known /\ ~u.stale /\ ~IsNew(u)
    /\ u.status = "COMPLETED"
    /\ erase_order(u.id)
    /\ UNCHANGED <<position_by_orders, ban>>
    /\ OrderUpdateFrame

order_complete(u) ==
    /\ Handler("begin")
    /\ known /\ ~u.stale /\ ~IsNew(u)
    /\ u.status = "COMPLETED"
    /\ erase_order(u.id)
    /\ order_fills(u.side, u.traded - orders[u.id].traded)
    /\ OrderUpdateFrame

order_canceled(u) ==
    /\ Handler("begin")
    /\ known /\ ~u.stale /\ ~IsNew(u)
    /\ u.status = "CANCELED"
    /\ erase_order(u.id)
    /\ ban' = IF params.post_cancel # 0 THEN params.post_cancel ELSE ban
    /\ UNCHANGED position_by_orders
    /\ OrderUpdateFrame

(* Any other status of an order of the book changes nothing.               *)
UpdateIgnored(u) ==
    /\ Handler("begin")
    /\ known /\ ~u.stale /\ ~IsNew(u)
    /\ u.status = "UNDEFINED"
    /\ UNCHANGED <<orders, indexed, position_by_orders, ban>>
    /\ OrderUpdateFrame

OrderUpdated(u) ==
    \/ UpdateNotFound(u) \/ UpdateErases(u) \/ UpdateAdds(u) \/ UpdateIgnored(u)
    \/ order_confirm(u) \/ order_complete(u) \/ order_canceled(u)
-----------------------------------------------------------------------------
(* OrderAck with request_status REJECTED.  ACCEPTED sets accept_version,    *)
(* which nothing reads, and FORWARDED sets nothing.                        *)

AckNotFound(a) ==
    /\ Handler("idle")
    /\ a.id \notin indexed \/ a.id \notin DOMAIN orders
    /\ UNCHANGED <<bookVars, posVars, procVars, gwVars, max_order_id, ban, out>>

(* A rate limit bans new requests; any other error leads to process().     *)
AckContinues(a) ==
    /\ a.id \in indexed \cap DOMAIN orders
    /\ IF a.error = "REQUEST_RATE_LIMIT_REACHED"
       THEN Handler("idle") /\ ban' = Max2(ban, RejectBan)
       ELSE Handler("begin") /\ UNCHANGED ban
    /\ UNCHANGED <<known, params, target, posVars, procVars, gwVars,
                   max_order_id, out>>

order_create_reject(a) ==
    /\ a.type = "CREATE"
    /\ AckContinues(a)
    /\ erase_order(a.id)

(* An amendment that came too late marks the order cancelled: it stays in  *)
(* the book until its last update, and is not counted.                     *)
TooLate(a, o) ==
    IF a.error = "TOO_LATE_TO_MODIFY_OR_CANCEL"
    THEN [o EXCEPT !.confirmed.status = "CANCELED",
                   !.confirmed.price = o.pending.price,
                   !.confirmed.quantity = 0]
    ELSE o

(* Mutant: a refused order still waits for its request.                    *)
RevertedStillPending(o) == [o EXCEPT !.expected = State(o.confirmed)]

Reverted(o) ==
    [o EXCEPT !.expected = State(o.confirmed), !.pending.type = NoRequest]

order_modify_reject(a) ==
    /\ a.type = "MODIFY"
    /\ AckContinues(a)
    /\ orders' = [orders EXCEPT ![a.id] =
                     TooLate(a, [Reverted(@) EXCEPT !.rejected = TRUE])]
    /\ UNCHANGED indexed

order_cancel_reject(a) ==
    /\ a.type = "CANCEL"
    /\ AckContinues(a)
    /\ orders' = [orders EXCEPT ![a.id] = TooLate(a, Reverted(@))]
    /\ UNCHANGED indexed

OrderAcked(a) ==
    \/ AckNotFound(a) \/ order_create_reject(a)
    \/ order_modify_reject(a) \/ order_cancel_reject(a)
-----------------------------------------------------------------------------
DefaultParams == [ban_modify |-> FALSE, post_fill |-> 0, post_cancel |-> 0]

(* A process that has just started, which knows of no gateway.             *)
Init ==
    /\ known = FALSE
    /\ params = DefaultParams
    /\ target = NoLevels
    /\ expected = NoLevels
    /\ orders = <<>>
    /\ indexed = {}
    /\ max_order_id = 0
    /\ pending = [s \in Sides |-> 0]
    /\ ban = 0
    /\ position_by_orders = 0
    /\ position_by_account = 0
    /\ phase = "idle"
    /\ uncounted = {}
    /\ holes = {}
    /\ out = <<>>
    /\ available = {}
    /\ downloading = FALSE
    /\ tick_known = FALSE

(* The program is killed and started again: all of it is lost.             *)
Restart ==
    /\ known' = FALSE
    /\ params' = DefaultParams
    /\ target' = NoLevels
    /\ expected' = NoLevels
    /\ orders' = <<>>
    /\ indexed' = {}
    /\ max_order_id' = 0
    /\ pending' = [s \in Sides |-> 0]
    /\ ban' = 0
    /\ position_by_orders' = 0
    /\ position_by_account' = 0
    /\ phase' = "idle"
    /\ uncounted' = {}
    /\ holes' = {}
    /\ out' = <<>>
    /\ available' = {}
    /\ downloading' = FALSE
    /\ tick_known' = FALSE
-----------------------------------------------------------------------------
(* Every variable keeps its type.                                          *)
TypeOK ==
    /\ known \in BOOLEAN
    /\ params \in ParamSets \cup {DefaultParams}
    /\ target \in [Sides -> [Prices -> Quantity]]
    /\ expected \in [Sides -> [Prices -> Quantity]]
    /\ DOMAIN orders \subseteq Nat
    /\ orders \in [DOMAIN orders -> Order]
    /\ indexed \subseteq Nat
    /\ max_order_id \in Nat
    /\ pending \in [Sides -> Nat]
    /\ ban \in Nat
    /\ position_by_orders \in Int
    /\ position_by_account \in Int
    /\ phase \in Phases
    /\ uncounted \subseteq DOMAIN orders
    /\ holes \subseteq Sides \X Prices
    /\ out \in Seq(Request)
    /\ available \subseteq SupportTypes
    /\ downloading \in BOOLEAN
    /\ tick_known \in BOOLEAN
=============================================================================
