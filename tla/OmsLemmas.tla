----------------------------- MODULE OmsLemmas -----------------------------
(***************************************************************************)
(* What any step of the order manager keeps, whatever the gateway does:    *)
(* the facts that the proofs about OmsOpen and OmsExchange share.          *)
(***************************************************************************)
EXTENDS Oms, TLAPS

USE DEF Quantity

(* What is expected of an order is at a price the book has a level for;    *)
(* so is the last report of an order that was confirmed.                   *)
Priced(o) ==
    /\ o.expected.price \in Prices
    /\ o.confirmed.version # 0 => o.confirmed.price \in Prices

PricedOrders == \A id \in DOMAIN orders : Priced(orders[id])

(* Only the counting loop has orders left to visit.                        *)
Counted == phase # "count" => uncounted = {}

TypeInv == TypeOK /\ PricedOrders /\ Counted

(* The levels to place on still lack what they lacked when chosen.         *)
HolesInv ==
    /\ phase \notin {"place", "abort"} => holes = {}
    /\ \A h \in holes : Hole(h[1], h[2]) > 0
-----------------------------------------------------------------------------
(* A refusal of an amendment answers one that was sent: the order has been *)
(* confirmed, and a request for it has left since it entered the book.     *)
Answerable(a) ==
    a.type # "CREATE" /\ a.id \in DOMAIN orders =>
        /\ orders[a.id].confirmed.version # 0
        /\ orders[a.id].pending.price # NoPrice

Refusals == [id : Nat, type : RequestTypes, error : Errors]

(* Any event, with any content.                                            *)
AnyEvent ==
    \/ \E t \in Targets : TargetQuotes(t)
    \/ TargetsDropped
    \/ ReferenceData
    \/ \E p \in ParamSets : ParametersUpdate(p)
    \/ \E due \in BOOLEAN : Timer(1, due)
    \/ \E d \in Nat : RateLimitTrigger(d)
    \/ \E mask \in SUBSET SupportTypes : GatewayStatus(mask)
    \/ Disconnected
    \/ DownloadBegin
    \/ \E last \in Nat : DownloadEnd(last)
    \/ \E x \in Int : PositionUpdate(x)
    \/ \E u \in OrderUpdate : OrderUpdated(u)
    \/ \E a \in Refusals : Answerable(a) /\ OrderAcked(a)

(* Requests leave for the gateway or are lost, with the connection or not. *)
OutLeaves ==
    /\ phase = "idle"
    /\ out' = <<>> \/ (out # <<>> /\ out' = Tail(out))
    /\ available' \in {available, {}}
    /\ UNCHANGED <<bookVars, posVars, procVars, downloading, tick_known,
                   max_order_id, ban, phase>>

ManagerStep ==
    Process \/ AnyEvent \/ OutLeaves \/ Restart \/ UNCHANGED omsVars
-----------------------------------------------------------------------------
(* Dropping a key keeps the type of a function.                            *)
LEMMA DropType ==
    ASSUME NEW S, NEW f, f \in [DOMAIN f -> S], NEW k
    PROVE  /\ DOMAIN Drop(f, k) = DOMAIN f \ {k}
           /\ Drop(f, k) \in [DOMAIN Drop(f, k) -> S]
           /\ \A x \in DOMAIN f \ {k} : Drop(f, k)[x] = f[x]
    BY DEF Drop

(* A new request leaves the last report, the side and the fills alone.     *)
LEMMA RequestedType ==
    ASSUME NEW o \in Order, NEW type \in RequestTypes,
           NEW p \in Prices, NEW q \in Nat
    PROVE  LET r == Requested(o, type, p, q)
           IN  /\ r \in Order
               /\ r.expected = State(r.pending)
               /\ r.expected.price = p
               /\ r.pending.type = type
               /\ r.pending \in PendingState
               /\ r.confirmed = o.confirmed
               /\ r.side = o.side
<1> DEFINE r == Requested(o, type, p, q)
<1>1. r.pending = [type |-> type, version |-> o.pending.version + 1,
                   price |-> p, quantity |-> q]
    BY DEF Requested, Order
<1>2. r.expected = [price |-> p, quantity |-> q]
    BY DEF Requested, Order
<1>3. r.pending \in PendingState
    BY <1>1 DEF PendingState, Order, AnyPrice
<1>4. r.expected \in ExpectedState
    BY <1>2 DEF ExpectedState, AnyPrice
<1>5. r \in Order
    BY <1>3, <1>4 DEF Requested, Order
<1>6. r.expected = State(r.pending)
    BY <1>1, <1>2 DEF State
<1>7. r.confirmed = o.confirmed /\ r.side = o.side
    BY DEF Requested, Order
<1>8. QED
    BY <1>1, <1>2, <1>3, <1>5, <1>6, <1>7

(* A refused amendment leaves the last report expected.                    *)
LEMMA RevertedType ==
    ASSUME NEW o \in Order
    PROVE  LET r == Reverted(o)
           IN  /\ r \in Order
               /\ r.expected = State(r.confirmed)
               /\ r.pending.type = NoRequest
               /\ r.pending.price = o.pending.price
               /\ r.confirmed = o.confirmed
               /\ r.side = o.side
<1> DEFINE r == Reverted(o)
<1>1. r.expected = State(o.confirmed)
    BY DEF Reverted, Order
<1>2. r.expected \in ExpectedState
    BY <1>1 DEF ExpectedState, ConfirmedState, Order, State
<1>3. r.pending = [o.pending EXCEPT !.type = NoRequest]
    BY DEF Reverted, Order
<1>4. r.pending \in PendingState
    BY <1>3 DEF PendingState, Order
<1>5. r.pending.type = NoRequest /\ r.pending.price = o.pending.price
    BY <1>3 DEF PendingState, Order
<1>6. r.confirmed = o.confirmed /\ r.side = o.side
    BY DEF Reverted, Order
<1>7. r \in Order
    BY <1>2, <1>4 DEF Reverted, Order
<1>8. QED
    BY <1>1, <1>5, <1>6, <1>7

(* Counting a refusal against an order changes nothing else of it.         *)
LEMMA RejectedType ==
    ASSUME NEW o \in Order
    PROVE  LET r == [o EXCEPT !.rejected = TRUE]
           IN  /\ r \in Order
               /\ r.expected = o.expected
               /\ r.pending = o.pending
               /\ r.confirmed = o.confirmed
               /\ r.side = o.side
    BY DEF Order

(* An order given up as too late keeps what is expected of it.             *)
LEMMA TooLateType ==
    ASSUME NEW o \in Order, NEW a
    PROVE  LET r == TooLate(a, o)
           IN  /\ r \in Order
               /\ r.expected = o.expected
               /\ r.pending = o.pending
               /\ r.side = o.side
               /\ r.confirmed.version = o.confirmed.version
               /\ r.confirmed.price \in {o.confirmed.price, o.pending.price}
               /\ r = o \/ IsOver(r)
<1> DEFINE r == TooLate(a, o)
<1>1. CASE a.error # "TOO_LATE_TO_MODIFY_OR_CANCEL"
    BY <1>1 DEF TooLate
<1>2. CASE a.error = "TOO_LATE_TO_MODIFY_OR_CANCEL"
    <2>1. r = [[[o EXCEPT !.confirmed.status = "CANCELED"]
                   EXCEPT !.confirmed.price = o.pending.price]
                   EXCEPT !.confirmed.quantity = 0]
        BY <1>2 DEF TooLate
    <2>2. r.confirmed = [status |-> "CANCELED", version |-> o.confirmed.version,
                         price |-> o.pending.price, quantity |-> 0]
        BY <2>1 DEF Order, ConfirmedState
    <2>3. r.confirmed \in ConfirmedState
        BY <2>2 DEF ConfirmedState, PendingState, Order, OrderStatuses
    <2>4. r.expected = o.expected /\ r.pending = o.pending /\ r.side = o.side
        BY <2>1 DEF Order
    <2>5. r \in Order
        BY <2>1, <2>3 DEF Order
    <2>6. QED
        BY <2>2, <2>4, <2>5 DEF IsOver
<1>3. QED
    BY <1>1, <1>2

(* A created order asks for its hole and has not been reported yet.        *)
LEMMA CreatedType ==
    ASSUME NEW s \in Sides, NEW p \in Prices, Hole(s, p) \in Nat
    PROVE  LET o == Created(s, p)
           IN  /\ o \in Order
               /\ o.expected = State(o.pending)
               /\ o.expected.price = p
               /\ o.pending \in PendingState
               /\ o.pending.type = "CREATE"
               /\ o.confirmed.version = 0
               /\ o.side = s
    BY DEF Created, Order, PendingState, ConfirmedState, ExpectedState,
           RequestTypes, OrderStatuses, AnyPrice, State, NoRequest

(* What a report says of an order is what is expected of it.               *)
LEMMA ReportedType ==
    ASSUME NEW u \in OrderUpdate
    PROVE  LET r == Reported(u)
           IN  /\ r \in Order
               /\ r.expected = State(r.confirmed)
               /\ r.expected.price \in Prices
               /\ r.confirmed.price \in Prices
               /\ r.pending.type = NoRequest
               /\ r.side = u.side
    BY DEF Reported, OrderUpdate, Order, PendingState, ConfirmedState,
           ExpectedState, AnyPrice, State, NoRequest

LEMMA ConfirmedType ==
    ASSUME NEW o \in Order, NEW u \in OrderUpdate
    PROVE  LET r == Confirmed(o, u)
           IN  /\ r \in Order
               /\ r.expected = State(r.confirmed)
               /\ r.expected.price \in Prices
               /\ r.confirmed.price \in Prices
               /\ r.pending.type = NoRequest
               /\ r.side = o.side
<1> DEFINE c == [status |-> u.status, version |-> u.accepted,
                 price |-> u.price, quantity |-> u.remaining]
           e == [price |-> u.price, quantity |-> u.remaining]
           r == Confirmed(o, u)
<1>1. /\ c \in ConfirmedState /\ e \in ExpectedState
      /\ u.traded \in Nat /\ u.price \in Prices
    BY DEF OrderUpdate, ConfirmedState, ExpectedState, AnyPrice
<1>2. r.pending = [o.pending EXCEPT !.type = NoRequest]
    BY DEF Confirmed, Order
<1>3. r.pending \in PendingState /\ r.pending.type = NoRequest
    BY <1>2 DEF PendingState, Order
<1>4. r.confirmed = c /\ r.expected = e /\ r.side = o.side
    BY DEF Confirmed, Order
<1>5. r \in Order
    BY <1>1, <1>3 DEF Confirmed, Order
<1>6. QED
    BY <1>1, <1>3, <1>4, <1>5 DEF State
-----------------------------------------------------------------------------
(* The types, which the invariants below build on.                         *)

LEMMA TypeInit == Init => TypeInv
<1> SUFFICES ASSUME Init PROVE TypeInv
    OBVIOUS
<1>1. /\ DOMAIN orders = {} /\ orders \in [DOMAIN orders -> Order]
      /\ uncounted = {} /\ holes = {} /\ indexed = {}
    BY DEF Init
<1>2. /\ expected \in [Sides -> [Prices -> Nat]]
      /\ target \in [Sides -> [Prices -> Nat]]
      /\ pending \in [Sides -> Nat]
    BY DEF Init, NoLevels
<1>3. out \in Seq(Request)
    BY DEF Init
<1>4. /\ params \in ParamSets \cup {DefaultParams}
      /\ known \in BOOLEAN /\ downloading \in BOOLEAN
      /\ available \subseteq SupportTypes
      /\ phase \in Phases /\ tick_known \in BOOLEAN
    BY DEF Init, Phases
<1>5. /\ max_order_id \in Nat /\ ban \in Nat
      /\ position_by_orders \in Int /\ position_by_account \in Int
    BY DEF Init
<1>6. TypeOK
    BY <1>1, <1>2, <1>3, <1>4, <1>5 DEF TypeOK
<1>7. QED
    BY <1>1, <1>6 DEF TypeInv, PricedOrders, Counted

(* Adding to one entry keeps the type of a counter, and of a table.        *)
LEMMA BumpType ==
    ASSUME NEW S, NEW f \in [S -> Nat], NEW x \in S, NEW n \in Nat
    PROVE  [f EXCEPT ![x] = @ + n] \in [S -> Nat]
    OBVIOUS

LEMMA BumpTableType ==
    ASSUME NEW S, NEW T, NEW f \in [S -> [T -> Nat]],
           NEW x \in S, NEW y \in T, NEW n \in Nat
    PROVE  [f EXCEPT ![x][y] = @ + n] \in [S -> [T -> Nat]]
<1>1. f[x] \in [T -> Nat]
    OBVIOUS
<1>2. [f[x] EXCEPT ![y] = @ + n] \in [T -> Nat]
    BY <1>1, BumpType
<1>3. QED
    BY <1>2

(* One turn of the counting loop keeps the types of the sums.              *)
LEMMA CountOrderType ==
    ASSUME TypeInv, NEW id \in DOMAIN orders, CountOrder(id)
    PROVE  TypeInv'
<1> DEFINE o == orders[id]
           n == IF IsPending(o) THEN 1 ELSE 0
<1>1. /\ orders \in [DOMAIN orders -> Order]
      /\ expected \in [Sides -> [Prices -> Nat]] /\ pending \in [Sides -> Nat]
      /\ \A i \in DOMAIN orders : Priced(orders[i])
    BY DEF TypeInv, TypeOK, PricedOrders
<1>2. o.side \in Sides /\ o.expected.price \in Prices /\ o.expected.quantity \in Nat
    BY <1>1 DEF Order, Priced, ExpectedState
<1>3. n \in Nat
    OBVIOUS
<1> HIDE DEF o, n
<1>4. [pending EXCEPT ![o.side] = @ + n] \in [Sides -> Nat]
    BY <1>1, <1>2, <1>3, BumpType
<1>5. [expected EXCEPT ![o.side][o.expected.price] = @ + o.expected.quantity]
          \in [Sides -> [Prices -> Nat]]
    BY <1>1, <1>2, BumpTableType
<1>6. \/ UNCHANGED <<pending, expected>>
      \/ /\ pending' = [pending EXCEPT ![o.side] = @ + n]
         /\ expected' = [expected EXCEPT
                ![o.side][o.expected.price] = @ + o.expected.quantity]
    BY DEF CountOrder, o, n
<1>7. expected' \in [Sides -> [Prices -> Nat]] /\ pending' \in [Sides -> Nat]
    BY <1>1, <1>4, <1>5, <1>6
<1>8. uncounted' \subseteq DOMAIN orders
    BY DEF TypeInv, TypeOK, CountOrder
<1>9. QED
    BY <1>7, <1>8
       DEF TypeInv, TypeOK, PricedOrders, Counted, CountOrder,
           bookVars, posVars, gwVars

(* The other steps of process() that change no order.                      *)
LEMMA CountingType ==
    ASSUME TypeInv,
           \/ ProcessReturns \/ ProcessBegins \/ CountEnds \/ AdjustEnds
           \/ ProcessEnds \/ \E s \in Sides, p \in Prices : CreateAsserts(s, p)
    PROVE  TypeInv'
<1> USE DEF TypeInv, TypeOK, PricedOrders, Counted, bookVars, posVars, procVars, gwVars
<1>1. CASE ProcessReturns \/ CountEnds
    BY <1>1 DEF ProcessReturns, CountEnds, Phases
<1>2. CASE ProcessBegins
    <2>1. /\ expected' \in [Sides -> [Prices -> Nat]]
          /\ pending' \in [Sides -> Nat]
        BY <1>2 DEF ProcessBegins, CountAgain, NoLevels
    <2>2. QED
        BY <1>2, <2>1 DEF ProcessBegins, CountAgain, Phases
<1>3. CASE AdjustEnds
    BY <1>3 DEF AdjustEnds, Phases
<1>4. CASE ProcessEnds
    <2>1. /\ expected' \in [Sides -> [Prices -> Nat]]
          /\ pending' \in [Sides -> Nat]
        BY <1>4 DEF ProcessEnds, NoLevels
    <2>2. QED
        BY <1>4, <2>1 DEF ProcessEnds, Phases
<1>5. ASSUME NEW s \in Sides, NEW p \in Prices, CreateAsserts(s, p)
      PROVE  TypeInv'
    BY <1>5 DEF CreateAsserts, NextHole, Phases
<1>6. QED
    BY <1>1, <1>2, <1>3, <1>4, <1>5

(* A level's hole is a quantity when it is positive.                       *)
LEMMA HoleType ==
    ASSUME TypeOK, NEW s \in Sides, NEW p \in Prices
    PROVE  Hole(s, p) \in Int /\ (Hole(s, p) > 0 => Hole(s, p) \in Nat)
    BY DEF TypeOK, Hole

(* The requests sent are well typed.                                       *)
LEMMA SendType ==
    ASSUME TypeOK, NEW id \in Nat, NEW o \in Order,
           o.pending.type \in RequestTypes, Send(id, o)
    PROVE  out' \in Seq(Request)
<1>1. o.pending \in PendingState /\ o.confirmed \in ConfirmedState /\ o.side \in Sides
    BY DEF Order
<1>2. [type |-> o.pending.type, id |-> id, version |-> o.pending.version,
       conditional |-> o.confirmed.version, side |-> o.side,
       price |-> o.pending.price, quantity |-> o.pending.quantity] \in Request
    BY <1>1 DEF Request, PendingState, ConfirmedState
<1>3. QED
    BY <1>2 DEF Send, TypeOK

(* The book's part of the types.                                           *)
OrdersInv ==
    /\ DOMAIN orders \subseteq Nat
    /\ orders \in [DOMAIN orders -> Order]
    /\ PricedOrders

(* Changing or adding one order keeps it, and so does forgetting some.     *)
LEMMA ChangeType ==
    ASSUME OrdersInv, NEW id \in Nat, NEW o \in Order, Priced(o),
           \/ orders' = Put(orders, id, o)
           \/ id \in DOMAIN orders /\ orders' = [orders EXCEPT ![id] = o]
    PROVE  OrdersInv' /\ DOMAIN orders' = DOMAIN orders \cup {id}
<1>1. CASE orders' = Put(orders, id, o)
    <2>1. /\ DOMAIN orders' = DOMAIN orders \cup {id}
          /\ orders' \in [DOMAIN orders' -> Order]
          /\ orders'[id] = o
          /\ \A x \in DOMAIN orders \ {id} : orders'[x] = orders[x]
        BY <1>1 DEF Put, OrdersInv
    <2>2. \A x \in DOMAIN orders' : Priced(orders'[x])
        BY <2>1 DEF OrdersInv, PricedOrders
    <2>3. QED
        BY <2>1, <2>2 DEF OrdersInv, PricedOrders, Priced
<1>2. CASE id \in DOMAIN orders /\ orders' = [orders EXCEPT ![id] = o]
    BY <1>2 DEF OrdersInv, PricedOrders
<1>3. QED
    BY <1>1, <1>2

LEMMA EraseType ==
    ASSUME OrdersInv, NEW id, orders' = Drop(orders, id) \/ orders' = <<>>
    PROVE  OrdersInv'
<1>1. CASE orders' = Drop(orders, id)
    <2>1. /\ DOMAIN orders' = DOMAIN orders \ {id}
          /\ orders' \in [DOMAIN orders' -> Order]
          /\ \A x \in DOMAIN orders \ {id} : orders'[x] = orders[x]
        BY <1>1, DropType DEF OrdersInv
    <2>2. \A x \in DOMAIN orders' : Priced(orders'[x])
        BY <2>1 DEF OrdersInv, PricedOrders
    <2>3. QED
        BY <2>1, <2>2 DEF OrdersInv, PricedOrders, Priced
<1>2. CASE orders' = <<>>
    BY <1>2 DEF OrdersInv, PricedOrders
<1>3. QED
    BY <1>1, <1>2

(* The requests of process().                                              *)
LEMMA AmendType ==
    ASSUME TypeInv, NEW id \in DOMAIN orders, NEW o \in Order, Priced(o),
           o.pending.type \in RequestTypes, Amend(id, o)
    PROVE  TypeInv'
<1>1. OrdersInv' /\ DOMAIN orders' = DOMAIN orders
    BY ChangeType DEF TypeInv, TypeOK, OrdersInv, Amend
<1>2. out' \in Seq(Request)
    BY SendType DEF TypeInv, TypeOK, Amend
<1>3. pending' \in [Sides -> Nat] /\ uncounted' = DOMAIN orders /\ phase' = "count"
    BY DEF Amend, CountAgain
<1>4. QED
    BY <1>1, <1>2, <1>3
       DEF TypeInv, TypeOK, Counted, OrdersInv, Amend, CountAgain, Phases,
           posVars, gwVars

LEMMA ModifyType ==
    ASSUME TypeInv, NEW id \in DOMAIN orders, modify_order(id)
    PROVE  TypeInv'
<1>1. orders[id] \in Order /\ Priced(orders[id]) /\ orders[id].side \in Sides
    BY DEF TypeInv, TypeOK, PricedOrders, Order
<1>2. PICK p \in HolesOf(orders[id].side) :
          Amend(id, Requested(orders[id], "MODIFY", p, Hole(orders[id].side, p)))
    BY DEF modify_order
<1>3. p \in Prices /\ Hole(orders[id].side, p) \in Nat
    BY <1>1, <1>2, HoleType DEF HolesOf, TypeInv
<1> DEFINE o == Requested(orders[id], "MODIFY", p, Hole(orders[id].side, p))
<1>4. /\ o \in Order /\ o.pending.type = "MODIFY"
      /\ o.expected.price = p /\ o.confirmed = orders[id].confirmed
    BY <1>1, <1>3, RequestedType DEF RequestTypes
<1> HIDE DEF o
<1>5. Priced(o)
    BY <1>1, <1>3, <1>4 DEF Priced
<1>6. Amend(id, o)
    BY <1>2 DEF o
<1>7. QED
    BY <1>4, <1>5, <1>6, AmendType DEF RequestTypes

LEMMA CancelType ==
    ASSUME TypeInv, NEW id \in DOMAIN orders, cancel_order(id)
    PROVE  TypeInv'
<1>1. orders[id] \in Order /\ Priced(orders[id])
    BY DEF TypeInv, TypeOK, PricedOrders
<1> DEFINE p == orders[id].expected.price
           o == Requested(orders[id], "CANCEL", p, 0)
<1>2. p \in Prices
    BY <1>1 DEF Priced
<1>3. /\ o \in Order /\ o.pending.type = "CANCEL"
      /\ o.expected.price = p /\ o.confirmed = orders[id].confirmed
    BY <1>1, <1>2, RequestedType DEF RequestTypes
<1>4. Amend(id, o)
    BY DEF cancel_order
<1> HIDE DEF o
<1>5. Priced(o)
    BY <1>1, <1>2, <1>3 DEF Priced
<1>6. QED
    BY <1>3, <1>4, <1>5, AmendType DEF RequestTypes

LEMMA CreateType ==
    ASSUME TypeInv, HolesInv, NEW s \in Sides, NEW p \in Prices, create_order(s, p)
    PROVE  TypeInv'
<1> DEFINE o == Created(s, p)
           id == max_order_id + 1
<1>1. <<s, p>> \in holes /\ phase = "place"
    BY DEF create_order, NextHole
<1>2. Hole(s, p) \in Nat
    BY <1>1, HoleType DEF HolesInv, TypeInv
<1>3. /\ o \in Order /\ o.expected.price = p /\ o.confirmed.version = 0
      /\ o.pending.type \in RequestTypes
    BY <1>2, CreatedType DEF RequestTypes
<1>4. /\ id \in Nat /\ orders' = Put(orders, id, o) /\ Send(id, o)
      /\ indexed' = indexed \cup {id}
    BY DEF create_order, TypeInv, TypeOK
<1>5. max_order_id' \in Nat
    BY DEF create_order, TypeInv, TypeOK
<1> HIDE DEF o, id
<1>6. OrdersInv' /\ DOMAIN orders' = DOMAIN orders \cup {id}
    BY <1>3, <1>4, ChangeType DEF OrdersInv, TypeInv, TypeOK, Priced
<1>7. out' \in Seq(Request)
    BY <1>3, <1>4, SendType DEF TypeInv
<1>8. QED
    BY <1>4, <1>5, <1>6, <1>7
       DEF TypeInv, TypeOK, Counted, OrdersInv, create_order, posVars, gwVars
-----------------------------------------------------------------------------
(* The handlers that change no order.                                      *)
LEMMA PlainHandlersType ==
    ASSUME TypeInv,
           \/ \E t \in Targets : TargetQuotes(t)
           \/ \E p \in ParamSets : ParametersUpdate(p)
           \/ \E due \in BOOLEAN : Timer(1, due)
           \/ \E d \in Nat : RateLimitTrigger(d)
           \/ Disconnected \/ TargetsDropped \/ ReferenceData
           \/ \E last \in Nat : DownloadEnd(last)
           \/ \E x \in Int : PositionUpdate(x)
           \/ \E u \in OrderUpdate : UpdateNotFound(u) \/ UpdateIgnored(u)
           \/ \E a \in Refusals : AckNotFound(a)
    PROVE  TypeInv'
<1> USE DEF TypeInv, TypeOK, PricedOrders, Counted, Handler, Phases,
            bookVars, posVars, procVars, gwVars
<1>1. ASSUME NEW t \in Targets, TargetQuotes(t) PROVE TypeInv'
    <2>1. t \in [Sides -> [Prices -> Nat]]
        BY ConstantsAssumption
    <2>2. QED
        BY <1>1, <2>1 DEF TargetQuotes
<1>2. ASSUME NEW p \in ParamSets, ParametersUpdate(p) PROVE TypeInv'
    BY <1>2 DEF ParametersUpdate
<1>3. ASSUME NEW due \in BOOLEAN, Timer(1, due) PROVE TypeInv'
    <2>1. ban' \in Nat
        BY <1>3 DEF Timer, Elapsed
    <2>2. QED
        BY <1>3, <2>1 DEF Timer
<1>4. ASSUME NEW d \in Nat, RateLimitTrigger(d) PROVE TypeInv'
    BY <1>4 DEF RateLimitTrigger
<1>5. CASE Disconnected \/ TargetsDropped \/ ReferenceData
    BY <1>5 DEF Disconnected, TargetsDropped, ReferenceData
<1>6. ASSUME NEW last \in Nat, DownloadEnd(last) PROVE TypeInv'
    <2>1. max_order_id' \in Nat
        BY <1>6 DEF DownloadEnd, Max2
    <2>2. QED
        BY <1>6, <2>1 DEF DownloadEnd
<1>7. ASSUME NEW x \in Int, PositionUpdate(x) PROVE TypeInv'
    BY <1>7 DEF PositionUpdate
<1>8. ASSUME NEW u \in OrderUpdate, UpdateNotFound(u) \/ UpdateIgnored(u)
      PROVE  TypeInv'
    BY <1>8 DEF UpdateNotFound, UpdateIgnored, OrderUpdateFrame
<1>9. ASSUME NEW a \in Refusals, AckNotFound(a) PROVE TypeInv'
    BY <1>9 DEF AckNotFound
<1>10. QED
    BY <1>1, <1>2, <1>3, <1>4, <1>5, <1>6, <1>7, <1>8, <1>9

(* What the handlers that do change orders leave alone.                    *)
LEMMA BookHandlerType ==
    ASSUME TypeInv, phase = "idle", phase' \in {"idle", "begin"},
           OrdersInv', indexed' \subseteq Nat, ban' \in Nat,
           position_by_orders' \in Int, position_by_account' \in Int,
           available' \subseteq SupportTypes, downloading' \in BOOLEAN,
           tick_known' \in BOOLEAN,
           UNCHANGED <<known, params, target, procVars, max_order_id, out>>
    PROVE  TypeInv'
    BY DEF TypeInv, TypeOK, OrdersInv, Counted, procVars, Phases

LEMMA DownloadType ==
    ASSUME TypeInv,
           DownloadBegin \/ \E mask \in SUBSET SupportTypes : GatewayStatus(mask)
    PROVE  TypeInv'
<1>1. OrdersInv
    BY DEF TypeInv, TypeOK, OrdersInv
<1>2. CASE DownloadBegin
    <2>1. OrdersInv'
        BY <1>1, <1>2, EraseType DEF DownloadBegin, erase_all_orders
    <2>2. QED
        BY <1>2, <2>1, BookHandlerType
           DEF DownloadBegin, erase_all_orders, Handler, TypeInv, TypeOK
<1>3. ASSUME NEW mask \in SUBSET SupportTypes, GatewayStatus(mask) PROVE TypeInv'
    <2>1. mask \subseteq SupportTypes
        OBVIOUS
    <2>2. orders' = orders \/ orders' = <<>>
        BY <1>3 DEF GatewayStatus, erase_all_orders
    <2>3. OrdersInv'
        BY <1>1, <2>2, EraseType DEF OrdersInv, PricedOrders, Priced
    <2>4. indexed' \subseteq Nat
        BY <1>3 DEF GatewayStatus, erase_all_orders, TypeInv, TypeOK
    <2>5. QED
        BY <1>3, <2>1, <2>3, <2>4, BookHandlerType
           DEF GatewayStatus, Handler, TypeInv, TypeOK, posVars
<1>4. QED
    BY <1>2, <1>3

(* A fill moves the position by lots and may set the ban.                  *)
LEMMA FillsType ==
    ASSUME TypeInv, NEW side, NEW fill \in Int, order_fills(side, fill)
    PROVE  position_by_orders' \in Int /\ ban' \in Nat
<1>1. /\ position_by_orders \in Int /\ ban \in Nat
      /\ params \in ParamSets \cup {DefaultParams}
    BY DEF TypeInv, TypeOK
<1>2. params.post_fill \in Nat
    BY <1>1, ConstantsAssumption DEF DefaultParams
<1>3. Signed(side, fill) \in Int
    BY DEF Signed
<1>4. QED
    BY <1>1, <1>2, <1>3 DEF order_fills

LEMMA UpdatesType ==
    ASSUME TypeInv, NEW u \in OrderUpdate, OrderUpdated(u),
           ~UpdateNotFound(u), ~UpdateIgnored(u)
    PROVE  TypeInv'
<1>1. u \in OrderUpdate
    OBVIOUS
<1>2. u.id \in Nat /\ u.traded \in Nat
    BY DEF OrderUpdate
<1>3. OrdersInv /\ indexed \subseteq Nat
    BY DEF TypeInv, TypeOK, OrdersInv
<1> USE DEF Handler, OrderUpdateFrame, gwVars
<1>4. CASE UpdateErases(u)
    <2>1. OrdersInv' /\ indexed' \subseteq Nat
        BY <1>3, <1>4, EraseType DEF UpdateErases, erase_order
    <2>2. QED
        BY <1>4, <2>1, BookHandlerType DEF UpdateErases, TypeInv, TypeOK
<1>5. CASE UpdateAdds(u)
    <2>1. Reported(u) \in Order /\ Priced(Reported(u))
        BY <1>1, ReportedType DEF Priced
    <2>2. OrdersInv' /\ indexed' \subseteq Nat
        BY <1>2, <1>3, <1>5, <2>1, ChangeType DEF UpdateAdds
    <2>3. QED
        BY <1>5, <2>2, BookHandlerType DEF UpdateAdds, TypeInv, TypeOK
<1>6. CASE order_confirm(u)
    <2>1. u.id \in DOMAIN orders /\ orders[u.id] \in Order
        BY <1>3, <1>6 DEF order_confirm, IsNew, OrdersInv
    <2>2. Confirmed(orders[u.id], u) \in Order /\ Priced(Confirmed(orders[u.id], u))
        BY <1>1, <2>1, ConfirmedType DEF Priced
    <2>3. orders' = [orders EXCEPT ![u.id] = Confirmed(orders[u.id], u)]
        BY <1>6 DEF order_confirm
    <2>4. OrdersInv' /\ indexed' \subseteq Nat
        BY <1>2, <1>3, <1>6, <2>1, <2>2, <2>3, ChangeType DEF order_confirm
    <2>5. u.traded - orders[u.id].traded \in Int
        BY <1>2, <2>1 DEF Order
    <2>6. position_by_orders' \in Int /\ ban' \in Nat
        BY <1>6, <2>5, FillsType DEF order_confirm
    <2>7. QED
        BY <1>6, <2>4, <2>6, BookHandlerType DEF order_confirm, TypeInv, TypeOK
<1>7. CASE order_complete(u)
    <2>1. u.id \in DOMAIN orders /\ orders[u.id] \in Order
        BY <1>3, <1>7 DEF order_complete, IsNew, OrdersInv
    <2>2. OrdersInv' /\ indexed' \subseteq Nat
        BY <1>3, <1>7, EraseType DEF order_complete, erase_order
    <2>3. u.traded - orders[u.id].traded \in Int
        BY <1>2, <2>1 DEF Order
    <2>4. position_by_orders' \in Int /\ ban' \in Nat
        BY <1>7, <2>3, FillsType DEF order_complete
    <2>5. QED
        BY <1>7, <2>2, <2>4, BookHandlerType DEF order_complete, TypeInv, TypeOK
<1>8. CASE order_canceled(u)
    <2>1. OrdersInv' /\ indexed' \subseteq Nat
        BY <1>3, <1>8, EraseType DEF order_canceled, erase_order
    <2>2. params \in ParamSets \cup {DefaultParams} /\ ban \in Nat
        BY DEF TypeInv, TypeOK
    <2>3. ban' \in Nat
        BY <1>8, <2>2, ConstantsAssumption DEF order_canceled, DefaultParams
    <2>4. QED
        BY <1>8, <2>1, <2>3, BookHandlerType DEF order_canceled, TypeInv, TypeOK
<1>9. QED
    BY <1>4, <1>5, <1>6, <1>7, <1>8 DEF OrderUpdated

(* An order whose amendment is refused.                                    *)
LEMMA RefusedType ==
    ASSUME TypeInv, NEW a, Answerable(a), a.type # "CREATE", a.id \in DOMAIN orders,
           NEW r \in {Reverted(orders[a.id]),
                      [Reverted(orders[a.id]) EXCEPT !.rejected = TRUE]}
    PROVE  /\ TooLate(a, r) \in Order
           /\ Priced(TooLate(a, r))
           /\ TooLate(a, r).pending.type = NoRequest
           /\ \/ IsOver(TooLate(a, r))
              \/ TooLate(a, r).expected = State(TooLate(a, r).confirmed)
<1> DEFINE o == orders[a.id]
           t == TooLate(a, r)
<1>1. o \in Order /\ Priced(o)
    BY DEF TypeInv, TypeOK, PricedOrders
<1>2. o.confirmed.version # 0 /\ o.pending.price # NoPrice
    BY DEF Answerable
<1>3. o.pending.price \in Prices
    BY <1>1, <1>2 DEF Order, PendingState, AnyPrice
<1>4. /\ r \in Order
      /\ r.expected = State(r.confirmed)
      /\ r.pending.type = NoRequest
      /\ r.pending.price = o.pending.price
      /\ r.confirmed = o.confirmed
    <2> DEFINE v == Reverted(o)
    <2>1. /\ v \in Order
          /\ v.expected = State(v.confirmed)
          /\ v.pending.type = NoRequest
          /\ v.pending.price = o.pending.price
          /\ v.confirmed = o.confirmed
        BY <1>1, RevertedType
    <2> HIDE DEF v
    <2>2. r = v \/ r = [v EXCEPT !.rejected = TRUE]
        BY DEF v
    <2>3. /\ r \in Order
          /\ r.expected = v.expected
          /\ r.pending = v.pending
          /\ r.confirmed = v.confirmed
        BY <2>1, <2>2, RejectedType
    <2>4. QED
        BY <2>1, <2>3
<1>5. /\ t \in Order
      /\ t.expected = r.expected
      /\ t.pending = r.pending
      /\ t.confirmed.version = r.confirmed.version
      /\ t.confirmed.price \in {r.confirmed.price, r.pending.price}
      /\ t = r \/ IsOver(t)
    BY <1>4, TooLateType
<1>6. o.confirmed.price \in Prices
    BY <1>1, <1>2 DEF Priced
<1>7. r.expected.price = o.confirmed.price
    BY <1>4 DEF State
<1> HIDE DEF o, t
<1>8. Priced(t)
    BY <1>3, <1>4, <1>5, <1>6, <1>7 DEF Priced
<1>9. QED
    BY <1>4, <1>5, <1>8 DEF t

LEMMA AcksType ==
    ASSUME TypeInv, NEW a \in Refusals, Answerable(a), OrderAcked(a), ~AckNotFound(a)
    PROVE  TypeInv'
<1>1. OrdersInv /\ indexed \subseteq Nat /\ a.id \in Nat
    BY DEF TypeInv, TypeOK, OrdersInv, Refusals
<1>2. a.id \in DOMAIN orders /\ AckContinues(a)
    BY DEF OrderAcked, order_create_reject, order_modify_reject,
           order_cancel_reject, AckContinues
<1>3. ban' \in Nat
    BY <1>2, ConstantsAssumption DEF AckContinues, Max2, TypeInv, TypeOK
<1>4. SUFFICES OrdersInv' /\ indexed' \subseteq Nat
    BY <1>2, <1>3, BookHandlerType
       DEF AckContinues, Handler, TypeInv, TypeOK, posVars, gwVars
<1>5. CASE order_create_reject(a)
    BY <1>1, <1>5, EraseType DEF order_create_reject, erase_order
<1>6. CASE order_modify_reject(a)
    <2> DEFINE t == TooLate(a, [Reverted(orders[a.id]) EXCEPT !.rejected = TRUE])
    <2>1. a.type # "CREATE" /\ orders' = [orders EXCEPT ![a.id] = t]
        BY <1>6 DEF order_modify_reject
    <2>2. t \in Order /\ Priced(t)
        BY <1>2, <2>1, RefusedType
    <2> HIDE DEF t
    <2>3. OrdersInv'
        BY <1>1, <1>2, <2>1, <2>2, ChangeType
    <2>4. QED
        BY <1>1, <1>6, <2>3 DEF order_modify_reject
<1>7. CASE order_cancel_reject(a)
    <2> DEFINE t == TooLate(a, Reverted(orders[a.id]))
    <2>1. a.type # "CREATE" /\ orders' = [orders EXCEPT ![a.id] = t]
        BY <1>7 DEF order_cancel_reject
    <2>2. t \in Order /\ Priced(t)
        BY <1>2, <2>1, RefusedType
    <2> HIDE DEF t
    <2>3. OrdersInv'
        BY <1>1, <1>2, <2>1, <2>2, ChangeType
    <2>4. QED
        BY <1>1, <1>7, <2>3 DEF order_cancel_reject
<1>8. QED
    BY <1>5, <1>6, <1>7 DEF OrderAcked

LEMMA OtherTypes ==
    ASSUME TypeInv, OutLeaves \/ Restart \/ UNCHANGED omsVars
    PROVE  TypeInv'
<1>1. CASE OutLeaves
    <2>1. out' \in Seq(Request)
        <3>1. out \in Seq(Request)
            BY DEF TypeInv, TypeOK
        <3>2. out # <<>> => Tail(out) \in Seq(Request)
            BY <3>1
        <3>3. <<>> \in Seq(Request)
            OBVIOUS
        <3>4. QED
            BY <1>1, <3>2, <3>3 DEF OutLeaves
    <2>2. available' \subseteq SupportTypes
        BY <1>1 DEF OutLeaves, TypeInv, TypeOK
    <2>3. QED
        BY <1>1, <2>1, <2>2
           DEF OutLeaves, TypeInv, TypeOK, PricedOrders, Counted,
               bookVars, posVars, procVars
<1>2. CASE Restart
    <2>1. Init'
        BY <1>2 DEF Restart, Init
    <2>2. QED
        BY <2>1, TypeInit, PTL
<1>3. CASE UNCHANGED omsVars
    BY <1>3 DEF omsVars, TypeInv, TypeOK, PricedOrders, Priced, Counted,
                bookVars, posVars, procVars, gwVars
<1>4. QED
    BY <1>1, <1>2, <1>3

LEMMA ProcessType ==
    ASSUME TypeInv, HolesInv, Process
    PROVE  TypeInv'
    BY CountingType, CountOrderType, ModifyType, CancelType, CreateType
       DEF Process

LEMMA HandlesType ==
    ASSUME TypeInv, AnyEvent
    PROVE  TypeInv'
    BY PlainHandlersType, DownloadType, UpdatesType, AcksType DEF AnyEvent

LEMMA TypeStep ==
    ASSUME TypeInv, HolesInv, ManagerStep
    PROVE  TypeInv'
    BY ProcessType, HandlesType, OtherTypes DEF ManagerStep

(* What every event handler leaves alone.                                  *)
QuietStep ==
    /\ phase = "idle"
    /\ phase' \in {"idle", "begin"}
    /\ UNCHANGED procVars
    /\ UNCHANGED out \/ out' = <<>> \/ (out # <<>> /\ out' = Tail(out))

LEMMA HandlesFrame ==
    ASSUME AnyEvent \/ OutLeaves
    PROVE  QuietStep
<1> USE DEF Handler, QuietStep
<1>1. CASE OutLeaves
    BY <1>1 DEF OutLeaves
<1>2. CASE \E u \in OrderUpdate : OrderUpdated(u)
    BY <1>2 DEF OrderUpdated, UpdateNotFound, UpdateErases, UpdateAdds,
                UpdateIgnored, order_confirm, order_complete, order_canceled, OrderUpdateFrame
<1>3. CASE \E a \in Refusals : Answerable(a) /\ OrderAcked(a)
    BY <1>3 DEF OrderAcked, AckNotFound, order_create_reject,
                order_modify_reject, order_cancel_reject, AckContinues
<1>4. CASE DownloadBegin \/ \E mask \in SUBSET SupportTypes : GatewayStatus(mask)
    BY <1>4 DEF DownloadBegin, GatewayStatus
<1>5. CASE \E t \in Targets : TargetQuotes(t)
    BY <1>5 DEF TargetQuotes
<1>6. CASE \E p \in ParamSets : ParametersUpdate(p)
    BY <1>6 DEF ParametersUpdate
<1>7. CASE \/ \E due \in BOOLEAN : Timer(1, due)
           \/ Disconnected \/ TargetsDropped \/ ReferenceData
    BY <1>7 DEF Timer, Disconnected, TargetsDropped, ReferenceData
<1>8. CASE \E d \in Nat : RateLimitTrigger(d)
    BY <1>8 DEF RateLimitTrigger
<1>9. CASE \/ \E last \in Nat : DownloadEnd(last)
           \/ \E x \in Int : PositionUpdate(x)
    BY <1>9 DEF DownloadEnd, PositionUpdate
<1>10. QED
    BY <1>1, <1>2, <1>3, <1>4, <1>5, <1>6, <1>7, <1>8, <1>9 DEF AnyEvent

(* A step is one of process(), one of a handler, a restart or a stutter.   *)
LEMMA Steps ==
    ASSUME ManagerStep
    PROVE  Process \/ QuietStep \/ Init' \/ UNCHANGED omsVars
<1>1. Restart => Init'
    BY DEF Restart, Init
<1>2. QED
    BY <1>1, HandlesFrame DEF ManagerStep

(* What the creating loop still has to fill was missing when it began, and *)
(* nothing changes the sums or the targets meanwhile.                      *)
LEMMA HolesStep ==
    ASSUME HolesInv, ManagerStep
    PROVE  HolesInv'
<1> USE DEF HolesInv, procVars, bookVars, Hole
<1>1. CASE Process
    <2>1. CASE ProcessReturns \/ ProcessBegins \/ CountEnds \/ ProcessEnds
        BY <2>1 DEF ProcessReturns, ProcessBegins, CountAgain, CountEnds, ProcessEnds
    <2>2. CASE AdjustEnds
        BY <2>2 DEF AdjustEnds
    <2>3. ASSUME NEW id \in DOMAIN orders,
                 CountOrder(id) \/ modify_order(id) \/ cancel_order(id)
          PROVE  HolesInv'
        BY <2>3 DEF CountOrder, modify_order, cancel_order, Amend, CountAgain
    <2>4. ASSUME NEW s \in Sides, NEW p \in Prices,
                 create_order(s, p) \/ CreateAsserts(s, p)
          PROVE  HolesInv'
        BY <2>4 DEF create_order, CreateAsserts, NextHole
    <2>5. QED
        BY <1>1, <2>1, <2>2, <2>3, <2>4 DEF Process
<1>2. CASE QuietStep
    BY <1>2 DEF QuietStep
<1>3. CASE Init'
    BY <1>3 DEF Init
<1>4. CASE UNCHANGED omsVars
    BY <1>4 DEF omsVars
<1>5. QED
    BY <1>1, <1>2, <1>3, <1>4, Steps

-----------------------------------------------------------------------------
(* The index by order id.                                                  *)

LEMMA IndexStep ==
    ASSUME indexed = DOMAIN orders, ManagerStep
    PROVE  indexed' = DOMAIN orders'
<1> USE DEF bookVars
<1>1. CASE Process
    <2>1. CASE ProcessReturns \/ ProcessBegins \/ CountEnds \/ AdjustEnds \/ ProcessEnds
        BY <2>1 DEF ProcessReturns, ProcessBegins, CountEnds, AdjustEnds, ProcessEnds
    <2>2. ASSUME NEW id \in DOMAIN orders,
                 CountOrder(id) \/ modify_order(id) \/ cancel_order(id)
          PROVE  indexed' = DOMAIN orders'
        BY <2>2 DEF CountOrder, modify_order, cancel_order, Amend
    <2>3. ASSUME NEW s \in Sides, NEW p \in Prices,
                 create_order(s, p) \/ CreateAsserts(s, p)
          PROVE  indexed' = DOMAIN orders'
        BY <2>3 DEF create_order, CreateAsserts, Put
    <2>4. QED
        BY <1>1, <2>1, <2>2, <2>3 DEF Process
<1>2. CASE AnyEvent
    <2>1. CASE \E u \in OrderUpdate : OrderUpdated(u)
        BY <2>1 DEF OrderUpdated, UpdateNotFound, UpdateErases, UpdateAdds,
                    UpdateIgnored, IsNew,
                    order_confirm, order_complete, order_canceled, erase_order,
                    Put, Drop
    <2>2. CASE \E a \in Refusals : Answerable(a) /\ OrderAcked(a)
        BY <2>2 DEF OrderAcked, AckNotFound, order_create_reject,
                    order_modify_reject, order_cancel_reject, erase_order, Drop
    <2>3. CASE DownloadBegin \/ \E mask \in SUBSET SupportTypes : GatewayStatus(mask)
        <3>1. \/ orders' = <<>> /\ indexed' = indexed \ DOMAIN orders
              \/ UNCHANGED <<orders, indexed>>
            BY <2>3 DEF DownloadBegin, GatewayStatus, erase_all_orders
        <3>2. DOMAIN <<>> = {}
            OBVIOUS
        <3>3. QED
            BY <3>1, <3>2
    <2>4. CASE \/ \E t \in Targets : TargetQuotes(t)
               \/ \E p \in ParamSets : ParametersUpdate(p)
               \/ \E due \in BOOLEAN : Timer(1, due)
               \/ \E d \in Nat : RateLimitTrigger(d)
        BY <2>4 DEF TargetQuotes, ParametersUpdate, Timer, RateLimitTrigger
    <2>5. CASE \/ Disconnected \/ TargetsDropped \/ ReferenceData
               \/ \E last \in Nat : DownloadEnd(last)
        BY <2>5 DEF Disconnected, TargetsDropped, ReferenceData, DownloadEnd
    <2>6. ASSUME NEW x \in Int, PositionUpdate(x)
          PROVE  UNCHANGED <<orders, indexed>>
        BY <2>6 DEF PositionUpdate
    <2>7. QED
        BY <1>2, <2>1, <2>2, <2>3, <2>4, <2>5, <2>6 DEF AnyEvent
<1>3. CASE OutLeaves \/ UNCHANGED omsVars
    BY <1>3 DEF OutLeaves, omsVars
<1>4. CASE Restart
    BY <1>4 DEF Restart
<1>5. QED
    BY <1>1, <1>2, <1>3, <1>4 DEF ManagerStep

-----------------------------------------------------------------------------
(* When requests may leave.                                                *)

(* The checks made on entry hold until process() returns.                  *)
Allowed ==
    phase \in {"count", "adjust", "place"} =>
        known /\ ban = 0 /\ IsReady({"CREATE", "CANCEL"})

LEMMA AllowedStep ==
    ASSUME Allowed, ManagerStep
    PROVE  Allowed'
<1> USE DEF Allowed, IsReady, bookVars, gwVars
<1>1. CASE Process
    <2>1. CASE ProcessReturns \/ ProcessBegins \/ CountEnds \/ AdjustEnds \/ ProcessEnds
        BY <2>1 DEF ProcessReturns, ProcessBegins, CountEnds, AdjustEnds, ProcessEnds
    <2>2. ASSUME NEW id \in DOMAIN orders,
                 CountOrder(id) \/ modify_order(id) \/ cancel_order(id)
          PROVE  Allowed'
        BY <2>2 DEF CountOrder, modify_order, cancel_order, Amend
    <2>3. ASSUME NEW s \in Sides, NEW p \in Prices,
                 create_order(s, p) \/ CreateAsserts(s, p)
          PROVE  Allowed'
        BY <2>3 DEF create_order, CreateAsserts, NextHole
    <2>4. QED
        BY <1>1, <2>1, <2>2, <2>3 DEF Process
<1>2. CASE QuietStep
    BY <1>2 DEF QuietStep
<1>3. CASE Init'
    BY <1>3 DEF Init
<1>4. CASE UNCHANGED omsVars
    BY <1>4 DEF omsVars
<1>5. QED
    BY <1>1, <1>2, <1>3, <1>4, Steps

(* Requests leave only when they may.                                      *)
SendsAllowed ==
    Len(out') > Len(out) =>
        known /\ ban = 0 /\ ~downloading /\ out'[Len(out')].type \in available

LEMMA RequestedPending ==
    ASSUME NEW o \in Order, NEW type, NEW p, NEW q
    PROVE  Requested(o, type, p, q).pending.type = type
    BY DEF Requested, Order

LEMMA SendLast ==
    ASSUME out \in Seq(Request), NEW id, NEW o, Send(id, o)
    PROVE  out'[Len(out')].type = o.pending.type
    BY DEF Send

LEMMA SendsStep ==
    ASSUME TypeInv, Allowed, ManagerStep
    PROVE  SendsAllowed
<1>1. CASE UNCHANGED out \/ out' = <<>> \/ (out # <<>> /\ out' = Tail(out))
    BY <1>1 DEF SendsAllowed, TypeInv, TypeOK
<1>2. out \in Seq(Request) /\ \A id \in DOMAIN orders : orders[id] \in Order
    BY DEF TypeInv, TypeOK
<1>3. ASSUME NEW id \in DOMAIN orders, modify_order(id)
      PROVE  SendsAllowed
    <2>1. PICK p \in HolesOf(orders[id].side) :
              Amend(id, Requested(orders[id], "MODIFY", p, Hole(orders[id].side, p)))
        BY <1>3 DEF modify_order
    <2> DEFINE o == Requested(orders[id], "MODIFY", p, Hole(orders[id].side, p))
    <2>2. o.pending.type = "MODIFY"
        BY <1>2, RequestedPending
    <2>3. Send(id, o)
        BY <2>1 DEF Amend
    <2> HIDE DEF o
    <2>4. out'[Len(out')].type = "MODIFY"
        BY <1>2, <2>2, <2>3, SendLast
    <2>5. QED
        BY <1>3, <2>4 DEF SendsAllowed, Allowed, modify_order, can_modify, IsReady
<1>4. ASSUME NEW id \in DOMAIN orders, cancel_order(id)
      PROVE  SendsAllowed
    <2> DEFINE o == Requested(orders[id], "CANCEL", orders[id].expected.price, 0)
    <2>1. Send(id, o)
        BY <1>4 DEF cancel_order, Amend
    <2>2. o.pending.type = "CANCEL"
        BY <1>2, RequestedPending
    <2> HIDE DEF o
    <2>3. out'[Len(out')].type = "CANCEL"
        BY <1>2, <2>1, <2>2, SendLast
    <2>4. QED
        BY <1>4, <2>3 DEF SendsAllowed, Allowed, cancel_order, IsReady
<1>5. ASSUME NEW s \in Sides, NEW p \in Prices, create_order(s, p)
      PROVE  SendsAllowed
    <2>1. Send(max_order_id + 1, Created(s, p))
        BY <1>5 DEF create_order
    <2>2. Created(s, p).pending.type = "CREATE"
        BY DEF Created
    <2>3. out'[Len(out')].type = "CREATE"
        BY <1>2, <2>1, <2>2, SendLast
    <2>4. QED
        BY <1>5, <2>3 DEF SendsAllowed, Allowed, create_order, NextHole, IsReady
<1>6. QED
    <2>1. CASE QuietStep \/ Init' \/ UNCHANGED omsVars
        BY <1>1, <2>1 DEF QuietStep, Init, omsVars
    <2>2. CASE Process
        BY <1>1, <1>3, <1>4, <1>5, <2>2
           DEF Process, ProcessReturns, ProcessBegins, CountEnds, AdjustEnds,
               ProcessEnds, CountOrder, CreateAsserts
    <2>3. QED
        BY <2>1, <2>2, Steps

-----------------------------------------------------------------------------
(* What is expected of an order.                                           *)

Believed(o) ==
    ~IsOver(o) =>
        o.expected = IF IsPending(o) THEN State(o.pending) ELSE State(o.confirmed)

BelievedOrders == \A id \in DOMAIN orders : Believed(orders[id])

LEMMA BelievedRequest ==
    ASSUME NEW o, o.expected = State(o.pending), o.pending.type # NoRequest
    PROVE  Believed(o)
    BY DEF Believed, IsPending

LEMMA BelievedReport ==
    ASSUME NEW o, o.expected = State(o.confirmed), o.pending.type = NoRequest
    PROVE  Believed(o)
    BY DEF Believed, IsPending

LEMMA BelievedChange ==
    ASSUME OrdersInv, \A i \in DOMAIN orders : Believed(orders[i]),
           NEW id, NEW o, Believed(o),
           \/ orders' = Put(orders, id, o)
           \/ id \in DOMAIN orders /\ orders' = [orders EXCEPT ![id] = o]
    PROVE  \A i \in DOMAIN orders' : Believed(orders'[i])
    BY DEF Put, OrdersInv

LEMMA BelievedStep ==
    ASSUME TypeInv, HolesInv, BelievedOrders, ManagerStep
    PROVE  BelievedOrders'
<1>1. \A i \in DOMAIN orders : Believed(orders[i])
    BY DEF BelievedOrders
<1>2. SUFFICES \A i \in DOMAIN orders' : Believed(orders'[i])
    BY DEF BelievedOrders, Believed, IsOver, IsPending, State
<1>3. OrdersInv /\ \A id \in DOMAIN orders : orders[id] \in Order /\ Priced(orders[id])
    BY DEF TypeInv, TypeOK, OrdersInv, PricedOrders
<1> USE DEF bookVars
<1>4. CASE UNCHANGED orders \/ orders' = <<>>
    BY <1>1, <1>4
<1>5. ASSUME NEW id, orders' = Drop(orders, id)
      PROVE  \A i \in DOMAIN orders' : Believed(orders'[i])
    BY <1>1, <1>5 DEF Drop
<1>6. ASSUME NEW id \in DOMAIN orders, modify_order(id)
      PROVE  \A i \in DOMAIN orders' : Believed(orders'[i])
    <2>1. PICK p \in HolesOf(orders[id].side) :
              Amend(id, Requested(orders[id], "MODIFY", p, Hole(orders[id].side, p)))
        BY <1>6 DEF modify_order
    <2> DEFINE q == Hole(orders[id].side, p)
               o == Requested(orders[id], "MODIFY", p, q)
    <2>2. p \in Prices /\ q \in Nat
        BY <1>3, <2>1, HoleType DEF HolesOf, TypeInv, Order
    <2>3. o.expected = State(o.pending) /\ o.pending.type = "MODIFY"
        BY <1>3, <2>2, RequestedType DEF RequestTypes
    <2>4. orders' = [orders EXCEPT ![id] = o]
        BY <2>1 DEF Amend
    <2> HIDE DEF o
    <2>5. QED
        BY <1>1, <1>3, <2>3, <2>4, BelievedRequest, BelievedChange DEF NoRequest
<1>7. ASSUME NEW id \in DOMAIN orders, cancel_order(id)
      PROVE  \A i \in DOMAIN orders' : Believed(orders'[i])
    <2> DEFINE o == Requested(orders[id], "CANCEL", orders[id].expected.price, 0)
    <2>1. o.expected = State(o.pending) /\ o.pending.type = "CANCEL"
        BY <1>3, RequestedType DEF RequestTypes, Priced
    <2>2. orders' = [orders EXCEPT ![id] = o]
        BY <1>7 DEF cancel_order, Amend
    <2> HIDE DEF o
    <2>3. QED
        BY <1>1, <1>3, <2>1, <2>2, BelievedRequest, BelievedChange DEF NoRequest
<1>8. ASSUME NEW s \in Sides, NEW p \in Prices, create_order(s, p)
      PROVE  \A i \in DOMAIN orders' : Believed(orders'[i])
    <2> DEFINE o == Created(s, p)
    <2>1. o.expected = State(o.pending) /\ o.pending.type = "CREATE"
        BY DEF Created, State
    <2>2. orders' = Put(orders, max_order_id + 1, o)
        BY <1>8 DEF create_order
    <2> HIDE DEF o
    <2>3. QED
        BY <1>1, <1>3, <2>1, <2>2, BelievedRequest, BelievedChange DEF NoRequest
<1>9. ASSUME NEW u \in OrderUpdate, OrderUpdated(u)
      PROVE  \A i \in DOMAIN orders' : Believed(orders'[i])
    <2>1. CASE UpdateAdds(u)
        <3>1. Believed(Reported(u))
            BY ReportedType, BelievedReport
        <3>2. orders' = Put(orders, u.id, Reported(u))
            BY <2>1 DEF UpdateAdds
        <3>3. QED
            BY <1>1, <1>3, <3>1, <3>2, BelievedChange
    <2>2. CASE order_confirm(u)
        <3> DEFINE o == Confirmed(orders[u.id], u)
        <3>1. u.id \in DOMAIN orders /\ orders' = [orders EXCEPT ![u.id] = o]
            BY <2>2 DEF order_confirm, IsNew
        <3>2. o.expected = State(o.confirmed) /\ o.pending.type = NoRequest
            BY <1>3, <3>1, ConfirmedType
        <3> HIDE DEF o
        <3>3. QED
            BY <1>1, <1>3, <3>1, <3>2, BelievedReport, BelievedChange
    <2>3. CASE UpdateNotFound(u) \/ UpdateIgnored(u)
        BY <1>4, <2>3 DEF UpdateNotFound, UpdateIgnored
    <2>4. CASE UpdateErases(u) \/ order_complete(u) \/ order_canceled(u)
        <3>1. orders' = Drop(orders, u.id)
            BY <2>4 DEF UpdateErases, order_complete, order_canceled, erase_order
        <3>2. QED
            BY <1>5, <3>1
    <2>5. QED
        BY <1>9, <2>1, <2>2, <2>3, <2>4 DEF OrderUpdated
<1>10. ASSUME NEW a \in Refusals, Answerable(a), OrderAcked(a)
       PROVE  \A i \in DOMAIN orders' : Believed(orders'[i])
    <2>1. CASE order_modify_reject(a) \/ order_cancel_reject(a)
        <3>1. a.id \in DOMAIN orders /\ a.type # "CREATE"
            BY <2>1 DEF order_modify_reject, order_cancel_reject, AckContinues
        <3>2. PICK r \in {Reverted(orders[a.id]),
                          [Reverted(orders[a.id]) EXCEPT !.rejected = TRUE]} :
                  orders' = [orders EXCEPT ![a.id] = TooLate(a, r)]
            BY <2>1 DEF order_modify_reject, order_cancel_reject
        <3>3. Believed(TooLate(a, r))
            BY <1>10, <3>1, RefusedType, BelievedReport DEF Believed
        <3>4. QED
            BY <1>1, <1>3, <3>1, <3>2, <3>3, BelievedChange
    <2>2. CASE order_create_reject(a)
        BY <1>5, <2>2 DEF order_create_reject, erase_order
    <2>3. CASE AckNotFound(a)
        BY <1>4, <2>3 DEF AckNotFound
    <2>4. QED
        BY <1>10, <2>1, <2>2, <2>3 DEF OrderAcked
<1>11. ASSUME NEW id \in DOMAIN orders, CountOrder(id) PROVE UNCHANGED orders
    BY <1>11 DEF CountOrder
<1>12. ASSUME NEW s \in Sides, NEW p \in Prices, CreateAsserts(s, p) PROVE UNCHANGED orders
    BY <1>12 DEF CreateAsserts
<1>13. CASE Process
    BY <1>4, <1>6, <1>7, <1>8, <1>11, <1>12, <1>13
       DEF Process, ProcessReturns, ProcessBegins, CountEnds, AdjustEnds, ProcessEnds
<1>14. CASE AnyEvent
    <2>1. CASE \/ \E t \in Targets : TargetQuotes(t)
               \/ \E p \in ParamSets : ParametersUpdate(p)
               \/ \E due \in BOOLEAN : Timer(1, due)
               \/ \E d \in Nat : RateLimitTrigger(d)
        BY <1>4, <2>1 DEF TargetQuotes, ParametersUpdate, Timer, RateLimitTrigger
    <2>2. CASE \/ Disconnected \/ TargetsDropped \/ ReferenceData
               \/ \E last \in Nat : DownloadEnd(last)
               \/ \E x \in Int : PositionUpdate(x)
        BY <1>4, <2>2 DEF Disconnected, TargetsDropped, ReferenceData,
                          DownloadEnd, PositionUpdate
    <2>3. CASE DownloadBegin \/ \E mask \in SUBSET SupportTypes : GatewayStatus(mask)
        BY <1>4, <2>3 DEF DownloadBegin, GatewayStatus, erase_all_orders
    <2>4. QED
        BY <1>9, <1>10, <1>14, <2>1, <2>2, <2>3 DEF AnyEvent
<1>15. CASE OutLeaves \/ Restart \/ UNCHANGED omsVars
    BY <1>4, <1>15 DEF OutLeaves, Restart, omsVars
<1>16. QED
    BY <1>13, <1>14, <1>15 DEF ManagerStep

-----------------------------------------------------------------------------
(* Where orders may be created.                                            *)

Waits(o) == IsPending(o) /\ ~IsOver(o)

(* The counters miss no request under way among the orders visited.        *)
CountInv ==
    phase \in {"count", "adjust"} =>
        \A id \in DOMAIN orders \ uncounted :
            Waits(orders[id]) => pending[orders[id].side] > 0

LEMMA CountStep ==
    ASSUME TypeInv, CountInv, ManagerStep
    PROVE  CountInv'
<1>1. CASE QuietStep \/ Init' \/ UNCHANGED omsVars
    BY <1>1 DEF CountInv, QuietStep, Init, omsVars, bookVars, procVars,
                Waits, IsPending, IsOver
<1>2. CASE ProcessReturns \/ AdjustEnds \/ ProcessEnds
    BY <1>2 DEF ProcessReturns, AdjustEnds, ProcessEnds, CountInv
<1>3. CASE ProcessBegins
    BY <1>3 DEF ProcessBegins, CountAgain, CountInv, bookVars
<1>4. CASE CountEnds
    BY <1>4 DEF CountEnds, CountInv, bookVars, procVars, Waits, IsPending, IsOver
<1>5. ASSUME NEW id \in DOMAIN orders, modify_order(id) \/ cancel_order(id)
      PROVE  CountInv'
    <2>1. PICK o : orders' = [orders EXCEPT ![id] = o] /\ CountAgain(orders)
        BY <1>5 DEF modify_order, cancel_order, Amend
    <2>2. DOMAIN orders' \ uncounted' = {}
        BY <2>1 DEF CountAgain
    <2>3. QED
        BY <2>2 DEF CountInv
<1>6. ASSUME NEW s \in Sides, NEW p \in Prices, create_order(s, p) \/ CreateAsserts(s, p)
      PROVE  CountInv'
    BY <1>6 DEF create_order, CreateAsserts, NextHole, CountInv
<1>7. ASSUME NEW id \in DOMAIN orders, CountOrder(id)
      PROVE  CountInv'
    <2>1. /\ pending \in [Sides -> Nat]
          /\ \A i \in DOMAIN orders : orders[i].side \in Sides
        BY DEF TypeInv, TypeOK, Order
    <2>2. /\ phase = "count" /\ phase' = "count"
          /\ UNCHANGED orders
          /\ uncounted' = uncounted \ {id}
        BY <1>7 DEF CountOrder, bookVars
    <2>3. \A s \in Sides : pending'[s] >= pending[s]
        BY <1>7, <2>1 DEF CountOrder
    <2>4. Waits(orders[id]) => pending'[orders[id].side] > 0
        BY <1>7, <2>1 DEF CountOrder, Waits
    <2>5. ASSUME NEW i \in DOMAIN orders \ (uncounted \ {id}), Waits(orders[i])
          PROVE  pending'[orders[i].side] > 0
        <3>1. CASE i = id
            BY <2>4, <2>5, <3>1
        <3>2. CASE i # id
            <4>1. pending[orders[i].side] > 0
                BY <2>2, <2>5, <3>2 DEF CountInv
            <4>2. pending'[orders[i].side] \in Int
                BY <1>7, <2>1 DEF CountOrder
            <4>3. QED
                BY <2>1, <2>3, <4>1, <4>2
        <3>3. QED
            BY <3>1, <3>2
    <2>6. QED
        BY <2>2, <2>5 DEF CountInv, Waits, IsPending, IsOver
<1>8. CASE Process
    BY <1>2, <1>3, <1>4, <1>5, <1>6, <1>7, <1>8 DEF Process
<1>9. QED
    BY <1>1, <1>8, Steps

=============================================================================
