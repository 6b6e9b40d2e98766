------------------------- MODULE OmsExchangeProof -------------------------
(***************************************************************************)
(* Proofs about the order manager and its exchange, for every value of the *)
(* constants: first the types, the order of the requests and the asserts,  *)
(* then that the book and the exchange agree once every message has been   *)
(* handled, then that the position counted from the fills is the           *)
(* account's, when the gateway tells a fill apart from the cancellation of *)
(* the rest, and last that new orders fit into their levels, when orders   *)
(* are filled whole.                                                       *)
(***************************************************************************)
EXTENDS OmsProperties, OmsLemmas, DataLemmas, SequenceTheorems

USE DEF Quantity

(* The events of the inbox.                                                *)
Reports == [kind : {"OrderUpdate"}, value : OrderUpdate]
Statuses == [kind : {"GatewayStatus"}, value : Masks]
PositionUpdates == [kind : {"PositionUpdate"}, value : Int]
DownloadMarks ==
    [kind : {"DownloadBegin", "ReferenceData"}, value : {0}]
        \cup [kind : {"DownloadEnd"}, value : 0..MaxOrderId]
Events == Reports \cup Statuses \cup PositionUpdates \cup DownloadMarks

LiveOrder == [side : Sides, price : Prices, remaining : Nat,
              traded : Nat, accepted : Nat]

(* The messages about an order, by their places.                           *)
News(id) == {i \in DOMAIN inbox :
                inbox[i].kind = "OrderUpdate" /\ inbox[i].value.id = id}
Asked(id) == {k \in DOMAIN out : out[k].id = id}
Refused(id) == {k \in DOMAIN acks : acks[k].id = id}

Begins == {i \in DOMAIN inbox : inbox[i].kind = "DownloadBegin"}
Ends == {i \in DOMAIN inbox : inbox[i].kind = "DownloadEnd"}

IsFinal(u) == u.status \in {"COMPLETED", "CANCELED"}

(* The order has been confirmed and asked for something since it was.      *)
WasAsked(o) == o.confirmed.version # 0 /\ o.pending.price # NoPrice
-----------------------------------------------------------------------------
(* The inductive invariant, in parts.                                      *)

XTypes ==
    /\ DOMAIN live \subseteq Ids
    /\ live \in [DOMAIN live -> LiveOrder]
    /\ seen \in [Ids -> 0..MaxVersion]
    /\ position \in Int
    /\ inbox \in Seq(Events)
    /\ acks \in Seq(Refusals)
    /\ linked \in BOOLEAN

BoundsInv ==
    /\ DOMAIN used = DOMAIN Budget
    /\ \A what \in DOMAIN Budget : used[what] \in 0..Budget[what]

(* What is not connected has nothing under way.                            *)
LinkInv ==
    /\ ~linked => /\ available = {}
                  /\ out = <<>> /\ inbox = <<>> /\ acks = <<>>
    /\ available # {} => available \in Masks

(* The ids known to the exchange are skipped: while a download is on its   *)
(* way its end tells of them, and no request is sent.                      *)
DownloadInv ==
    /\ \A i \in Begins : i = 1 /\ available = {} /\ Ends # {}
    /\ \A i \in Ends :
          /\ \A j \in Ends : j = i
          /\ out = <<>> /\ acks = <<>>
          /\ downloading \/ Begins # {}
          /\ \A id \in Ids : seen[id] > 0 => id <= inbox[i].value
          /\ \A id \in Ids : \A j \in News(id) : inbox[j].value.response = seen[id]
    /\ linked /\ Ends = {} => \A id \in Ids : seen[id] > 0 => id <= max_order_id

IdsInv ==
    /\ max_order_id <= MaxOrderId
    /\ \A id \in DOMAIN orders : id \in Ids /\ (id <= max_order_id \/ seen[id] > 0)
    /\ \A k \in DOMAIN out : out[k].id \in Ids /\ out[k].id <= max_order_id
    /\ \A i \in DOMAIN inbox :
          inbox[i].kind = "OrderUpdate" => inbox[i].value.id \in Ids
    /\ \A k \in DOMAIN acks : acks[k].id \in Ids

(* The versions of an order only grow on their way.                        *)
VersionsInv ==
    /\ \A id \in DOMAIN orders :
          /\ orders[id].pending.version >= 1
          /\ orders[id].pending.version >= seen[id]
          /\ \A k \in Asked(id) : orders[id].pending.version >= out[k].version
    /\ \A k \in DOMAIN out :
          /\ out[k].version > seen[out[k].id]
          /\ out[k].version <= MaxVersion
          /\ out[k].price \in Prices
          /\ out[k].type = "CREATE" <=> out[k].version = 1
          /\ \A l \in Asked(out[k].id) : l > k => out[l].version > out[k].version
    /\ \A id \in DOMAIN live : seen[id] >= 1 /\ live[id].accepted >= 1
    /\ \A id \in Ids : \A i \in News(id) :
          /\ 1 <= inbox[i].value.response /\ inbox[i].value.response <= seen[id]
          /\ inbox[i].value.accepted >= 1
          /\ ~inbox[i].value.stale
          /\ inbox[i].value.status \in {"WORKING", "COMPLETED", "CANCELED"}
    /\ \A k \in DOMAIN acks : seen[acks[k].id] >= 1

(* Nothing follows the final update of an order.                           *)
FinalInv ==
    \A id \in Ids : \A i \in News(id) :
        IsFinal(inbox[i].value) =>
            id \notin DOMAIN live /\ \A j \in News(id) : j <= i

(* Requests and refusals for what the book has forgotten concern orders    *)
(* that are gone at the exchange, and of which nothing more is told.       *)
ForgottenInv ==
    /\ \A k \in DOMAIN out :
          out[k].id \notin DOMAIN orders =>
             /\ out[k].type # "CREATE"
             /\ out[k].id \notin DOMAIN live
             /\ News(out[k].id) = {}
    /\ \A k \in DOMAIN acks :
          /\ acks[k].type = "CREATE" \/ acks[k].id \notin DOMAIN orders =>
                acks[k].id \notin DOMAIN live /\ News(acks[k].id) = {}
          /\ acks[k].error = "TOO_LATE_TO_MODIFY_OR_CANCEL" =>
                acks[k].type # "CREATE" /\ acks[k].id \notin DOMAIN live
    /\ \A id \in Ids : \A i \in News(id) :
          id \notin DOMAIN orders /\ inbox[i].value.status = "WORKING" =>
             inbox[i].value.response = seen[id] /\ Asked(id) = {}

(* Only confirmed orders are amended.                                      *)
AmendedInv ==
    /\ \A k \in DOMAIN out :
          out[k].type # "CREATE" /\ out[k].id \in DOMAIN orders
             => WasAsked(orders[out[k].id])
    /\ \A k \in DOMAIN acks :
          acks[k].type # "CREATE" /\ acks[k].id \in DOMAIN orders
             => WasAsked(orders[acks[k].id])

ManagerInv == TypeInv /\ HolesInv /\ Allowed /\ (indexed = DOMAIN orders)

PathsInv ==
    /\ XTypes /\ LinkInv /\ DownloadInv /\ IdsInv
    /\ VersionsInv /\ FinalInv /\ ForgottenInv /\ AmendedInv

Inv == ManagerInv /\ BoundsInv /\ PathsInv
-----------------------------------------------------------------------------
(* Sequences at one end and at the other.                                  *)

LEMMA AppendFacts ==
    ASSUME NEW S, NEW s \in Seq(S), NEW e \in S
    PROVE  /\ Append(s, e) \in Seq(S)
           /\ Len(s) \in Nat
           /\ DOMAIN s = 1..Len(s)
           /\ DOMAIN Append(s, e) = 1..Len(s) + 1
           /\ \A i \in DOMAIN s : Append(s, e)[i] = s[i]
           /\ Append(s, e)[Len(s) + 1] = e
    OBVIOUS

LEMMA TailFacts ==
    ASSUME NEW S, NEW s \in Seq(S), s # <<>>
    PROVE  /\ Tail(s) \in Seq(S)
           /\ Len(s) \in Nat \ {0}
           /\ DOMAIN s = 1..Len(s)
           /\ DOMAIN Tail(s) = 1..Len(s) - 1
           /\ \A i \in DOMAIN Tail(s) : Tail(s)[i] = s[i + 1]
           /\ Head(s) = s[1]
           /\ Head(s) \in S
    OBVIOUS

LEMMA EmptyFacts == DOMAIN <<>> = {} /\ Len(<<>>) = 0
    OBVIOUS

(* What arrives at the end of the inbox.                                   *)
Grows(e) ==
    LET n == Len(inbox) + 1
    IN  /\ inbox' \in Seq(Events)
        /\ n \in Nat \ DOMAIN inbox
        /\ DOMAIN inbox' = DOMAIN inbox \cup {n}
        /\ \A i \in DOMAIN inbox : i \in Nat /\ i < n /\ inbox'[i] = inbox[i]
        /\ inbox'[n] = e
        /\ Begins' = IF e.kind = "DownloadBegin" THEN Begins \cup {n} ELSE Begins
        /\ Ends' = IF e.kind = "DownloadEnd" THEN Ends \cup {n} ELSE Ends
        /\ \A id : News(id)' = IF e.kind = "OrderUpdate" /\ e.value.id = id
                               THEN News(id) \cup {n} ELSE News(id)

LEMMA GrowsFacts ==
    ASSUME inbox \in Seq(Events), NEW e \in Events, inbox' = Append(inbox, e)
    PROVE  Grows(e)
<1> DEFINE n == Len(inbox) + 1
<1>1. /\ inbox' \in Seq(Events)
      /\ n \in Nat \ DOMAIN inbox
      /\ DOMAIN inbox' = DOMAIN inbox \cup {n}
      /\ \A i \in DOMAIN inbox : i \in Nat /\ i < n /\ inbox'[i] = inbox[i]
      /\ inbox'[n] = e
    BY AppendFacts
<1> HIDE DEF n
<1>2. \A id : News(id)' = IF e.kind = "OrderUpdate" /\ e.value.id = id
                          THEN News(id) \cup {n} ELSE News(id)
    BY <1>1 DEF News
<1>3. /\ Begins' = IF e.kind = "DownloadBegin" THEN Begins \cup {n} ELSE Begins
      /\ Ends' = IF e.kind = "DownloadEnd" THEN Ends \cup {n} ELSE Ends
    BY <1>1 DEF Begins, Ends
<1>4. QED
    BY <1>1, <1>2, <1>3 DEF Grows, n

(* What is taken from its head.                                            *)
Shrinks ==
    /\ inbox' \in Seq(Events)
    /\ 1 \in DOMAIN inbox
    /\ \A i \in DOMAIN inbox : i \in Nat \ {0} /\ (i # 1 => i - 1 \in DOMAIN inbox')
    /\ \A i \in DOMAIN inbox' :
          i \in Nat \ {0} /\ i + 1 \in DOMAIN inbox /\ inbox'[i] = inbox[i + 1]
    /\ Begins' = {i \in DOMAIN inbox' : i + 1 \in Begins}
    /\ Ends' = {i \in DOMAIN inbox' : i + 1 \in Ends}
    /\ \A id : News(id)' = {i \in DOMAIN inbox' : i + 1 \in News(id)}

LEMMA ShrinksFacts ==
    ASSUME inbox \in Seq(Events), inbox # <<>>, inbox' = Tail(inbox)
    PROVE  Shrinks
<1>1. /\ inbox' \in Seq(Events)
      /\ 1 \in DOMAIN inbox
      /\ \A i \in DOMAIN inbox : i \in Nat \ {0} /\ (i # 1 => i - 1 \in DOMAIN inbox')
      /\ \A i \in DOMAIN inbox' :
            i \in Nat \ {0} /\ i + 1 \in DOMAIN inbox /\ inbox'[i] = inbox[i + 1]
    BY TailFacts
<1>2. \A id : News(id)' = {i \in DOMAIN inbox' : i + 1 \in News(id)}
    BY <1>1 DEF News
<1>3. /\ Begins' = {i \in DOMAIN inbox' : i + 1 \in Begins}
      /\ Ends' = {i \in DOMAIN inbox' : i + 1 \in Ends}
    BY <1>1 DEF Begins, Ends
<1>4. QED
    BY <1>1, <1>2, <1>3 DEF Shrinks

(* The same of the requests and of the refusals.                           *)
OutGrows(r) ==
    LET n == Len(out) + 1
    IN  /\ n \in Nat \ DOMAIN out
        /\ DOMAIN out' = DOMAIN out \cup {n}
        /\ \A k \in DOMAIN out : k \in Nat /\ k < n /\ out'[k] = out[k]
        /\ out'[n] = r
        /\ out' # <<>>
        /\ \A id : Asked(id)' = IF r.id = id THEN Asked(id) \cup {n} ELSE Asked(id)

LEMMA OutGrowsFacts ==
    ASSUME out \in Seq(Request), NEW r \in Request, out' = Append(out, r)
    PROVE  OutGrows(r)
<1> DEFINE n == Len(out) + 1
<1>1. /\ n \in Nat \ DOMAIN out
      /\ DOMAIN out' = DOMAIN out \cup {n}
      /\ \A k \in DOMAIN out : k \in Nat /\ k < n /\ out'[k] = out[k]
      /\ out'[n] = r
      /\ out' # <<>>
    BY AppendFacts, EmptyFacts
<1> HIDE DEF n
<1>2. \A id : Asked(id)' = IF r.id = id THEN Asked(id) \cup {n} ELSE Asked(id)
    BY <1>1 DEF Asked
<1>3. QED
    BY <1>1, <1>2 DEF OutGrows, n

OutShrinks ==
    /\ 1 \in DOMAIN out
    /\ Head(out) = out[1]
    /\ \A k \in DOMAIN out : k \in Nat \ {0} /\ (k # 1 => k - 1 \in DOMAIN out')
    /\ \A k \in DOMAIN out' :
          k \in Nat \ {0} /\ k + 1 \in DOMAIN out /\ out'[k] = out[k + 1]
    /\ \A id : Asked(id)' = {k \in DOMAIN out' : k + 1 \in Asked(id)}

LEMMA OutShrinksFacts ==
    ASSUME out \in Seq(Request), out # <<>>, out' = Tail(out)
    PROVE  OutShrinks
<1>1. /\ 1 \in DOMAIN out
      /\ Head(out) = out[1]
      /\ \A k \in DOMAIN out : k \in Nat \ {0} /\ (k # 1 => k - 1 \in DOMAIN out')
      /\ \A k \in DOMAIN out' :
            k \in Nat \ {0} /\ k + 1 \in DOMAIN out /\ out'[k] = out[k + 1]
    BY TailFacts
<1>2. \A id : Asked(id)' = {k \in DOMAIN out' : k + 1 \in Asked(id)}
    BY <1>1 DEF Asked
<1>3. QED
    BY <1>1, <1>2 DEF OutShrinks

AcksGrow(a) ==
    LET n == Len(acks) + 1
    IN  /\ acks' \in Seq(Refusals)
        /\ n \in Nat \ DOMAIN acks
        /\ DOMAIN acks' = DOMAIN acks \cup {n}
        /\ \A k \in DOMAIN acks : acks'[k] = acks[k]
        /\ acks'[n] = a
        /\ \A id : Refused(id)' = IF a.id = id THEN Refused(id) \cup {n} ELSE Refused(id)

LEMMA AcksGrowFacts ==
    ASSUME acks \in Seq(Refusals), NEW a \in Refusals, acks' = Append(acks, a)
    PROVE  AcksGrow(a)
<1> DEFINE n == Len(acks) + 1
<1>1. /\ acks' \in Seq(Refusals)
      /\ n \in Nat \ DOMAIN acks
      /\ DOMAIN acks' = DOMAIN acks \cup {n}
      /\ \A k \in DOMAIN acks : acks'[k] = acks[k]
      /\ acks'[n] = a
    BY AppendFacts
<1> HIDE DEF n
<1>2. \A id : Refused(id)' = IF a.id = id THEN Refused(id) \cup {n} ELSE Refused(id)
    BY <1>1 DEF Refused
<1>3. QED
    BY <1>1, <1>2 DEF AcksGrow, n

AcksShrink ==
    /\ acks' \in Seq(Refusals)
    /\ 1 \in DOMAIN acks
    /\ Head(acks) = acks[1]
    /\ Head(acks) \in Refusals
    /\ \A k \in DOMAIN acks : k \in Nat \ {0} /\ (k # 1 => k - 1 \in DOMAIN acks')
    /\ \A k \in DOMAIN acks' :
          k \in Nat \ {0} /\ k + 1 \in DOMAIN acks /\ acks'[k] = acks[k + 1]
    /\ \A id : Refused(id)' = {k \in DOMAIN acks' : k + 1 \in Refused(id)}

LEMMA AcksShrinkFacts ==
    ASSUME acks \in Seq(Refusals), acks # <<>>, acks' = Tail(acks)
    PROVE  AcksShrink
<1>1. /\ acks' \in Seq(Refusals)
      /\ 1 \in DOMAIN acks
      /\ Head(acks) = acks[1]
      /\ Head(acks) \in Refusals
      /\ \A k \in DOMAIN acks : k \in Nat \ {0} /\ (k # 1 => k - 1 \in DOMAIN acks')
      /\ \A k \in DOMAIN acks' :
            k \in Nat \ {0} /\ k + 1 \in DOMAIN acks /\ acks'[k] = acks[k + 1]
    BY TailFacts
<1>2. \A id : Refused(id)' = {k \in DOMAIN acks' : k + 1 \in Refused(id)}
    BY <1>1 DEF Refused
<1>3. QED
    BY <1>1, <1>2 DEF AcksShrink
-----------------------------------------------------------------------------
(* The steps, by what they do to the state that the invariant reads.       *)

(* g is f with k mapped to v, and f without k.                             *)
Stored(f, g, k, v) ==
    /\ g = [x \in DOMAIN g |-> g[x]]
    /\ DOMAIN g = DOMAIN f \cup {k}
    /\ g[k] = v
    /\ \A x \in DOMAIN f : x # k => g[x] = f[x]

Dropped(f, g, k) ==
    /\ g = [x \in DOMAIN g |-> g[x]]
    /\ DOMAIN g = DOMAIN f \ {k}
    /\ \A x \in DOMAIN g : g[x] = f[x]

LEMMA PutStores == ASSUME NEW f, NEW k, NEW v PROVE Stored(f, Put(f, k, v), k, v)
    BY DEF Put, Stored

LEMMA ExceptStores ==
    ASSUME NEW S, NEW f, f \in [DOMAIN f -> S], NEW k \in DOMAIN f, NEW v
    PROVE  Stored(f, [f EXCEPT ![k] = v], k, v)
    BY DEF Stored

LEMMA DropDrops == ASSUME NEW f, NEW k PROVE Dropped(f, Drop(f, k), k)
    BY DEF Drop, Dropped

Still == UNCHANGED <<orders, max_order_id, out, available, downloading,
                     live, seen, position, inbox, acks, linked>>

(* An order is amended.                                                    *)
Amending(id, o, r) ==
    /\ id \in DOMAIN orders
    /\ Stored(orders, orders', id, o)
    /\ r \in Request /\ out' = Append(out, r)
    /\ r.id = id /\ r.type # "CREATE"
    /\ r.version = o.pending.version /\ r.price = o.pending.price /\ r.side = o.side
    /\ orders[id].confirmed.version # 0
    /\ ~IsPending(orders[id]) /\ IsPending(o)
    /\ o.confirmed = orders[id].confirmed
    /\ o.side = orders[id].side /\ o.traded = orders[id].traded
    /\ o.pending.version = orders[id].pending.version + 1
    /\ o.pending.version <= MaxVersion
    /\ o.pending.price \in Prices
    /\ ~downloading /\ available # {}
    /\ UNCHANGED <<max_order_id, available, downloading,
                   live, seen, position, inbox, acks, linked>>

(* An order is created.                                                    *)
Creating(id, o, r) ==
    /\ id = max_order_id + 1 /\ id <= MaxOrderId
    /\ max_order_id' = id
    /\ id \notin DOMAIN orders
    /\ Stored(orders, orders', id, o)
    /\ r \in Request /\ out' = Append(out, r)
    /\ r.id = id /\ r.type = "CREATE" /\ r.version = 1 /\ r.price \in Prices
    /\ r.side = o.side /\ o.traded = 0
    /\ o.pending.version = 1 /\ o.pending.price = r.price /\ IsPending(o)
    /\ ~IsOver(o)
    /\ ~downloading /\ available # {}
    /\ UNCHANGED <<available, downloading,
                   live, seen, position, inbox, acks, linked>>

LEMMA AmendShape ==
    ASSUME ManagerInv, NEW id \in DOMAIN orders,
           modify_order(id) \/ cancel_order(id), UNCHANGED xVars
    PROVE  \E o, r : Amending(id, o, r)
<1>1. /\ orders[id] \in Order /\ Priced(orders[id]) /\ orders[id].side \in Sides
      /\ orders \in [DOMAIN orders -> Order]
      /\ TypeOK /\ orders[id].pending.version \in Nat /\ id \in Nat
    BY DEF ManagerInv, TypeInv, TypeOK, PricedOrders, Order, PendingState
<1>2. PICK type \in {"MODIFY", "CANCEL"}, p \in Prices, q \in Nat :
          Amend(id, Requested(orders[id], type, p, q))
    <2>1. CASE modify_order(id)
        <3>1. PICK p \in HolesOf(orders[id].side) :
                Amend(id, Requested(orders[id], "MODIFY", p, Hole(orders[id].side, p)))
            BY <2>1 DEF modify_order
        <3>2. p \in Prices /\ Hole(orders[id].side, p) \in Nat
            BY <1>1, <3>1, HoleType DEF HolesOf
        <3>3. QED
            BY <3>1, <3>2
    <2>2. CASE cancel_order(id)
        BY <1>1, <2>2 DEF cancel_order, Priced
    <2>3. QED
        BY <2>1, <2>2
<1>3. can_cancel(orders[id]) /\ phase = "adjust"
    BY DEF modify_order, cancel_order, can_modify
<1> DEFINE o == Requested(orders[id], type, p, q)
           r == [type |-> o.pending.type, id |-> id, version |-> o.pending.version,
                 conditional |-> o.confirmed.version, side |-> o.side,
                 price |-> o.pending.price, quantity |-> o.pending.quantity]
<1>4. /\ o \in Order /\ o.pending.type = type /\ o.pending \in PendingState
      /\ o.confirmed = orders[id].confirmed /\ o.side = orders[id].side
      /\ o.pending.price = p /\ o.traded = orders[id].traded
      /\ o.pending.version = orders[id].pending.version + 1
    <2>1. o.pending.version = orders[id].pending.version + 1
        BY <1>1 DEF Requested, Order
    <2>2. o.pending.price = p /\ o.traded = orders[id].traded
        BY <1>1 DEF Requested, Order
    <2>3. type \in RequestTypes
        BY DEF RequestTypes
    <2>4. /\ o \in Order /\ o.pending.type = type /\ o.pending \in PendingState
          /\ o.confirmed = orders[id].confirmed /\ o.side = orders[id].side
        BY <1>1, <2>3, RequestedType
    <2>5. QED
        BY <2>1, <2>2, <2>4
<1>5. /\ orders' = [orders EXCEPT ![id] = o]
      /\ out' = Append(out, r)
      /\ UNCHANGED <<max_order_id, available, downloading>>
    BY <1>2 DEF Amend, Send, gwVars
<1>6. /\ orders[id].confirmed.version # 0 /\ ~IsPending(orders[id])
      /\ orders[id].pending.version < MaxVersion
    BY <1>3 DEF can_cancel
<1>7. ~downloading /\ available # {}
    BY <1>3 DEF ManagerInv, Allowed, IsReady
<1> HIDE DEF o
<1>8. r \in Request
    BY <1>1, <1>4 DEF Request, RequestTypes, PendingState, ConfirmedState, Order
<1>9. Stored(orders, orders', id, o)
    BY <1>1, <1>5, ExceptStores
<1>10. o.pending.version <= MaxVersion /\ IsPending(o)
    BY <1>1, <1>4, <1>6, ConstantsAssumption DEF IsPending, NoRequest
<1>11. Amending(id, o, r)
    BY <1>4, <1>5, <1>6, <1>7, <1>8, <1>9, <1>10 DEF Amending, xVars
<1>12. QED
    BY <1>11

LEMMA CreateShape ==
    ASSUME ManagerInv, NEW s \in Sides, NEW p \in Prices,
           create_order(s, p), UNCHANGED xVars
    PROVE  \E id, o, r : Creating(id, o, r)
<1> DEFINE id == max_order_id + 1
           o == Created(s, p)
           r == [type |-> o.pending.type, id |-> id, version |-> o.pending.version,
                 conditional |-> o.confirmed.version, side |-> o.side,
                 price |-> o.pending.price, quantity |-> o.pending.quantity]
<1>1. TypeOK /\ <<s, p>> \in holes /\ phase = "place"
    BY DEF ManagerInv, TypeInv, create_order, NextHole
<1>2. Hole(s, p) \in Nat
    BY <1>1, HoleType DEF ManagerInv, HolesInv
<1>3. /\ o.side = s /\ o.traded = 0 /\ o.pending.type = "CREATE" /\ o.pending.version = 1
      /\ o.pending.price = p /\ o.pending.quantity = Hole(s, p)
      /\ o.confirmed.version = 0 /\ o.confirmed.status = "UNDEFINED"
    BY DEF Created
<1>4. /\ max_order_id < MaxOrderId /\ max_order_id' = id
      /\ id \notin DOMAIN orders
      /\ orders' = Put(orders, id, o)
      /\ Send(id, o)
      /\ UNCHANGED <<available, downloading>>
    BY DEF create_order, gwVars
<1>5. id \in Nat /\ id <= MaxOrderId
    BY <1>1, <1>4, ConstantsAssumption DEF TypeOK
<1>6. ~downloading /\ available # {}
    BY <1>1 DEF ManagerInv, Allowed, IsReady
<1> HIDE DEF o
<1>7. out' = Append(out, r)
    BY <1>4 DEF Send
<1>8. r \in Request
    BY <1>2, <1>3, <1>5 DEF Request, RequestTypes, AnyPrice
<1>9. Stored(orders, orders', id, o)
    BY <1>4, PutStores
<1>10. ~IsOver(o) /\ IsPending(o)
    BY <1>3 DEF IsOver, IsPending, NoRequest
<1> HIDE DEF id
<1>11. Creating(id, o, r)
    BY <1>3, <1>4, <1>5, <1>6, <1>7, <1>8, <1>9, <1>10 DEF Creating, xVars, id
<1>12. QED
    BY <1>11

LEMMA ProcessShape ==
    ASSUME ManagerInv, Processes
    PROVE  Still \/ \E id, o, r : Amending(id, o, r) \/ Creating(id, o, r)
<1>1. CASE \/ ProcessReturns \/ ProcessBegins \/ CountEnds \/ AdjustEnds \/ ProcessEnds
           \/ \E id \in DOMAIN orders : CountOrder(id)
           \/ \E s \in Sides, p \in Prices : CreateAsserts(s, p)
    <2>1. UNCHANGED <<orders, max_order_id, out, available, downloading>>
        BY <1>1 DEF ProcessReturns, ProcessBegins, CountEnds, AdjustEnds, ProcessEnds,
                    CountOrder, CreateAsserts, bookVars, gwVars
    <2>2. QED
        BY <2>1 DEF Processes, xVars, Still
<1>2. ASSUME NEW id \in DOMAIN orders, modify_order(id) \/ cancel_order(id)
      PROVE  \E o, r : Amending(id, o, r)
    BY <1>2, AmendShape DEF Processes
<1>3. ASSUME NEW s \in Sides, NEW p \in Prices, create_order(s, p)
      PROVE  \E id, o, r : Creating(id, o, r)
    BY <1>3, CreateShape DEF Processes
<1>4. QED
    BY <1>1, <1>2, <1>3 DEF Processes, Process
-----------------------------------------------------------------------------
(* What is told of an order.                                               *)
NewsOf(e, id, x, response) ==
    /\ e \in Reports
    /\ e.value.id = id /\ e.value.side = x.side /\ e.value.price = x.price
    /\ e.value.traded = x.traded /\ e.value.accepted = x.accepted
    /\ e.value.response = response
    /\ ~e.value.stale
    /\ e.value.status \in {"WORKING", "COMPLETED", "CANCELED"}
    /\ e.value.status = "WORKING" => e.value.remaining = x.remaining

LEMMA ReportFacts ==
    ASSUME NEW id \in Ids, NEW x \in LiveOrder, NEW n \in Nat,
           NEW status \in {"WORKING", "COMPLETED", "CANCELED"},
           seen[id] \in Nat
    PROVE  /\ NewsOf(Report(id, x, status), id, x, seen[id])
           /\ NewsOf([Report(id, x, status) EXCEPT !.value.response = n], id, x, n)
           /\ Report(id, x, status).value.status = status
           /\ [Report(id, x, status) EXCEPT !.value.response = n].value.status = status
<1> DEFINE u == [id |-> id, side |-> x.side, price |-> x.price,
                 remaining |-> IF status = "WORKING" THEN x.remaining ELSE 0,
                 traded |-> x.traded, status |-> status,
                 accepted |-> x.accepted, response |-> seen[id],
                 stale |-> FALSE]
           v == [u EXCEPT !.response = n]
<1>1. Report(id, x, status) = [kind |-> "OrderUpdate", value |-> u]
    BY DEF Report
<1> DEFINE w == [Report(id, x, status) EXCEPT !.value.response = n]
<1>2. u \in OrderUpdate
    <2>1. id \in Nat
        BY ConstantsAssumption DEF Ids
    <2>2. QED
        BY <2>1 DEF OrderUpdate, LiveOrder, OrderStatuses
<1>3. /\ NewsOf([kind |-> "OrderUpdate", value |-> u], id, x, seen[id])
      /\ u.status = status
    BY <1>2 DEF NewsOf, Reports
<1>4. w.value = v /\ w \in Reports
    <2>1. v \in OrderUpdate
        BY <1>2 DEF OrderUpdate
    <2> HIDE DEF u
    <2>2. w.value = v /\ w \in Reports
        BY <1>1, <2>1 DEF Reports
    <2>3. QED
        BY <2>2
<1>5. NewsOf(w, id, x, n) /\ w.value.status = status
    BY <1>4 DEF NewsOf
<1>6. QED
    BY <1>1, <1>3, <1>5

(* The exchange takes the next request.                                    *)
Taking(r) ==
    /\ out # <<>> /\ r = Head(out)
    /\ linked
    /\ out' = Tail(out)
    /\ seen' = [seen EXCEPT ![r.id] = r.version]
    /\ UNCHANGED <<orders, max_order_id, available, downloading, linked, position>>

(* It creates, changes or cancels the order, and tells so.                 *)
Accepting(r, x, e) ==
    /\ Taking(r)
    /\ x \in LiveOrder /\ x.accepted = r.version
    /\ NewsOf(e, r.id, x, r.version)
    /\ inbox' = Append(inbox, e)
    /\ UNCHANGED acks
    /\ \/ /\ r.type = "CREATE" /\ x.side = r.side /\ x.traded = 0
          /\ Stored(live, live', r.id, x) /\ e.value.status = "WORKING"
       \/ /\ r.type # "CREATE" /\ r.id \in DOMAIN live
          /\ x.side = live[r.id].side /\ x.traded = live[r.id].traded
          /\ \/ Stored(live, live', r.id, x) /\ e.value.status = "WORKING"
             \/ Dropped(live, live', r.id) /\ e.value.status = "CANCELED"

(* It refuses, too late only if the order is gone.                         *)
Refusing(r, a) ==
    /\ Taking(r)
    /\ a \in Refusals /\ a.id = r.id /\ a.type = r.type
    /\ a.error = "TOO_LATE_TO_MODIFY_OR_CANCEL"
          => r.type # "CREATE" /\ r.id \notin DOMAIN live
    /\ acks' = Append(acks, a)
    /\ UNCHANGED <<live, inbox>>

LEMMA TakingFacts ==
    ASSUME Inv, TakesRequest
    PROVE  /\ Taking(Request0)
           /\ Request0 \in Request
           /\ Request0.id \in Ids
           /\ Request0.price \in Prices
           /\ Request0.version \in Nat
           /\ seen[Request0.id] \in Nat
           /\ seen'[Request0.id] = Request0.version
<1>1. out \in Seq(Request) /\ out # <<>>
    BY DEF Inv, ManagerInv, TypeInv, TypeOK, TakesRequest
<1>2. Request0 = out[1] /\ 1 \in DOMAIN out /\ Request0 \in Request
    BY <1>1, TailFacts DEF Request0
<1>3. Request0.id \in Ids /\ Request0.price \in Prices
    BY <1>2 DEF Inv, PathsInv, IdsInv, VersionsInv
<1>4. Request0.version \in Nat
    BY <1>2 DEF Request
<1>5. seen \in [Ids -> 0..MaxVersion] /\ seen[Request0.id] \in Nat
    BY <1>3 DEF Inv, PathsInv, XTypes
<1>6. Taking(Request0)
    BY DEF TakesRequest, Taking, Request0, bookVars, gwVars
<1>7. seen'[Request0.id] = Request0.version
    BY <1>3, <1>5, <1>6 DEF Taking
<1>8. QED
    BY <1>2, <1>3, <1>4, <1>5, <1>6, <1>7

LEMMA AnswersShape ==
    ASSUME Inv, Answers
    PROVE  (\E r, x, e : Accepting(r, x, e)) \/ (\E r, a : Refusing(r, a))
<1> DEFINE r == Request0
<1>1. TakesRequest
    BY DEF Answers, AcceptsCreate, AcceptsModify, AcceptsCancel, Refuses, RefusesLate
<1>2. /\ Taking(r) /\ r \in Request /\ r.id \in Ids /\ r.price \in Prices
      /\ r.version \in Nat /\ seen[r.id] \in Nat /\ seen'[r.id] = r.version
    BY <1>1, TakingFacts
<1>3. r.side \in Sides /\ r.quantity \in Nat /\ r.type \in RequestTypes /\ r.id \in Nat
    BY <1>2 DEF Request
<1>4. live \in [DOMAIN live -> LiveOrder]
    BY DEF Inv, PathsInv, XTypes
<1>5. ASSUME NEW id \in DOMAIN live
      PROVE  live[id] \in LiveOrder /\ live[id].side \in Sides /\ live[id].traded \in Nat
             /\ live[id].price \in Prices /\ live[id].remaining \in Nat
    BY <1>4, <1>5 DEF LiveOrder
<1>6. CASE AcceptsCreate
    <2> DEFINE x == [side |-> r.side, price |-> r.price, remaining |-> r.quantity,
                     traded |-> 0, accepted |-> r.version]
               e == [Report(r.id, x, "WORKING") EXCEPT !.value.response = r.version]
    <2>1. x \in LiveOrder
        BY <1>2, <1>3 DEF LiveOrder
    <2>2. NewsOf(e, r.id, x, r.version) /\ e.value.status = "WORKING"
        BY <1>2, <2>1, ReportFacts
    <2>3. /\ r.type = "CREATE" /\ live' = Put(live, r.id, x)
          /\ inbox' = Append(inbox, e) /\ UNCHANGED acks
        BY <1>2, <1>6 DEF AcceptsCreate, Tell
    <2>4. x.accepted = r.version /\ x.side = r.side /\ x.traded = 0
        OBVIOUS
    <2> HIDE DEF x, e, r
    <2>5. Stored(live, live', r.id, x)
        BY <2>3, PutStores
    <2>6. Accepting(r, x, e)
        BY <1>2, <2>1, <2>2, <2>3, <2>4, <2>5 DEF Accepting
    <2>7. QED
        BY <2>6
<1>7. CASE AcceptsModify
    <2> DEFINE x == Accepted(r, live[r.id])
               e == [Report(r.id, x, "WORKING") EXCEPT !.value.response = r.version]
    <2>1. r.id \in DOMAIN live /\ r.type = "MODIFY"
        BY <1>7 DEF AcceptsModify
    <2>2. /\ x \in LiveOrder /\ x.accepted = r.version
          /\ x.side = live[r.id].side /\ x.traded = live[r.id].traded
        BY <1>2, <1>3, <1>5, <2>1 DEF Accepted, LiveOrder
    <2>3. NewsOf(e, r.id, x, r.version) /\ e.value.status = "WORKING"
        BY <1>2, <2>2, ReportFacts
    <2>4. live' = [live EXCEPT ![r.id] = x]
        BY <1>7 DEF AcceptsModify
    <2>5. live'[r.id] = x
        BY <1>4, <2>1, <2>4
    <2>6. inbox' = Append(inbox, e) /\ UNCHANGED acks
        BY <1>2, <1>7, <2>5 DEF AcceptsModify, Tell
    <2> HIDE DEF x, e, r
    <2>7. Stored(live, live', r.id, x)
        BY <1>4, <2>1, <2>4, ExceptStores
    <2>8. Accepting(r, x, e)
        BY <1>2, <2>1, <2>2, <2>3, <2>6, <2>7 DEF Accepting
    <2>9. QED
        BY <2>8
<1>8. CASE AcceptsCancel
    <2> DEFINE x == [live[r.id] EXCEPT !.accepted = r.version]
               e == [Report(r.id, x, "CANCELED") EXCEPT !.value.response = r.version]
    <2>1. r.id \in DOMAIN live /\ r.type = "CANCEL"
        BY <1>8 DEF AcceptsCancel
    <2>2. /\ x \in LiveOrder /\ x.accepted = r.version
          /\ x.side = live[r.id].side /\ x.traded = live[r.id].traded
        BY <1>2, <1>5, <2>1 DEF LiveOrder
    <2>3. NewsOf(e, r.id, x, r.version) /\ e.value.status = "CANCELED"
        BY <1>2, <2>2, ReportFacts
    <2>4. live' = Drop(live, r.id) /\ inbox' = Append(inbox, e) /\ UNCHANGED acks
        BY <1>2, <1>8 DEF AcceptsCancel, Tell
    <2> HIDE DEF x, e, r
    <2>5. Dropped(live, live', r.id)
        BY <2>4, DropDrops
    <2>6. Accepting(r, x, e)
        BY <1>2, <2>1, <2>2, <2>3, <2>4, <2>5 DEF Accepting
    <2>7. QED
        BY <2>6
<1>9. ASSUME NEW error \in Errors, Refuses(error) \/ (RefusesLate /\ error = "TOO_LATE_TO_MODIFY_OR_CANCEL")
      PROVE  \E a : Refusing(r, a)
    <2> DEFINE a == [id |-> r.id, type |-> r.type, error |-> error]
    <2>1. a \in Refusals
        BY <1>3 DEF Refusals
    <2>2. acks' = Append(acks, a) /\ UNCHANGED <<live, inbox>>
        BY <1>9 DEF Refuses, RefusesLate, Refuse
    <2>3. a.error = "TOO_LATE_TO_MODIFY_OR_CANCEL"
              => r.type # "CREATE" /\ r.id \notin DOMAIN live
        BY <1>9 DEF Refuses, RefusesLate
    <2>4. Refusing(r, a)
        BY <1>2, <2>1, <2>2, <2>3 DEF Refusing
    <2>5. QED
        BY <2>4
<1>10. QED
    <2>1. "TOO_LATE_TO_MODIFY_OR_CANCEL" \in Errors
        BY DEF Errors
    <2>2. QED
        BY <1>6, <1>7, <1>8, <1>9, <2>1 DEF Answers
-----------------------------------------------------------------------------
(* An event, and maybe a position, is put before the end of the download   *)
(* that is the last on the way.                                            *)
Slipped(e) ==
    LET m == Len(inbox)
    IN  /\ DownloadTells # "nothing"
        /\ linked
        /\ m \in Ends
        /\ inbox' \in Seq(Events)
        /\ \A i \in DOMAIN inbox : i # m => inbox'[i] = inbox[i]
        /\ inbox'[m] = e
        /\ \E n \in {m + 1, m + 2} :
              /\ DOMAIN inbox' = 1..n
              /\ inbox'[n] = inbox[m]
              /\ n = m + 2 => inbox'[m + 1].kind = "PositionUpdate"

LEMMA ConcatFacts ==
    ASSUME NEW S, NEW s \in Seq(S), NEW t \in Seq(S)
    PROVE  /\ s \o t \in Seq(S)
           /\ Len(s \o t) = Len(s) + Len(t)
           /\ DOMAIN (s \o t) = 1..Len(s) + Len(t)
           /\ \A i \in 1..Len(s) + Len(t) :
                 (s \o t)[i] = IF i <= Len(s) THEN s[i] ELSE t[i - Len(s)]
    OBVIOUS

(* t before the last of s.                                                 *)
Inserted(u, S, s, t) ==
    LET n == Len(s)
        k == Len(t)
    IN  /\ u \in Seq(S)
        /\ n \in Nat \ {0} /\ DOMAIN s = 1..n /\ Last(s) = s[n]
        /\ DOMAIN u = 1..n + k
        /\ \A i \in 1..n - 1 : u[i] = s[i]
        /\ \A i \in 1..k : u[n - 1 + i] = t[i]
        /\ u[n + k] = s[n]

LEMMA InsertFacts ==
    ASSUME NEW S, NEW s \in Seq(S), s # <<>>, NEW t \in Seq(S)
    PROVE  Inserted(Front(s) \o t \o <<Last(s)>>, S, s, t)
<1> DEFINE f == Front(s)
           v == f \o t
           l == <<Last(s)>>
           u == v \o l
           n == Len(s)
           k == Len(t)
<1>1. /\ n \in Nat \ {0} /\ DOMAIN s = 1..n /\ s[n] \in S /\ Last(s) = s[n]
      /\ k \in Nat /\ DOMAIN t = 1..k
    BY DEF Last
<1>2. f \in Seq(S) /\ Len(f) = n - 1 /\ \A i \in 1..n - 1 : f[i] = s[i]
    BY <1>1 DEF Front
<1>3. l \in Seq(S) /\ Len(l) = 1 /\ l[1] = s[n]
    BY <1>1
<1> HIDE DEF f, l
<1>4. /\ v \in Seq(S) /\ Len(v) = Len(f) + k
      /\ \A i \in 1..Len(f) + k : v[i] = IF i <= Len(f) THEN f[i] ELSE t[i - Len(f)]
    BY <1>2, ConcatFacts
<1> HIDE DEF v
<1>5. /\ u \in Seq(S) /\ DOMAIN u = 1..Len(v) + 1
      /\ \A i \in 1..Len(v) + 1 : u[i] = IF i <= Len(v) THEN v[i] ELSE l[i - Len(v)]
    <2>1. v \in Seq(S) /\ l \in Seq(S)
        BY <1>3, <1>4
    <2>2. /\ u \in Seq(S) /\ DOMAIN u = 1..Len(v) + Len(l)
          /\ \A i \in 1..Len(v) + Len(l) : u[i] = IF i <= Len(v) THEN v[i] ELSE l[i - Len(v)]
        BY <2>1, ConcatFacts
    <2>3. QED
        BY <1>3, <2>2
<1> HIDE DEF u, n, k
<1>6. Len(v) = n - 1 + k /\ DOMAIN u = 1..n + k
    BY <1>1, <1>2, <1>4, <1>5
<1>7. ASSUME NEW i \in 1..n - 1 PROVE u[i] = s[i]
    <2>1. i <= Len(f) /\ i <= Len(v) /\ i \in 1..Len(f) + k /\ i \in 1..Len(v) + 1
        BY <1>1, <1>2, <1>6
    <2>2. v[i] = f[i] /\ u[i] = v[i]
        BY <1>4, <1>5, <2>1
    <2>3. QED
        BY <1>2, <2>2
<1>8. ASSUME NEW i \in 1..k PROVE u[n - 1 + i] = t[i]
    <2> DEFINE j == n - 1 + i
    <2>1. /\ ~(j <= Len(f)) /\ j <= Len(v) /\ j - Len(f) = i
          /\ j \in 1..Len(f) + k /\ j \in 1..Len(v) + 1
        BY <1>1, <1>2, <1>6
    <2> HIDE DEF j
    <2>2. v[j] = t[i] /\ u[j] = v[j]
        BY <1>4, <1>5, <2>1
    <2>3. QED
        BY <2>2 DEF j
<1>9. u[n + k] = s[n]
    <2>1. /\ ~(n + k <= Len(v)) /\ n + k - Len(v) = 1 /\ n + k \in 1..Len(v) + 1
        BY <1>1, <1>6
    <2>2. QED
        BY <1>3, <1>5, <2>1
<1>10. QED
    <2>1. Inserted(u, S, s, t)
        BY <1>1, <1>5, <1>6, <1>7, <1>8, <1>9 DEF Inserted, n, k
    <2>2. QED
        BY <2>1 DEF u, v, f, l

LEMMA SlippedShape ==
    ASSUME Inv, NEW e \in Events, TellsWithinDownload(e), position' \in Int
    PROVE  Slipped(e)
<1> DEFINE m == Len(inbox)
           told == <<e>> \o NewPosition
<1>1. /\ DownloadTells # "nothing" /\ inbox # <<>> /\ Last(inbox).kind = "DownloadEnd"
      /\ inbox' = Front(inbox) \o <<e>> \o NewPosition \o <<Last(inbox)>>
    BY DEF TellsWithinDownload
<1>2. inbox \in Seq(Events) /\ linked
    BY <1>1 DEF Inv, PathsInv, XTypes, LinkInv
<1>3. /\ NewPosition \in Seq(Events) /\ Len(NewPosition) \in {0, 1}
      /\ Len(NewPosition) = 1 => NewPosition[1].kind = "PositionUpdate"
    <2>1. Event("PositionUpdate", position') \in Events
        BY DEF Event, Events, PositionUpdates
    <2>2. CASE DownloadTells = "positions"
        <3>1. NewPosition = <<Event("PositionUpdate", position')>>
            BY <2>2 DEF NewPosition
        <3>2. Event("PositionUpdate", position').kind = "PositionUpdate"
            BY DEF Event
        <3>3. QED
            BY <2>1, <3>1, <3>2
    <2>3. CASE DownloadTells # "positions"
        BY <2>3 DEF NewPosition
    <2>4. QED
        BY <2>2, <2>3
<1>4. /\ told \in Seq(Events) /\ Len(told) \in {1, 2} /\ told[1] = e
      /\ Len(told) = 2 => told[2].kind = "PositionUpdate"
    <2>1. <<e>> \in Seq(Events) /\ Len(<<e>>) = 1 /\ <<e>>[1] = e
        OBVIOUS
    <2>2. /\ told \in Seq(Events) /\ Len(told) = Len(<<e>>) + Len(NewPosition)
          /\ \A i \in 1..Len(<<e>>) + Len(NewPosition) :
                told[i] = IF i <= Len(<<e>>) THEN <<e>>[i] ELSE NewPosition[i - Len(<<e>>)]
        BY <1>3, <2>1, ConcatFacts
    <2> HIDE DEF told
    <2>3. /\ Len(told) = 1 + Len(NewPosition) /\ 1 \in 1..1 + Len(NewPosition)
          /\ Len(NewPosition) = 1 => 2 \in 1..1 + Len(NewPosition) /\ ~(2 <= 1) /\ 2 - 1 = 1
        BY <1>3, <2>1, <2>2
    <2>4. told[1] = e /\ (Len(NewPosition) = 1 => told[2] = NewPosition[1])
        BY <2>1, <2>2, <2>3
    <2>5. QED
        BY <1>3, <2>2, <2>3, <2>4
<1>5. inbox' = Front(inbox) \o told \o <<Last(inbox)>>
    <2>1. Front(inbox) \in Seq(Events) /\ <<e>> \in Seq(Events)
        BY <1>1, <1>2, InsertFacts DEF Front
    <2>2. (Front(inbox) \o <<e>>) \o NewPosition = Front(inbox) \o told
        BY <1>3, <2>1, ConcatAssociative
    <2>3. QED
        BY <1>1, <2>2
<1> DEFINE k == Len(told)
<1> HIDE DEF told
<1>6. /\ inbox' \in Seq(Events)
      /\ m \in Nat \ {0} /\ DOMAIN inbox = 1..m /\ Last(inbox) = inbox[m]
      /\ DOMAIN inbox' = 1..m + k
      /\ \A i \in 1..m - 1 : inbox'[i] = inbox[i]
      /\ \A i \in 1..k : inbox'[m - 1 + i] = told[i]
      /\ inbox'[m + k] = inbox[m]
    <2>1. Inserted(inbox', Events, inbox, told)
        BY <1>1, <1>2, <1>4, <1>5, InsertFacts
    <2>2. QED
        BY <2>1 DEF Inserted
<1> HIDE DEF m, k
<1>7. k \in {1, 2}
    BY <1>4 DEF k
<1>8. \A i \in DOMAIN inbox : i # m => inbox'[i] = inbox[i]
    BY <1>6
<1>9. m \in Ends
    BY <1>1, <1>6 DEF Ends
<1>10. inbox'[m] = e
    <2>1. 1 \in 1..k /\ m - 1 + 1 = m
        BY <1>6, <1>7
    <2>2. QED
        BY <1>4, <1>6, <2>1
<1>11. k = 2 => inbox'[m + 1].kind = "PositionUpdate"
    <2>1. k = 2 => 2 \in 1..k /\ m - 1 + 2 = m + 1
        BY <1>6
    <2>2. QED
        BY <1>4, <1>6, <2>1 DEF k
<1>12. m + k \in {m + 1, m + 2} /\ (m + k = m + 2 => k = 2)
    BY <1>6, <1>7
<1>13. QED
    BY <1>1, <1>2, <1>6, <1>8, <1>9, <1>10, <1>11, <1>12 DEF Slipped, m

(* An order is filled, or cancelled by the exchange.                       *)
Moving(id, x, e) ==
    /\ id \in DOMAIN live
    /\ x \in LiveOrder
    /\ x.side = live[id].side /\ x.accepted = live[id].accepted
    /\ x.traded >= live[id].traded
    /\ NewsOf(e, id, x, seen[id])
    /\ \/ Stored(live, live', id, x) /\ e.value.status = "WORKING"
       \/ Dropped(live, live', id) /\ IsFinal(e.value)
    /\ (inbox' = IF linked THEN Append(inbox, e) ELSE inbox) \/ Slipped(e)
    /\ position' = position + Signed(x.side, x.traded - live[id].traded)
    /\ ~Conflates /\ e.value.status = "CANCELED" => x.traded = live[id].traded
    /\ ~PartialFills => IsFinal(e.value)
    /\ UNCHANGED <<orders, max_order_id, out, available, downloading,
                   seen, acks, linked>>

LEMMA MovingShape ==
    ASSUME Inv, NEW id \in DOMAIN live, NEW q \in 0..live[id].remaining,
           Fills(id, q) \/ Cancels(id, q)
    PROVE  \E x, e : Moving(id, x, e)
<1>1. /\ id \in Ids /\ live \in [DOMAIN live -> LiveOrder] /\ live[id] \in LiveOrder
      /\ seen \in [Ids -> 0..MaxVersion] /\ seen[id] \in Nat
    BY DEF Inv, PathsInv, XTypes
<1>2. /\ live[id].side \in Sides /\ live[id].traded \in Nat
      /\ live[id].price \in Prices /\ live[id].remaining \in Nat
    BY <1>1 DEF LiveOrder
<1>3. CASE Fills(id, q)
    <2> DEFINE x == [live[id] EXCEPT !.remaining = @ - q, !.traded = @ + q]
    <2>1. /\ x \in LiveOrder /\ x.side = live[id].side
          /\ x.accepted = live[id].accepted
          /\ x.traded = live[id].traded + q
        <3>1. live[id].remaining - q \in Nat /\ live[id].traded + q \in Nat
            BY <1>2
        <3>2. QED
            BY <1>1, <1>2, <3>1 DEF LiveOrder
    <2>2. x.traded - live[id].traded = q /\ x.traded >= live[id].traded
        BY <1>2, <2>1
    <2>3. PICK status \in {"COMPLETED", "WORKING"} :
              /\ Tells(Report(id, x, status))
              /\ IF status = "COMPLETED" THEN live' = Drop(live, id)
                                         ELSE live' = [live EXCEPT ![id] = x]
              /\ status = "COMPLETED" <=> x.remaining = 0
        BY <1>3 DEF Fills
    <2>4. position' = position + Signed(x.side, q)
        BY <1>3 DEF Fills
    <2>5. ~PartialFills => status = "COMPLETED"
        <3>1. x.remaining = live[id].remaining - q
            BY <1>1 DEF LiveOrder
        <3>2. ~PartialFills => q = live[id].remaining
            BY <1>3 DEF Fills
        <3>3. ~PartialFills => x.remaining = 0
            BY <1>2, <3>1, <3>2
        <3>4. QED
            BY <2>3, <3>3
    <2>6. UNCHANGED <<orders, max_order_id, out, available, downloading,
                      seen, acks, linked>>
        BY <1>3 DEF Fills, XIdle, omsVars, bookVars, gwVars
    <2> DEFINE e == Report(id, x, status)
    <2>7. status \in {"WORKING", "COMPLETED", "CANCELED"}
        OBVIOUS
    <2> HIDE DEF x
    <2>8. NewsOf(e, id, x, seen[id]) /\ e.value.status = status
        BY <1>1, <2>1, <2>7, ReportFacts
    <2> HIDE DEF e
    <2>9. \/ Stored(live, live', id, x) /\ status = "WORKING"
          \/ Dropped(live, live', id) /\ status = "COMPLETED"
        <3>1. CASE status = "COMPLETED"
            BY <2>3, <3>1, DropDrops
        <3>2. CASE status = "WORKING"
            <4>1. live' = [live EXCEPT ![id] = x]
                BY <2>3, <3>2
            <4>2. QED
                BY <1>1, <3>2, <4>1, ExceptStores
        <3>3. QED
            BY <3>1, <3>2
    <2>10. (inbox' = IF linked THEN Append(inbox, e) ELSE inbox) \/ Slipped(e)
        <3>1. e \in Events
            BY <2>8 DEF NewsOf, Events
        <3>2. position' \in Int
            BY <1>2, <2>1, <2>4, <1>1 DEF Signed, Inv, PathsInv, XTypes
        <3>3. Tells(e)
            BY <2>3 DEF e
        <3>4. QED
            BY <3>1, <3>2, <3>3, SlippedShape DEF Tells
    <2>11. Moving(id, x, e)
        <3>1. \/ Stored(live, live', id, x) /\ e.value.status = "WORKING"
              \/ Dropped(live, live', id) /\ IsFinal(e.value)
            BY <2>8, <2>9 DEF IsFinal
        <3>2. QED
            BY <2>1, <2>2, <2>3, <2>4, <2>5, <2>6, <2>8, <2>10, <3>1 DEF Moving, IsFinal
    <2>12. QED
        BY <2>11
<1>4. CASE Cancels(id, q)
    <2> DEFINE x == [live[id] EXCEPT !.traded = @ + q]
               e == Report(id, x, "CANCELED")
    <2>1. /\ x \in LiveOrder /\ x.side = live[id].side
          /\ x.accepted = live[id].accepted
          /\ x.traded = live[id].traded + q
        BY <1>1, <1>2 DEF LiveOrder
    <2>2. x.traded - live[id].traded = q /\ x.traded >= live[id].traded
        BY <1>2, <2>1
    <2>3. /\ Tells(e)
          /\ live' = Drop(live, id)
          /\ position' = position + Signed(x.side, q)
          /\ ~Conflates => q = 0
        BY <1>4 DEF Cancels
    <2>4. UNCHANGED <<orders, max_order_id, out, available, downloading,
                      seen, acks, linked>>
        BY <1>4 DEF Cancels, XIdle, omsVars, bookVars, gwVars
    <2>5. NewsOf(e, id, x, seen[id]) /\ e.value.status = "CANCELED"
        BY <1>1, <2>1, ReportFacts
    <2>6. ~Conflates => x.traded = live[id].traded
        BY <1>2, <2>1, <2>3
    <2> HIDE DEF x, e
    <2>7. Dropped(live, live', id)
        BY <2>3, DropDrops
    <2>8. (inbox' = IF linked THEN Append(inbox, e) ELSE inbox) \/ Slipped(e)
        <3>1. e \in Events
            BY <2>5 DEF NewsOf, Events
        <3>2. position' \in Int
            BY <1>2, <2>1, <2>3, <1>1 DEF Signed, Inv, PathsInv, XTypes
        <3>3. QED
            BY <2>3, <3>1, <3>2, SlippedShape DEF Tells
    <2>9. Moving(id, x, e)
        BY <2>1, <2>2, <2>3, <2>4, <2>5, <2>6, <2>7, <2>8 DEF Moving, IsFinal
    <2>10. QED
        BY <2>9
<1>5. QED
    BY <1>3, <1>4

(* The gateway announces what it offers.                                   *)
Announcing(e) ==
    /\ linked
    /\ e \in Statuses
    /\ inbox' = Append(inbox, e)
    /\ UNCHANGED <<orders, max_order_id, out, available, downloading,
                   live, seen, position, acks, linked>>

(* The connection is lost, and perhaps the program with it.                *)
Losing ==
    /\ linked' = FALSE
    /\ inbox' = <<>> /\ acks' = <<>> /\ out' = <<>>
    /\ available' = {}
    /\ UNCHANGED <<live, seen, position>>
    /\ \/ UNCHANGED <<orders, max_order_id, downloading>>
       \/ orders' = <<>> /\ max_order_id' = 0 /\ downloading' = FALSE

LEMMA LosingShape ==
    ASSUME Drops \/ Crashes
    PROVE  Losing
    BY DEF Drops, Crashes, LosesLink, Losing, Restart, bookVars

LEMMA AnnouncingShape ==
    ASSUME NEW mask \in Masks, Announces(mask)
    PROVE  \E e : Announcing(e)
<1> DEFINE e == Event("GatewayStatus", mask)
<1>1. e \in Statuses
    BY DEF Event, Statuses
<1>2. inbox' = Append(inbox, e)
    BY DEF Announces
<1> HIDE DEF e
<1>3. Announcing(e)
    BY <1>1, <1>2 DEF Announces, Announcing, XIdle, omsVars, bookVars, gwVars
<1>4. QED
    BY <1>3

(* The manager handles an event that concerns no order and no request.     *)
LEMMA StillShape ==
    ASSUME \/ \E due \in BOOLEAN : Ticks(due)
           \/ \E d \in 1..MaxBan : ReceivesTrigger(d)
           \/ \E t \in Targets : ReceivesTargets(t)
           \/ \E p \in ParamSets : ReceivesParameters(p)
           \/ UNCHANGED vars
    PROVE  Still
<1>1. ASSUME NEW due \in BOOLEAN, Ticks(due) PROVE Still
    BY <1>1 DEF Ticks, Timer, Still, xVars, bookVars, gwVars
<1>2. ASSUME NEW d \in 1..MaxBan, ReceivesTrigger(d) PROVE Still
    BY <1>2 DEF ReceivesTrigger, RateLimitTrigger, Still, bookVars, gwVars
<1>3. ASSUME NEW t \in Targets, ReceivesTargets(t) PROVE Still
    BY <1>3 DEF ReceivesTargets, TargetQuotes, TargetsDropped, Still, bookVars, gwVars
<1>4. ASSUME NEW p \in ParamSets, ReceivesParameters(p) PROVE Still
    BY <1>4 DEF ReceivesParameters, ParametersUpdate, Still, gwVars
<1>5. CASE UNCHANGED vars
    BY <1>5 DEF vars, omsVars, xVars, bookVars, gwVars, Still
<1>6. QED
    BY <1>1, <1>2, <1>3, <1>4, <1>5
-----------------------------------------------------------------------------
(* The last id known to the exchange is the greatest one.                  *)
LEMMA LastIdFacts ==
    ASSUME seen \in [Ids -> 0..MaxVersion]
    PROVE  /\ LastId \in 0..MaxOrderId
           /\ \A id \in Ids : seen[id] > 0 => id <= LastId
<1> DEFINE S == {0} \cup {id \in Ids : seen[id] > 0}
           T == {n \in Nat : \A id \in S : id <= n}
<1>1. MaxOrderId \in Nat
    BY ConstantsAssumption
<1>2. S \subseteq 0..MaxOrderId /\ 0 \in S
    BY <1>1 DEF Ids
<1>3. MaxOrderId \in T
    BY <1>1, <1>2
<1>4. PICK n \in T : \A m \in T : n <= m
    BY <1>3, Least
<1>5. n \in S
    <2>1. CASE n = 0
        BY <1>2, <2>1
    <2>2. CASE n # 0
        <3>1. n - 1 \in Nat /\ n - 1 \notin T
            BY <1>4, <2>2
        <3>2. PICK id \in S : ~(id <= n - 1)
            BY <3>1
        <3>3. id <= n /\ id \in Nat
            BY <1>2
        <3>4. QED
            BY <3>1, <3>2, <3>3
    <2>3. QED
        BY <2>1, <2>2
<1>6. \A id \in S : n >= id
    BY <1>2
<1>7. LastId = CHOOSE x \in S : \A y \in S : x >= y
    BY DEF LastId, Max
<1> HIDE DEF S, T
<1>8. LastId \in S /\ \A y \in S : LastId >= y
    BY <1>5, <1>6, <1>7
<1>9. QED
    BY <1>2, <1>8 DEF S

(* The live orders are listed, each once.                                  *)
LEMMA ListFacts ==
    ASSUME NEW S, IsFiniteSet(S)
    PROVE  LET f == SetToSeq(S)
           IN  /\ f \in Seq(S)
               /\ \A x \in S : \E i \in 1..Len(f) : f[i] = x
               /\ \A i, j \in 1..Len(f) : f[i] = f[j] => i = j
<1> DEFINE n == Cardinality(S)
           f == SetToSeq(S)
<1>1. n \in Nat /\ ExistsBijection(1..n, S)
    BY FS_CardinalityType
<1>2. \E g \in [1..n -> S] : IsInjective(g)
    BY <1>1 DEF ExistsBijection, Bijection, Injection
<1>3. f \in [1..n -> S] /\ IsInjective(f)
    BY <1>2 DEF SetToSeq
<1>4. f \in Injection(1..n, S)
    BY <1>3 DEF Injection
<1>5. f \in Surjection(1..n, S)
    <2>1. Cardinality(1..n) = n
        BY <1>1, FS_Interval
    <2>2. QED
        BY <1>4, <2>1, FS_Injection
<1> HIDE DEF f, n
<1>6. f \in Seq(S) /\ Len(f) = n
    BY <1>1, <1>3
<1>7. \A x \in S : \E i \in 1..n : f[i] = x
    BY <1>5 DEF Surjection
<1>8. \A i, j \in 1..n : f[i] = f[j] => i = j
    BY <1>3 DEF IsInjective
<1>9. QED
    BY <1>6, <1>7, <1>8 DEF f

(* The client is connected and sent a download.                            *)
Downloads ==
    /\ inbox' \in Seq(Events)
    /\ Begins' = {1}
    /\ \E last \in Nat :
          /\ Ends' = {last} /\ DOMAIN inbox' = 1..last
          /\ inbox'[last].value = LastId
          /\ \A i \in DOMAIN inbox' :
                inbox'[i].kind = "PositionUpdate" <=> i = last - 2
          /\ last - 2 \in DOMAIN inbox' /\ inbox'[last - 2].value = position
    /\ \A id : \A i, j \in News(id)' : i = j
    /\ \A id : \A i \in News(id)' :
          /\ id \in DOMAIN live
          /\ NewsOf(inbox'[i], id, live[id], seen[id])
          /\ inbox'[i].value.status = "WORKING"
    /\ \A id \in DOMAIN live : News(id)' # {}

Joining ==
    /\ ~linked /\ linked'
    /\ Downloads
    /\ UNCHANGED <<orders, max_order_id, out, available, downloading,
                   live, seen, position, acks>>

(* g between two events and three.                                         *)
Framed(t, S, a, g, c, n) ==
    /\ t \in Seq(S)
    /\ DOMAIN t = 1..n + 5
    /\ t[1] = a[1] /\ t[2] = a[2]
    /\ \A i \in 1..n : t[i + 2] = g[i]
    /\ t[n + 3] = c[1] /\ t[n + 4] = c[2] /\ t[n + 5] = c[3]

LEMMA FramedFacts ==
    ASSUME NEW S, NEW a \in Seq(S), NEW g \in Seq(S), NEW c \in Seq(S),
           NEW n, Len(a) = 2, Len(g) = n, Len(c) = 3,
           NEW t, t = (a \o g) \o c
    PROVE  Framed(t, S, a, g, c, n)
<1>1. n \in Nat
    OBVIOUS
<1> DEFINE b == a \o g
<1>2. /\ b \in Seq(S) /\ Len(b) = 2 + n
      /\ \A i \in 1..2 + n : b[i] = IF i <= 2 THEN a[i] ELSE g[i - 2]
    <2>1. /\ a \o g \in Seq(S)
          /\ Len(a \o g) = Len(a) + Len(g)
          /\ \A i \in 1..Len(a) + Len(g) :
                (a \o g)[i] = IF i <= Len(a) THEN a[i] ELSE g[i - Len(a)]
        BY ConcatFacts
    <2>2. QED
        BY <2>1
<1>3. t = b \o c
    OBVIOUS
<1> HIDE DEF b
<1>4. /\ t \in Seq(S) /\ DOMAIN t = 1..(2 + n) + 3
      /\ \A i \in 1..(2 + n) + 3 : t[i] = IF i <= 2 + n THEN b[i] ELSE c[i - (2 + n)]
    <2>1. /\ b \o c \in Seq(S)
          /\ DOMAIN (b \o c) = 1..Len(b) + Len(c)
          /\ \A i \in 1..Len(b) + Len(c) :
                (b \o c)[i] = IF i <= Len(b) THEN b[i] ELSE c[i - Len(b)]
        BY <1>2, ConcatFacts
    <2>2. QED
        BY <1>2, <1>3, <2>1
<1>5. 1..(2 + n) + 3 = 1..n + 5
    BY <1>1
<1>6. t[1] = a[1] /\ t[2] = a[2]
    <2>1. t[1] = b[1] /\ t[2] = b[2] /\ b[1] = a[1] /\ b[2] = a[2]
        BY <1>1, <1>2, <1>4
    <2>2. QED
        BY <2>1
<1>7. ASSUME NEW i \in 1..n PROVE t[i + 2] = g[i]
    <2>1. t[i + 2] = b[i + 2]
        BY <1>1, <1>4
    <2>2. b[i + 2] = g[(i + 2) - 2]
        BY <1>1, <1>2
    <2>3. (i + 2) - 2 = i
        BY <1>1
    <2>4. QED
        BY <2>1, <2>2, <2>3
<1>8. t[n + 3] = c[1] /\ t[n + 4] = c[2] /\ t[n + 5] = c[3]
    <2> DEFINE m == 2 + n
    <2>4. /\ n + 3 = m + 1 /\ n + 4 = m + 2 /\ n + 5 = m + 3
          /\ m \in Nat
          /\ (n + 3) - m = 1 /\ (n + 4) - m = 2 /\ (n + 5) - m = 3
        BY <1>1
    <2>5. \A i \in 1..m + 3 : t[i] = IF i <= m THEN b[i] ELSE c[i - m]
        BY <1>4
    <2> HIDE DEF m
    <2>6. \A i \in {m + 1, m + 2, m + 3} : i \in 1..m + 3 /\ ~(i <= m)
        BY <2>4
    <2>7. \A i \in {m + 1, m + 2, m + 3} : t[i] = c[i - m]
        BY <2>5, <2>6
    <2>1. /\ t[n + 3] = c[(n + 3) - m] /\ t[n + 4] = c[(n + 4) - m]
          /\ t[n + 5] = c[(n + 5) - m]
        BY <2>4, <2>7
    <2>3. QED
        BY <2>1, <2>4
<1>9. QED
    BY <1>1, <1>4, <1>5, <1>6, <1>7, <1>8 DEF Framed

LEMMA DownloadFacts ==
    ASSUME Inv, NEW mask \in Masks, inbox' = Download(mask)
    PROVE  Downloads
<1> DEFINE ids == SetToSeq(DOMAIN live)
           n == Len(ids)
           a == <<Event("DownloadBegin", 0), Event("ReferenceData", 0)>>
           g == [i \in 1..n |-> Report(ids[i], live[ids[i]], "WORKING")]
           c == <<Event("PositionUpdate", position), Event("GatewayStatus", mask),
                  Event("DownloadEnd", LastId)>>
<1>1. /\ DOMAIN live \subseteq Ids /\ live \in [DOMAIN live -> LiveOrder]
      /\ seen \in [Ids -> 0..MaxVersion] /\ position \in Int
    BY DEF Inv, PathsInv, XTypes
<1>2. IsFiniteSet(DOMAIN live)
    <2>1. IsFiniteSet(1..MaxOrderId)
        BY ConstantsAssumption, FS_Interval
    <2>2. QED
        BY <1>1, <2>1, FS_Subset DEF Ids
<1>3. /\ ids \in Seq(DOMAIN live) /\ n \in Nat
      /\ \A id \in DOMAIN live : \E i \in 1..n : ids[i] = id
      /\ \A i, j \in 1..n : ids[i] = ids[j] => i = j
      /\ \A i \in 1..n : ids[i] \in DOMAIN live
    BY <1>2, ListFacts
<1>4. inbox' = (a \o g) \o c
    BY DEF Download
<1> HIDE DEF ids, n
<1>5. \A i \in 1..n :
          /\ NewsOf(g[i], ids[i], live[ids[i]], seen[ids[i]])
          /\ g[i].value.status = "WORKING"
    <2>1. SUFFICES ASSUME NEW i \in 1..n
          PROVE  /\ NewsOf(Report(ids[i], live[ids[i]], "WORKING"),
                           ids[i], live[ids[i]], seen[ids[i]])
                 /\ Report(ids[i], live[ids[i]], "WORKING").value.status = "WORKING"
        OBVIOUS
    <2>2. ids[i] \in Ids /\ live[ids[i]] \in LiveOrder /\ seen[ids[i]] \in Nat
        BY <1>1, <1>3
    <2>3. QED
        BY <2>2, ReportFacts
<1>6. g \in Seq(Events) /\ Len(g) = n
    <2>1. \A i \in 1..n : g[i] \in Events
        BY <1>5 DEF NewsOf, Events
    <2>2. g = [i \in 1..n |-> g[i]]
        OBVIOUS
    <2> HIDE DEF g
    <2>3. QED
        BY <1>3, <2>1, <2>2
<1>7. a \in Seq(Events) /\ Len(a) = 2 /\ c \in Seq(Events) /\ Len(c) = 3
    <2>1. /\ Event("DownloadBegin", 0) \in Events
          /\ Event("ReferenceData", 0) \in Events
        BY DEF Event, Events, DownloadMarks
    <2>2. Event("PositionUpdate", position) \in Events
        BY <1>1 DEF Event, Events, PositionUpdates
    <2>3. Event("GatewayStatus", mask) \in Events
        BY DEF Event, Events, Statuses
    <2>4. Event("DownloadEnd", LastId) \in Events
        BY <1>1, LastIdFacts DEF Event, Events, DownloadMarks
    <2>5. QED
        BY <2>1, <2>2, <2>3, <2>4
<1>8. /\ a[1].kind = "DownloadBegin" /\ a[2].kind = "ReferenceData"
      /\ c[1].kind = "PositionUpdate" /\ c[1].value = position
      /\ c[2].kind = "GatewayStatus"
      /\ c[3].kind = "DownloadEnd" /\ c[3].value = LastId
    BY DEF Event
<1>9. \A i \in 1..n : g[i].kind = "OrderUpdate" /\ g[i].value.id = ids[i]
    BY <1>5 DEF NewsOf, Reports
<1> HIDE DEF a, g, c
<1> DEFINE box == inbox'
<1>10. /\ box \in Seq(Events) /\ DOMAIN box = 1..n + 5
       /\ box[1] = a[1] /\ box[2] = a[2]
       /\ \A i \in 1..n : box[i + 2] = g[i]
       /\ box[n + 3] = c[1] /\ box[n + 4] = c[2] /\ box[n + 5] = c[3]
    <2>1. box = (a \o g) \o c
        BY <1>4
    <2> HIDE DEF box
    <2>2. Framed(box, Events, a, g, c, n)
        BY <1>6, <1>7, <2>1, FramedFacts
    <2>3. QED
        BY <2>2 DEF Framed
<1> HIDE DEF box
<1>11. ASSUME NEW i \in DOMAIN box
       PROVE  \/ i = 1 \/ i = 2 \/ i = n + 3 \/ i = n + 4 \/ i = n + 5
              \/ \E k \in 1..n : i = k + 2
    <2>1. i \in 1..n + 5 /\ n \in Nat
        BY <1>3, <1>10, <1>11
    <2>2. \/ i = 1 \/ i = 2 \/ i = n + 3 \/ i = n + 4 \/ i = n + 5
          \/ i - 2 \in 1..n /\ i = (i - 2) + 2
        BY <2>1
    <2>3. QED
        BY <2>2
<1>12. /\ \A k \in 1..n : k + 2 \in DOMAIN box /\ k + 2 # 1 /\ k + 2 # n + 5 /\ k + 2 # n + 3
       /\ n + 5 \in DOMAIN box /\ n + 3 \in DOMAIN box /\ 1 \in DOMAIN box
       /\ n + 5 # 1 /\ n + 3 # 1 /\ n + 3 # n + 5 /\ n + 4 # n + 5
       /\ n + 4 # n + 3 /\ n + 4 # 1 /\ n + 5 # 2 /\ n + 3 # 2
    BY <1>3, <1>10
<1>13. \A i \in DOMAIN box :
           /\ box[i].kind = "OrderUpdate" <=> \E k \in 1..n : i = k + 2
           /\ box[i].kind = "DownloadBegin" <=> i = 1
           /\ box[i].kind = "DownloadEnd" <=> i = n + 5
           /\ box[i].kind = "PositionUpdate" <=> i = n + 3
    <2>1. SUFFICES ASSUME NEW i \in DOMAIN box
          PROVE  /\ box[i].kind = "OrderUpdate" <=> \E k \in 1..n : i = k + 2
                 /\ box[i].kind = "DownloadBegin" <=> i = 1
                 /\ box[i].kind = "DownloadEnd" <=> i = n + 5
                 /\ box[i].kind = "PositionUpdate" <=> i = n + 3
        OBVIOUS
    <2>2. CASE \E k \in 1..n : i = k + 2
        <3>1. PICK k \in 1..n : i = k + 2
            BY <2>2
        <3>2. box[i].kind = "OrderUpdate"
            BY <1>9, <1>10, <3>1
        <3>3. QED
            BY <1>12, <3>1, <3>2
    <2>3. CASE i \in {1, 2, n + 3, n + 4, n + 5}
        <3>1. \A k \in 1..n : i # k + 2
            BY <1>3, <2>3
        <3>2. box[i].kind # "OrderUpdate"
            BY <1>8, <1>10, <2>3
        <3>3. box[i].kind = "DownloadBegin" <=> i = 1
            BY <1>8, <1>10, <1>12, <2>3
        <3>4. box[i].kind = "DownloadEnd" <=> i = n + 5
            BY <1>8, <1>10, <1>12, <2>3
        <3>5. box[i].kind = "PositionUpdate" <=> i = n + 3
            BY <1>8, <1>10, <1>12, <2>3
        <3>6. QED
            BY <3>1, <3>2, <3>3, <3>4, <3>5
    <2>4. QED
        BY <1>11, <2>2, <2>3
<1>14. Begins' = {1} /\ Ends' = {n + 5}
    <2>1. Begins' = {i \in DOMAIN box : box[i].kind = "DownloadBegin"}
          /\ Ends' = {i \in DOMAIN box : box[i].kind = "DownloadEnd"}
        BY DEF Begins, Ends, box
    <2>2. QED
        BY <1>12, <1>13, <2>1
<1>15. ASSUME NEW id, NEW i
       PROVE  i \in News(id)' <=> \E k \in 1..n : i = k + 2 /\ ids[k] = id
    <2>1. News(id)' = {j \in DOMAIN box : box[j].kind = "OrderUpdate" /\ box[j].value.id = id}
        BY DEF News, box
    <2>2. QED
        BY <1>9, <1>10, <1>12, <1>13, <2>1
<1>16. ASSUME NEW id, NEW i \in News(id)'
       PROVE  /\ id \in DOMAIN live
              /\ NewsOf(box[i], id, live[id], seen[id])
              /\ box[i].value.status = "WORKING"
    <2>1. PICK k \in 1..n : i = k + 2 /\ ids[k] = id
        BY <1>15, <1>16
    <2>2. QED
        BY <1>3, <1>5, <1>10, <2>1
<1>17. ASSUME NEW id, NEW i \in News(id)', NEW j \in News(id)'
       PROVE  i = j
    <2>1. PICK k \in 1..n : i = k + 2 /\ ids[k] = id
        BY <1>15, <1>17
    <2>2. PICK l \in 1..n : j = l + 2 /\ ids[l] = id
        BY <1>15, <1>17
    <2>3. QED
        BY <1>3, <2>1, <2>2
<1>18. ASSUME NEW id \in DOMAIN live PROVE News(id)' # {}
    BY <1>3, <1>15
<1> DEFINE last == n + 5
<1>19. /\ last \in Nat /\ Ends' = {last} /\ DOMAIN box = 1..last
       /\ box[last].value = LastId
       /\ last - 2 = n + 3
    BY <1>3, <1>8, <1>10, <1>14
<1>20. /\ \A i \in DOMAIN box : box[i].kind = "PositionUpdate" <=> i = last - 2
       /\ last - 2 \in DOMAIN box /\ box[last - 2].value = position
    BY <1>8, <1>10, <1>12, <1>13, <1>19
<1> HIDE DEF last
<1>21. QED
    BY <1>10, <1>14, <1>16, <1>17, <1>18, <1>19, <1>20 DEF Downloads, box

LEMMA JoiningShape ==
    ASSUME Inv, NEW mask \in Masks, Connects(mask)
    PROVE  Joining
<1>1. Downloads
    BY DownloadFacts DEF Connects
<1>2. QED
    BY <1>1 DEF Connects, Joining, XIdle, omsVars, bookVars, gwVars, Inv, PathsInv, XTypes
-----------------------------------------------------------------------------
(* The client hears of an order.                                           *)
Hearing(u) ==
    /\ inbox # <<>> /\ inbox' = Tail(inbox)
    /\ Head(inbox).kind = "OrderUpdate" /\ u = Head(inbox).value
    /\ UNCHANGED <<max_order_id, out, available, downloading,
                   live, seen, position, acks, linked>>
    /\ \/ ~known /\ UNCHANGED orders
       \/ /\ u.status = "WORKING" /\ u.id \notin DOMAIN orders
          /\ Stored(orders, orders', u.id, Reported(u))
       \/ /\ u.status = "WORKING" /\ u.id \in DOMAIN orders
          /\ Stored(orders, orders', u.id, Confirmed(orders[u.id], u))
       \/ u.status # "WORKING" /\ Dropped(orders, orders', u.id)

(* It receives what concerns no order.                                     *)
Passing ==
    /\ inbox # <<>> /\ inbox' = Tail(inbox)
    /\ Head(inbox).kind \in {"GatewayStatus", "PositionUpdate", "ReferenceData"}
    /\ \/ available' \in Masks /\ Head(inbox).kind = "GatewayStatus"
       \/ available' = available
    /\ UNCHANGED <<orders, max_order_id, out, downloading,
                   live, seen, position, acks, linked>>

(* A download begins, and ends.                                            *)
Beginning ==
    /\ inbox # <<>> /\ inbox' = Tail(inbox)
    /\ Head(inbox).kind = "DownloadBegin"
    /\ orders' = <<>> /\ downloading'
    /\ UNCHANGED <<max_order_id, out, available,
                   live, seen, position, acks, linked>>

Ending(last) ==
    /\ inbox # <<>> /\ inbox' = Tail(inbox)
    /\ Head(inbox).kind = "DownloadEnd" /\ last = Head(inbox).value
    /\ last \in 0..MaxOrderId
    /\ max_order_id' = Max2(max_order_id, last) /\ ~downloading'
    /\ UNCHANGED <<orders, out, available,
                   live, seen, position, acks, linked>>

(* It receives a refusal.                                                  *)
Answering(a) ==
    /\ acks # <<>> /\ acks' = Tail(acks) /\ a = Head(acks)
    /\ UNCHANGED <<max_order_id, out, available, downloading,
                   live, seen, position, inbox, linked>>
    /\ \/ a.id \notin DOMAIN orders /\ UNCHANGED orders
       \/ a.type = "CREATE" /\ Dropped(orders, orders', a.id)
       \/ /\ a.type # "CREATE" /\ a.id \in DOMAIN orders
          /\ \E o : /\ Stored(orders, orders', a.id, o)
                    /\ o.side = orders[a.id].side
                    /\ o.traded = orders[a.id].traded
                    /\ o.pending.type = NoRequest
                    /\ o.pending.version = orders[a.id].pending.version
                    /\ o.pending.price = orders[a.id].pending.price
                    /\ o.confirmed.version = orders[a.id].confirmed.version
                    /\ \/ o.confirmed = orders[a.id].confirmed
                       \/ a.error = "TOO_LATE_TO_MODIFY_OR_CANCEL"

(* What the kind of an event says of its value.                            *)
LEMMA EventFacts ==
    ASSUME NEW e \in Events
    PROVE  /\ e.kind = "OrderUpdate" => e \in Reports /\ e.value \in OrderUpdate
           /\ e.kind = "GatewayStatus" => e.value \in Masks
           /\ e.kind = "PositionUpdate" => e.value \in Int
           /\ e.kind = "DownloadEnd" => e.value \in 0..MaxOrderId
    BY DEF Events, Reports, Statuses, PositionUpdates, DownloadMarks

LEMMA HeadFacts ==
    ASSUME Inv, inbox # <<>>
    PROVE  /\ 1 \in DOMAIN inbox /\ Head(inbox) = inbox[1]
           /\ Head(inbox) \in Events
    BY TailFacts DEF Inv, PathsInv, XTypes

(* The updates on their way, whatever order they are about.                *)
LEMMA UpdateFacts ==
    ASSUME Inv, NEW i \in DOMAIN inbox, inbox[i].kind = "OrderUpdate"
    PROVE  LET u == inbox[i].value
           IN  /\ u \in OrderUpdate
               /\ u.id \in Ids /\ i \in News(u.id)
               /\ 1 <= u.response /\ u.response <= seen[u.id]
               /\ u.accepted >= 1
               /\ ~u.stale
               /\ u.status \in {"WORKING", "COMPLETED", "CANCELED"}
<1> DEFINE u == inbox[i].value
<1>1. inbox[i] \in Events
    BY DEF Inv, PathsInv, XTypes
<1>2. u \in OrderUpdate
    BY <1>1, EventFacts
<1>3. u.id \in Ids /\ i \in News(u.id)
    BY DEF Inv, PathsInv, IdsInv, News
<1> HIDE DEF u
<1>4. QED
    BY <1>2, <1>3 DEF Inv, PathsInv, VersionsInv, u

LEMMA HearingShape ==
    ASSUME Inv, ReceivesUpdate
    PROVE  Hearing(Head(inbox).value)
<1> DEFINE u == Head(inbox).value
<1>1. /\ inbox # <<>> /\ inbox' = Tail(inbox) /\ Head(inbox).kind = "OrderUpdate"
      /\ UNCHANGED <<live, seen, position, acks, linked>>
      /\ OrderUpdated(u)
    BY DEF ReceivesUpdate, Receives
<1>2. u \in OrderUpdate /\ ~u.stale /\ u.status \in {"WORKING", "COMPLETED", "CANCELED"}
    BY <1>1, HeadFacts, UpdateFacts
<1>3. orders \in [DOMAIN orders -> Order]
    BY DEF Inv, ManagerInv, TypeInv, TypeOK
<1> HIDE DEF u
<1>4. UNCHANGED <<max_order_id, out, available, downloading>>
    BY <1>1 DEF OrderUpdated, UpdateNotFound, UpdateErases, UpdateAdds, UpdateIgnored,
                order_confirm, order_complete, order_canceled, OrderUpdateFrame, gwVars
<1>5. \/ ~known /\ UNCHANGED orders
      \/ /\ u.status = "WORKING" /\ u.id \notin DOMAIN orders
         /\ orders' = Put(orders, u.id, Reported(u))
      \/ /\ u.status = "WORKING" /\ u.id \in DOMAIN orders
         /\ orders' = [orders EXCEPT ![u.id] = Confirmed(@, u)]
      \/ u.status # "WORKING" /\ orders' = Drop(orders, u.id)
    BY <1>1, <1>2 DEF OrderUpdated, UpdateNotFound, UpdateErases, UpdateAdds, UpdateIgnored,
                      order_confirm, order_complete, order_canceled, erase_order,
                      IsNew, bookVars
<1>6. \/ ~known /\ UNCHANGED orders
      \/ /\ u.status = "WORKING" /\ u.id \notin DOMAIN orders
         /\ Stored(orders, orders', u.id, Reported(u))
      \/ /\ u.status = "WORKING" /\ u.id \in DOMAIN orders
         /\ Stored(orders, orders', u.id, Confirmed(orders[u.id], u))
      \/ u.status # "WORKING" /\ Dropped(orders, orders', u.id)
    <2>1. CASE orders' = Put(orders, u.id, Reported(u)) /\ u.status = "WORKING"
                 /\ u.id \notin DOMAIN orders
        BY <2>1, PutStores
    <2>2. CASE /\ u.status = "WORKING" /\ u.id \in DOMAIN orders
               /\ orders' = [orders EXCEPT ![u.id] = Confirmed(@, u)]
        BY <1>3, <2>2, ExceptStores
    <2>3. CASE u.status # "WORKING" /\ orders' = Drop(orders, u.id)
        BY <2>3, DropDrops
    <2>4. QED
        BY <1>5, <2>1, <2>2, <2>3
<1>7. QED
    BY <1>1, <1>4, <1>6 DEF Hearing, u

LEMMA PassingShape ==
    ASSUME Inv, ~EraseOnNotReady,
           ReceivesStatus \/ ReceivesPosition \/ ReceivesReference
    PROVE  Passing
<1>1. CASE ReceivesStatus
    <2>1. Head(inbox).value \in Masks
        BY <1>1, HeadFacts, EventFacts DEF ReceivesStatus, Receives
    <2>2. QED
        BY <1>1, <2>1 DEF ReceivesStatus, Receives, GatewayStatus, Passing
<1>2. CASE ReceivesPosition
    BY <1>2 DEF ReceivesPosition, Receives, PositionUpdate, Passing, bookVars, gwVars
<1>3. CASE ReceivesReference
    BY <1>3 DEF ReceivesReference, Receives, ReferenceData, Passing, bookVars
<1>4. QED
    BY <1>1, <1>2, <1>3

LEMMA BeginningShape ==
    ASSUME ReceivesBegin PROVE Beginning
    BY DEF ReceivesBegin, Receives, DownloadBegin, erase_all_orders, Beginning

LEMMA EndingShape ==
    ASSUME Inv, ReceivesEnd PROVE Ending(Head(inbox).value)
<1>1. Head(inbox).value \in 0..MaxOrderId
    BY HeadFacts, EventFacts DEF ReceivesEnd, Receives
<1>2. QED
    BY <1>1 DEF ReceivesEnd, Receives, DownloadEnd, Ending, bookVars

LEMMA AnsweringShape ==
    ASSUME Inv, ReceivesAck PROVE Answering(Head(acks))
<1> DEFINE a == Head(acks)
<1>1. /\ acks # <<>> /\ acks' = Tail(acks) /\ OrderAcked(a)
      /\ UNCHANGED <<live, seen, position, inbox, linked>>
    BY DEF ReceivesAck
<1>2. a \in Refusals
    BY <1>1, TailFacts DEF Inv, PathsInv, XTypes
<1>3. indexed = DOMAIN orders /\ orders \in [DOMAIN orders -> Order]
    BY DEF Inv, ManagerInv, TypeInv, TypeOK
<1> HIDE DEF a
<1>4. UNCHANGED <<max_order_id, out, available, downloading>>
    BY <1>1 DEF OrderAcked, AckNotFound, order_create_reject, order_modify_reject,
                order_cancel_reject, AckContinues, gwVars
<1>5. CASE AckNotFound(a)
    BY <1>1, <1>3, <1>4, <1>5 DEF AckNotFound, Answering, bookVars, a
<1>6. CASE order_create_reject(a)
    <2>1. Dropped(orders, orders', a.id) /\ a.type = "CREATE"
        BY <1>6, DropDrops DEF order_create_reject, erase_order
    <2>2. QED
        BY <1>1, <1>4, <2>1 DEF Answering, a
<1>7. CASE order_modify_reject(a) \/ order_cancel_reject(a)
    <2>1. a.id \in DOMAIN orders /\ a.type # "CREATE" /\ orders[a.id] \in Order
        BY <1>3, <1>7 DEF order_modify_reject, order_cancel_reject, AckContinues
    <2> DEFINE v == orders[a.id]
    <2>2. PICK r \in {Reverted(v), [Reverted(v) EXCEPT !.rejected = TRUE]} :
              orders' = [orders EXCEPT ![a.id] = TooLate(a, r)]
        BY <1>7 DEF order_modify_reject, order_cancel_reject
    <2>3. r \in Order /\ r.traded = v.traded /\ r.side = v.side
          /\ r.pending.type = NoRequest /\ r.pending.version = v.pending.version
          /\ r.pending.price = v.pending.price /\ r.confirmed = v.confirmed
        <3>1. LET w == Reverted(v)
              IN  /\ w \in Order /\ w.traded = v.traded /\ w.side = v.side
                  /\ w.pending.type = NoRequest /\ w.pending.version = v.pending.version
                  /\ w.pending.price = v.pending.price /\ w.confirmed = v.confirmed
            BY <2>1, RevertedType DEF Reverted, Order, PendingState
        <3> DEFINE w == Reverted(v)
        <3> HIDE DEF w
        <3>2. [w EXCEPT !.rejected = TRUE] \in Order
              /\ [w EXCEPT !.rejected = TRUE].traded = w.traded
              /\ [w EXCEPT !.rejected = TRUE].pending = w.pending
              /\ [w EXCEPT !.rejected = TRUE].confirmed = w.confirmed
              /\ [w EXCEPT !.rejected = TRUE].side = w.side
            BY <3>1 DEF Order, w
        <3>3. CASE r = w
            BY <3>1, <3>3 DEF w
        <3>4. CASE r = [w EXCEPT !.rejected = TRUE]
            BY <3>1, <3>2, <3>4 DEF w
        <3>5. QED
            BY <2>2, <3>3, <3>4 DEF w
    <2> DEFINE o == TooLate(a, r)
    <2>4. /\ o.side = r.side /\ o.pending = r.pending
          /\ o.confirmed.version = r.confirmed.version
        BY <2>3, TooLateType
    <2>5. o.traded = r.traded
          /\ (o.confirmed = r.confirmed \/ a.error = "TOO_LATE_TO_MODIFY_OR_CANCEL")
        BY <2>3 DEF TooLate, Order
    <2>6. Stored(orders, orders', a.id, o)
        BY <1>3, <2>1, <2>2, ExceptStores
    <2> HIDE DEF o
    <2>7. QED
        BY <1>1, <1>4, <2>1, <2>3, <2>4, <2>5, <2>6 DEF Answering, a
<1>8. QED
    BY <1>1, <1>5, <1>6, <1>7 DEF OrderAcked, a
-----------------------------------------------------------------------------
(* Every step is one of the above, and one of the manager's: what is       *)
(* delivered to it is well typed, and its answers answer a request.        *)
Happened ==
    \/ Still
    \/ \E id, o, r : Amending(id, o, r) \/ Creating(id, o, r)
    \/ \E r, x, e : Accepting(r, x, e)
    \/ \E r, a : Refusing(r, a)
    \/ \E id, x, e : Moving(id, x, e)
    \/ \E e : Announcing(e)
    \/ Losing \/ Joining \/ Passing \/ Beginning
    \/ \E u : Hearing(u)
    \/ \E last : Ending(last)
    \/ \E a : Answering(a)

LEMMA Shapes ==
    ASSUME Inv, ~EraseOnNotReady, [XNext]_vars
    PROVE  Happened
<1>1. CASE Processes
    BY <1>1, ProcessShape DEF Inv, Happened
<1>2. CASE Answers
    BY <1>2, AnswersShape DEF Happened
<1>3. CASE ReceivesInbox
    BY <1>3, HearingShape, PassingShape, BeginningShape, EndingShape
       DEF ReceivesInbox, Happened
<1>4. CASE ReceivesAck
    BY <1>4, AnsweringShape DEF Happened
<1>5. ASSUME NEW id \in DOMAIN live, NEW q \in 0..live[id].remaining,
             Fills(id, q) \/ Cancels(id, q)
      PROVE  Happened
    BY <1>5, MovingShape DEF Happened
<1>6. CASE Drops \/ Crashes
    BY <1>6, LosingShape DEF Happened
<1>7. CASE Happens
    <2>1. \A id \in DOMAIN live : 1..live[id].remaining \subseteq 0..live[id].remaining
        OBVIOUS
    <2>2. QED
        BY <1>5, <1>6, <1>7, <2>1, AnnouncingShape, StillShape DEF Happens, Happened
<1>8. CASE Connecting
    BY <1>8, JoiningShape DEF Connecting, Happened
<1>9. CASE (\E due \in BOOLEAN : Ticks(due)) \/ UNCHANGED vars
    BY <1>9, StillShape DEF Happened
<1>10. QED
    BY <1>1, <1>2, <1>3, <1>4, <1>7, <1>8, <1>9 DEF XNext

LEMMA ManagerSteps ==
    ASSUME Inv, [XNext]_vars
    PROVE  ManagerStep
<1> USE DEF ManagerStep, AnyEvent
<1>1. CASE Processes
    BY <1>1 DEF Processes
<1>2. CASE Answers \/ Drops
    <2>1. CASE Answers
        <3>1. TakesRequest
            BY <2>1 DEF Answers, AcceptsCreate, AcceptsModify, AcceptsCancel,
                        Refuses, RefusesLate
        <3>2. QED
            BY <3>1 DEF TakesRequest, OutLeaves, gwVars
    <2>2. CASE Drops
        BY <2>2 DEF Drops, OutLeaves
    <2>3. QED
        BY <1>2, <2>1, <2>2
<1>3. CASE ReceivesInbox
    <2>1. inbox # <<>>
        BY <1>3 DEF ReceivesInbox, ReceivesUpdate, ReceivesStatus, ReceivesPosition,
                    ReceivesBegin, ReceivesReference, ReceivesEnd, Receives
    <2>2. Head(inbox) \in Events
        BY <2>1, HeadFacts
    <2>3. Masks \subseteq SUBSET SupportTypes /\ 0..MaxOrderId \subseteq Nat
        BY ExchangeAssumption
    <2>4. QED
        BY <1>3, <2>2, <2>3, EventFacts
           DEF ReceivesInbox, ReceivesUpdate, ReceivesStatus, ReceivesPosition,
               ReceivesBegin, ReceivesReference, ReceivesEnd, Receives
<1>4. CASE ReceivesAck
    <2>1. 1 \in DOMAIN acks /\ Head(acks) = acks[1] /\ Head(acks) \in Refusals
        BY <1>4, TailFacts DEF ReceivesAck, Inv, PathsInv, XTypes
    <2>2. Answerable(Head(acks))
        BY <2>1 DEF Inv, PathsInv, AmendedInv, WasAsked, Answerable
    <2>3. QED
        BY <1>4, <2>1, <2>2 DEF ReceivesAck
<1>5. CASE Happens
    <2>1. ASSUME NEW id, NEW q, Fills(id, q) \/ Cancels(id, q) PROVE UNCHANGED omsVars
        BY <2>1 DEF Fills, Cancels, XIdle
    <2>2. ASSUME NEW mask \in Masks, Announces(mask) PROVE UNCHANGED omsVars
        BY <2>2 DEF Announces, XIdle
    <2>3. CASE Crashes
        BY <2>3 DEF Crashes
    <2>4. ASSUME NEW d \in 1..MaxBan, ReceivesTrigger(d) PROVE ManagerStep
        BY <2>4 DEF ReceivesTrigger
    <2>5. ASSUME NEW t \in Targets, ReceivesTargets(t) PROVE ManagerStep
        BY <2>5 DEF ReceivesTargets
    <2>6. ASSUME NEW p \in ParamSets, ReceivesParameters(p) PROVE ManagerStep
        BY <2>6 DEF ReceivesParameters
    <2>7. QED
        BY <1>2, <1>5, <2>1, <2>2, <2>3, <2>4, <2>5, <2>6 DEF Happens
<1>6. CASE Connecting
    BY <1>6 DEF Connecting, Connects, XIdle
<1>7. CASE \E due \in BOOLEAN : Ticks(due)
    BY <1>7 DEF Ticks
<1>8. CASE UNCHANGED vars
    BY <1>8 DEF vars
<1>9. QED
    BY <1>1, <1>2, <1>3, <1>4, <1>5, <1>6, <1>7, <1>8 DEF XNext

LEMMA ManagerKeeps ==
    ASSUME Inv, [XNext]_vars
    PROVE  ManagerInv'
BY ManagerSteps, TypeStep, HolesStep, AllowedStep, IndexStep DEF Inv, ManagerInv
-----------------------------------------------------------------------------
(* Each of the steps keeps what is said of the paths.                      *)

(* What is left alone keeps its messages.                                  *)
LEMMA SameInbox ==
    ASSUME UNCHANGED inbox
    PROVE  Begins' = Begins /\ Ends' = Ends /\ \A id : News(id)' = News(id)
    BY DEF Begins, Ends, News

LEMMA SameOut ==
    ASSUME UNCHANGED out
    PROVE  \A id : Asked(id)' = Asked(id)
    BY DEF Asked

LEMMA StillKeeps ==
    ASSUME PathsInv, Still PROVE PathsInv'
<1>1. /\ Begins' = Begins /\ Ends' = Ends /\ \A id : News(id)' = News(id)
      /\ \A id : Asked(id)' = Asked(id)
    BY SameInbox, SameOut DEF Still
<1> USE DEF PathsInv, Still
<1>2. XTypes'
    BY DEF XTypes
<1>3. LinkInv'
    BY DEF LinkInv
<1>4. DownloadInv'
    BY <1>1 DEF DownloadInv
<1>5. IdsInv'
    BY DEF IdsInv
<1>6. VersionsInv'
    BY <1>1 DEF VersionsInv
<1>7. FinalInv'
    BY <1>1 DEF FinalInv
<1>8. ForgottenInv'
    BY <1>1 DEF ForgottenInv
<1>9. AmendedInv'
    BY DEF AmendedInv
<1>10. QED
    BY <1>2, <1>3, <1>4, <1>5, <1>6, <1>7, <1>8, <1>9

(* While requests may be sent no download is on its way.                   *)
LEMMA OpenFacts ==
    ASSUME PathsInv, available # {}, ~downloading
    PROVE  /\ linked /\ Begins = {} /\ Ends = {}
           /\ \A id \in Ids : seen[id] > 0 => id <= max_order_id
           /\ \A id \in DOMAIN orders : id \in Ids /\ id <= max_order_id
<1>1. linked
    BY DEF PathsInv, LinkInv
<1>2. Begins = {} /\ Ends = {}
    BY DEF PathsInv, DownloadInv
<1>3. \A id \in Ids : seen[id] > 0 => id <= max_order_id
    BY <1>1, <1>2 DEF PathsInv, DownloadInv
<1>4. QED
    BY <1>1, <1>2, <1>3 DEF PathsInv, IdsInv

LEMMA AmendingKeeps ==
    ASSUME Inv, NEW id, NEW o, NEW r, Amending(id, o, r)
    PROVE  PathsInv'
<1> DEFINE n == Len(out) + 1
           v == orders[id].pending.version
<1>1. /\ linked /\ Begins = {} /\ Ends = {}
      /\ id \in DOMAIN orders /\ id \in Ids /\ id <= max_order_id
      /\ \A i \in Ids : seen[i] > 0 => i <= max_order_id
    BY OpenFacts DEF Inv, Amending
<1>2. /\ UNCHANGED <<max_order_id, available, downloading,
                     live, seen, position, inbox, acks, linked>>
      /\ Begins' = Begins /\ Ends' = Ends /\ \A i : News(i)' = News(i)
    BY SameInbox DEF Amending
<1>3. OutGrows(r) /\ n \in Nat \ DOMAIN out
    <2>1. out \in Seq(Request) /\ r \in Request /\ out' = Append(out, r)
        BY DEF Inv, ManagerInv, TypeInv, TypeOK, Amending
    <2>2. OutGrows(r)
        BY <2>1, OutGrowsFacts
    <2>3. QED
        BY <2>2 DEF OutGrows
<1> HIDE DEF n
<1>4. /\ DOMAIN out' = DOMAIN out \cup {n}
      /\ \A k \in DOMAIN out : k \in Nat /\ k < n /\ out'[k] = out[k]
      /\ out'[n] = r
      /\ \A i : Asked(i)' = IF i = id THEN Asked(i) \cup {n} ELSE Asked(i)
    BY <1>3 DEF OutGrows, Amending, n
<1>5. /\ r.id = id /\ r.type # "CREATE" /\ r.version = v + 1
      /\ r.version <= MaxVersion /\ r.price \in Prices
      /\ v \in Nat \ {0} /\ v >= seen[id]
      /\ \A k \in Asked(id) : v >= out[k].version
      /\ seen[id] \in Nat
    <2>1. v \in Nat
        BY DEF Inv, ManagerInv, TypeInv, TypeOK, Order, PendingState, Amending
    <2>2. v >= 1 /\ v >= seen[id] /\ \A k \in Asked(id) : v >= out[k].version
        BY <1>1 DEF Inv, PathsInv, VersionsInv
    <2>3. QED
        BY <1>1, <2>1, <2>2 DEF Inv, PathsInv, XTypes, Amending
<1>6. /\ DOMAIN orders' = DOMAIN orders
      /\ orders'[id] = o /\ o.pending.version = v + 1
      /\ o.pending.price # NoPrice /\ o.confirmed.version # 0
      /\ \A i \in DOMAIN orders : i # id => orders'[i] = orders[i]
    <2>1. 0 \notin Prices
        BY ConstantsAssumption DEF NoPrice
    <2>2. QED
        BY <1>1, <2>1 DEF Amending, Stored, NoPrice
<1>7. \A k \in DOMAIN out : out[k].version \in Nat
    <2>1. out \in Seq(Request)
        BY DEF Inv, ManagerInv, TypeInv, TypeOK
    <2>2. \A k \in DOMAIN out : out[k] \in Request
        BY <2>1
    <2>3. QED
        BY <2>2 DEF Request
<1> HIDE DEF v
<1> USE DEF Inv, PathsInv
<1>8. XTypes' /\ LinkInv' /\ DownloadInv' /\ FinalInv'
    BY <1>1, <1>2 DEF XTypes, LinkInv, DownloadInv, FinalInv
<1>9. IdsInv'
    BY <1>1, <1>2, <1>4, <1>5, <1>6 DEF IdsInv
<1>10. VersionsInv'
    <2>1. ASSUME NEW i \in DOMAIN orders'
          PROVE  /\ orders'[i].pending.version >= 1
                 /\ orders'[i].pending.version >= seen[i]
                 /\ \A k \in Asked(i)' : orders'[i].pending.version >= out'[k].version
        <3>1. CASE i = id
            BY <1>4, <1>5, <1>6, <1>7, <3>1 DEF Asked
        <3>2. CASE i # id
            BY <1>4, <1>6, <2>1, <3>2 DEF VersionsInv, Asked
        <3>3. QED
            BY <3>1, <3>2
    <2>2. ASSUME NEW k \in DOMAIN out'
          PROVE  /\ out'[k].version > seen[out'[k].id]
                 /\ out'[k].version <= MaxVersion
                 /\ out'[k].price \in Prices
                 /\ out'[k].type = "CREATE" <=> out'[k].version = 1
                 /\ \A l \in DOMAIN out' : out'[l].id = out'[k].id /\ l > k
                                               => out'[l].version > out'[k].version
        <3>1. CASE k = n
            BY <1>3, <1>4, <1>5, <3>1 DEF Asked
        <3>2. CASE k # n
            <4>1. k \in DOMAIN out /\ out'[k] = out[k]
                BY <1>4, <2>2, <3>2
            <4>2. ASSUME NEW l \in DOMAIN out', out'[l].id = out[k].id, l > k
                  PROVE  out'[l].version > out[k].version
                <5>1. CASE l = n
                    BY <1>4, <1>5, <1>7, <4>1, <4>2, <5>1, <1>3 DEF Asked
                <5>2. CASE l # n
                    BY <1>4, <4>1, <4>2, <5>2 DEF VersionsInv, Asked
                <5>3. QED
                    BY <5>1, <5>2
            <4>3. QED
                BY <4>1, <4>2 DEF VersionsInv
        <3>3. QED
            BY <3>1, <3>2
    <2>3. QED
        BY <1>2, <2>1, <2>2 DEF VersionsInv, Asked
<1>11. ForgottenInv'
    BY <1>1, <1>2, <1>4, <1>5, <1>6 DEF ForgottenInv
<1>12. AmendedInv'
    BY <1>1, <1>2, <1>4, <1>5, <1>6 DEF AmendedInv, WasAsked
<1>13. QED
    BY <1>8, <1>9, <1>10, <1>11, <1>12

(* The types that the steps below compare numbers of.                      *)
LEMMA Numbers ==
    ASSUME Inv
    PROVE  /\ max_order_id \in Nat /\ MaxOrderId \in Nat /\ MaxVersion \in Nat \ {0}
           /\ out \in Seq(Request) /\ inbox \in Seq(Events) /\ acks \in Seq(Refusals)
           /\ \A id \in Ids : id \in Nat /\ seen[id] \in Nat
           /\ \A id \in DOMAIN orders :
                 orders[id] \in Order /\ orders[id].pending.version \in Nat
           /\ \A k \in DOMAIN out :
                 k \in Nat \ {0} /\ out[k] \in Request /\ out[k].version \in Nat
           /\ \A i \in DOMAIN inbox : i \in Nat \ {0} /\ inbox[i] \in Events
           /\ \A id \in Ids : \A i \in News(id) :
                 /\ i \in DOMAIN inbox /\ inbox[i].value \in OrderUpdate
                 /\ inbox[i].value.response \in Nat /\ inbox[i].value.accepted \in Nat
           /\ \A k \in DOMAIN acks : k \in Nat \ {0} /\ acks[k] \in Refusals
<1>1. TypeOK /\ XTypes
    BY DEF Inv, ManagerInv, TypeInv, PathsInv
<1>2. /\ max_order_id \in Nat /\ MaxOrderId \in Nat /\ MaxVersion \in Nat \ {0}
      /\ out \in Seq(Request) /\ inbox \in Seq(Events) /\ acks \in Seq(Refusals)
    BY <1>1, ConstantsAssumption DEF TypeOK, XTypes
<1>3. \A id \in Ids : id \in Nat /\ seen[id] \in Nat
    BY <1>1, <1>2 DEF XTypes, Ids
<1>4. \A id \in DOMAIN orders :
         orders[id] \in Order /\ orders[id].pending.version \in Nat
    BY <1>1 DEF TypeOK, Order, PendingState
<1>5. \A k \in DOMAIN out : k \in Nat \ {0} /\ out[k] \in Request
    BY <1>2
<1>6. \A k \in DOMAIN out : out[k].version \in Nat
    BY <1>5 DEF Request
<1>7. \A i \in DOMAIN inbox : i \in Nat \ {0} /\ inbox[i] \in Events
    BY <1>2
<1>8. ASSUME NEW id \in Ids, NEW i \in News(id)
      PROVE  i \in DOMAIN inbox /\ inbox[i].value \in OrderUpdate
             /\ inbox[i].value.response \in Nat /\ inbox[i].value.accepted \in Nat
    <2>1. i \in DOMAIN inbox /\ inbox[i].kind = "OrderUpdate"
        BY DEF News
    <2>2. inbox[i].value \in OrderUpdate
        BY <1>7, <2>1, EventFacts
    <2>3. QED
        BY <2>1, <2>2 DEF OrderUpdate
<1>9. \A k \in DOMAIN acks : k \in Nat \ {0} /\ acks[k] \in Refusals
    BY <1>2
<1>10. QED
    BY <1>2, <1>3, <1>4, <1>5, <1>6, <1>7, <1>8, <1>9

(* Of an id that was never received nothing is known or told.              *)
LEMMA UnseenFacts ==
    ASSUME Inv, NEW id \in Ids, seen[id] = 0
    PROVE  id \notin DOMAIN live /\ News(id) = {} /\ \A k \in DOMAIN acks : acks[k].id # id
<1>1. id \notin DOMAIN live /\ \A k \in DOMAIN acks : acks[k].id # id
    BY DEF Inv, PathsInv, VersionsInv
<1>2. \A i \in News(id) : inbox[i].value.response \in Nat
                          /\ 1 <= inbox[i].value.response /\ inbox[i].value.response <= 0
    BY Numbers DEF Inv, PathsInv, VersionsInv
<1>3. QED
    BY <1>1, <1>2

LEMMA CreatingKeeps ==
    ASSUME Inv, NEW id, NEW o, NEW r, Creating(id, o, r)
    PROVE  PathsInv'
<1> DEFINE n == Len(out) + 1
<1>1. /\ linked /\ Begins = {} /\ Ends = {}
      /\ \A i \in Ids : seen[i] > 0 => i <= max_order_id
      /\ \A i \in DOMAIN orders : i \in Ids /\ i <= max_order_id
    BY OpenFacts DEF Inv, Creating
<1>2. /\ UNCHANGED <<available, downloading, live, seen, position, inbox, acks, linked>>
      /\ Begins' = Begins /\ Ends' = Ends /\ \A i : News(i)' = News(i)
    BY SameInbox DEF Creating
<1>3. OutGrows(r)
    BY Numbers, OutGrowsFacts DEF Creating
<1>4. /\ n \in Nat /\ n \notin DOMAIN out /\ DOMAIN out' = DOMAIN out \cup {n}
      /\ \A k \in DOMAIN out : k \in Nat /\ k < n /\ out'[k] = out[k]
      /\ out'[n] = r
      /\ \A i : Asked(i)' = IF i = id THEN Asked(i) \cup {n} ELSE Asked(i)
    BY <1>3 DEF OutGrows, Creating
<1> HIDE DEF n
<1>5. /\ id = max_order_id + 1 /\ max_order_id' = id /\ id <= MaxOrderId
      /\ r.id = id /\ r.type = "CREATE" /\ r.version = 1 /\ r.price \in Prices
      /\ max_order_id \in Nat
    BY Numbers DEF Creating
<1>6. id \in Ids /\ seen[id] = 0
    <2>1. id \in Ids
        BY <1>5, Numbers DEF Ids
    <2>2. QED
        BY <1>1, <1>5, <2>1, Numbers
<1>7. /\ id \notin DOMAIN live /\ News(id) = {}
      /\ \A k \in DOMAIN acks : acks[k].id # id
    BY <1>6, UnseenFacts
<1>8. \A k \in DOMAIN out : out[k].id # id /\ out[k].id <= max_order_id /\ out[k].id \in Ids
    BY <1>5 DEF Inv, PathsInv, IdsInv
<1>17. \A i \in Ids : i \in Nat
    BY Numbers
<1>9. /\ DOMAIN orders' = DOMAIN orders \cup {id} /\ id \notin DOMAIN orders
      /\ orders'[id] = o /\ o.pending.version = 1
      /\ \A i \in DOMAIN orders : orders'[i] = orders[i]
    BY DEF Creating, Stored
<1> USE DEF Inv, PathsInv
<1>10. XTypes' /\ LinkInv' /\ FinalInv'
    BY <1>1, <1>2 DEF XTypes, LinkInv, FinalInv
<1>11. DownloadInv'
    <2>1. \A i \in Ids : seen[i] > 0 => i <= max_order_id'
        BY <1>1, <1>5, Numbers
    <2>2. QED
        BY <1>1, <1>2, <2>1 DEF DownloadInv
<1>12. IdsInv'
    <2>4. \A i \in Ids : i <= max_order_id => i <= max_order_id'
        BY <1>5, <1>17
    <2>5. id <= max_order_id'
        BY <1>5
    <2>1. \A i \in DOMAIN orders' : i \in Ids /\ i <= max_order_id'
        BY <1>1, <1>6, <1>9, <2>4, <2>5
    <2>2. \A k \in DOMAIN out' : out'[k].id \in Ids /\ out'[k].id <= max_order_id'
        <3>1. SUFFICES ASSUME NEW k \in DOMAIN out'
              PROVE  out'[k].id \in Ids /\ out'[k].id <= max_order_id'
            OBVIOUS
        <3>2. CASE k = n
            BY <1>4, <1>5, <1>6, <2>5, <3>2
        <3>3. CASE k # n
            BY <1>4, <1>8, <2>4, <3>3
        <3>4. QED
            BY <3>2, <3>3
    <2>3. QED
        BY <1>2, <1>5, <2>1, <2>2 DEF IdsInv
<1>13. VersionsInv'
    <2>1. ASSUME NEW i \in DOMAIN orders'
          PROVE  /\ orders'[i].pending.version >= 1
                 /\ orders'[i].pending.version >= seen[i]
                 /\ \A k \in Asked(i)' : orders'[i].pending.version >= out'[k].version
        <3>1. CASE i = id
            BY <1>4, <1>5, <1>6, <1>8, <1>9, <3>1 DEF Asked
        <3>2. CASE i # id
            BY <1>4, <1>9, <2>1, <3>2 DEF VersionsInv, Asked
        <3>3. QED
            BY <3>1, <3>2
    <2>2. ASSUME NEW k \in DOMAIN out'
          PROVE  /\ out'[k].version > seen[out'[k].id]
                 /\ out'[k].version <= MaxVersion
                 /\ out'[k].price \in Prices
                 /\ out'[k].type = "CREATE" <=> out'[k].version = 1
                 /\ \A l \in DOMAIN out' : out'[l].id = out'[k].id /\ l > k
                                               => out'[l].version > out'[k].version
        <3>1. CASE k = n
            BY <1>4, <1>5, <1>6, <1>8, <3>1, Numbers
        <3>2. CASE k # n
            <4>1. k \in DOMAIN out /\ out'[k] = out[k]
                BY <1>4, <2>2, <3>2
            <4>2. ASSUME NEW l \in DOMAIN out', out'[l].id = out[k].id, l > k
                  PROVE  out'[l].version > out[k].version
                BY <1>4, <1>5, <1>8, <4>1, <4>2 DEF VersionsInv, Asked
            <4>3. QED
                BY <4>1, <4>2 DEF VersionsInv
        <3>3. QED
            BY <3>1, <3>2
    <2>3. QED
        BY <1>2, <2>1, <2>2 DEF VersionsInv, Asked
<1>14. ForgottenInv'
    <2>1. \A k \in DOMAIN out' :
              out'[k].id \notin DOMAIN orders' =>
                 k \in DOMAIN out /\ out'[k] = out[k] /\ out[k].id \notin DOMAIN orders
        BY <1>4, <1>5, <1>9
    <2>2. \A i \in Ids : i \notin DOMAIN orders' =>
              i \notin DOMAIN orders /\ Asked(i)' = Asked(i)
        BY <1>4, <1>9
    <2>3. \A k \in DOMAIN acks : acks[k].id \notin DOMAIN orders' =>
              acks[k].id \notin DOMAIN orders
        BY <1>9
    <2>4. QED
        BY <1>2, <2>1, <2>2, <2>3 DEF ForgottenInv
<1>15. AmendedInv'
    <2>1. \A k \in DOMAIN out' :
              out'[k].type # "CREATE" /\ out'[k].id \in DOMAIN orders' =>
                 /\ k \in DOMAIN out /\ out'[k] = out[k] /\ out[k].id \in DOMAIN orders
                 /\ orders'[out[k].id] = orders[out[k].id]
        BY <1>4, <1>5, <1>8, <1>9
    <2>2. \A k \in DOMAIN acks : acks[k].id \in DOMAIN orders' =>
              acks[k].id \in DOMAIN orders /\ orders'[acks[k].id] = orders[acks[k].id]
        BY <1>7, <1>9
    <2>3. QED
        BY <1>2, <2>1, <2>2 DEF AmendedInv, WasAsked
<1>16. QED
    BY <1>10, <1>11, <1>12, <1>13, <1>14, <1>15

(* A request is taken: the versions seen grow, what is left was sent later. *)
LEMMA TakenFacts ==
    ASSUME Inv, NEW r, Taking(r)
    PROVE  /\ linked /\ Begins = {} /\ Ends = {}
           /\ 1 \in Asked(r.id) /\ r = out[1] /\ 1 \in DOMAIN out
           /\ r.id \in Ids /\ r.id <= max_order_id
           /\ r.version \in Nat \ {0} /\ r.version <= MaxVersion
           /\ r.version > seen[r.id] /\ (r.type = "CREATE" <=> r.version = 1)
           /\ seen' \in [Ids -> 0..MaxVersion]
           /\ seen'[r.id] = r.version
           /\ \A i \in Ids : /\ seen'[i] \in Nat /\ seen[i] \in Nat /\ seen'[i] >= seen[i]
                             /\ i # r.id => seen'[i] = seen[i]
           /\ \A k \in DOMAIN out' :
                 k \in Nat \ {0} /\ k + 1 \in DOMAIN out /\ out'[k] = out[k + 1]
           /\ \A i : Asked(i)' = {k \in DOMAIN out' : k + 1 \in Asked(i)}
           /\ UNCHANGED <<orders, max_order_id, available, downloading, linked, position>>
<1>1. /\ out \in Seq(Request) /\ out # <<>> /\ out' = Tail(out) /\ r = Head(out)
      /\ seen' = [seen EXCEPT ![r.id] = r.version] /\ linked
    BY Numbers DEF Taking
<1>2. OutShrinks
    BY <1>1, OutShrinksFacts
<1>3. /\ 1 \in DOMAIN out /\ r = out[1]
      /\ \A k \in DOMAIN out' :
            k \in Nat \ {0} /\ k + 1 \in DOMAIN out /\ out'[k] = out[k + 1]
      /\ \A i : Asked(i)' = {k \in DOMAIN out' : k + 1 \in Asked(i)}
    BY <1>1, <1>2 DEF OutShrinks
<1>4. Begins = {} /\ Ends = {}
    BY <1>1 DEF Inv, PathsInv, DownloadInv
<1>5. r.version \in Nat
    BY <1>3, Numbers
<1>6. r.id \in Ids /\ r.id <= max_order_id
    BY <1>3 DEF Inv, PathsInv, IdsInv
<1>7. /\ r.version > seen[r.id] /\ r.version <= MaxVersion
      /\ (r.type = "CREATE" <=> r.version = 1)
    BY <1>3 DEF Inv, PathsInv, VersionsInv
<1>8. seen \in [Ids -> 0..MaxVersion] /\ MaxVersion \in Nat /\ \A i \in Ids : seen[i] \in Nat
    BY Numbers DEF Inv, PathsInv, XTypes
<1>9. r.version \in 0..MaxVersion /\ r.version # 0
    BY <1>5, <1>6, <1>7, <1>8
<1>10. seen' \in [Ids -> 0..MaxVersion] /\ seen'[r.id] = r.version
    BY <1>1, <1>6, <1>8, <1>9
<1>11. ASSUME NEW i \in Ids
       PROVE  /\ seen'[i] \in Nat /\ seen[i] \in Nat /\ seen'[i] >= seen[i]
              /\ i # r.id => seen'[i] = seen[i]
    <2>1. CASE i = r.id
        BY <1>5, <1>7, <1>8, <1>10, <2>1
    <2>2. CASE i # r.id
        BY <1>1, <1>8, <2>2
    <2>3. QED
        BY <2>1, <2>2
<1>12. 1 \in Asked(r.id)
    BY <1>3 DEF Asked
<1>13. QED
    BY <1>1, <1>3, <1>4, <1>5, <1>6, <1>7, <1>9, <1>10, <1>11, <1>12 DEF Taking

LEMMA TakenKeeps ==
    ASSUME Inv, NEW r, Taking(r)
    PROVE  /\ \A id \in DOMAIN orders' :
                 /\ orders'[id].pending.version >= 1
                 /\ orders'[id].pending.version >= seen'[id]
                 /\ \A k \in Asked(id)' : orders'[id].pending.version >= out'[k].version
           /\ \A k \in DOMAIN out' :
                 /\ out'[k].version > seen'[out'[k].id]
                 /\ out'[k].version <= MaxVersion
                 /\ out'[k].price \in Prices
                 /\ out'[k].type = "CREATE" <=> out'[k].version = 1
                 /\ \A l \in DOMAIN out' : out'[l].id = out'[k].id /\ l > k
                                               => out'[l].version > out'[k].version
           /\ \A k \in DOMAIN out' : out'[k].id \in Ids /\ out'[k].id <= max_order_id'
           /\ \A id \in DOMAIN orders' : id \in Ids /\ (id <= max_order_id' \/ seen'[id] > 0)
           /\ \A k \in DOMAIN out' :
                 out'[k].type # "CREATE" /\ out'[k].id \in DOMAIN orders'
                    => WasAsked(orders'[out'[k].id])
<1> DEFINE taken == r.id
<1>1. /\ 1 \in Asked(taken) /\ r = out[1] /\ 1 \in DOMAIN out
      /\ taken \in Ids /\ seen'[taken] = r.version
      /\ \A i \in Ids : /\ seen'[i] \in Nat /\ seen[i] \in Nat /\ seen'[i] >= seen[i]
                        /\ i # taken => seen'[i] = seen[i]
      /\ \A k \in DOMAIN out' :
            k \in Nat \ {0} /\ k + 1 \in DOMAIN out /\ out'[k] = out[k + 1]
      /\ \A i : Asked(i)' = {k \in DOMAIN out' : k + 1 \in Asked(i)}
      /\ UNCHANGED <<orders, max_order_id>>
    BY TakenFacts
<1>2. /\ \A k \in DOMAIN out : out[k].id \in Ids /\ out[k].id <= max_order_id
      /\ \A id \in DOMAIN orders : id \in Ids /\ (id <= max_order_id \/ seen[id] > 0)
    BY DEF Inv, PathsInv, IdsInv
<1>3. \A k \in DOMAIN out :
          /\ out[k].version > seen[out[k].id]
          /\ out[k].version <= MaxVersion
          /\ out[k].price \in Prices
          /\ out[k].type = "CREATE" <=> out[k].version = 1
          /\ \A l \in DOMAIN out : out[l].id = out[k].id /\ l > k
                                        => out[l].version > out[k].version
    BY DEF Inv, PathsInv, VersionsInv, Asked
<1>4. \A id \in DOMAIN orders :
          /\ orders[id].pending.version >= 1
          /\ orders[id].pending.version >= seen[id]
          /\ \A k \in Asked(id) : orders[id].pending.version >= out[k].version
    BY DEF Inv, PathsInv, VersionsInv
<1> HIDE DEF taken
<1>5. ASSUME NEW id \in DOMAIN orders'
      PROVE  /\ orders'[id].pending.version >= 1
             /\ orders'[id].pending.version >= seen'[id]
             /\ \A k \in Asked(id)' : orders'[id].pending.version >= out'[k].version
    <2>1. CASE id = taken
        BY <1>1, <1>4, <2>1
    <2>2. CASE id # taken
        BY <1>1, <1>2, <1>4, <2>2
    <2>3. QED
        BY <2>1, <2>2
<1>6. ASSUME NEW k \in DOMAIN out'
      PROVE  /\ out'[k].version > seen'[out'[k].id]
             /\ out'[k].version <= MaxVersion
             /\ out'[k].price \in Prices
             /\ out'[k].type = "CREATE" <=> out'[k].version = 1
             /\ \A l \in DOMAIN out' : out'[l].id = out'[k].id /\ l > k
                                           => out'[l].version > out'[k].version
    <2>1. k \in Nat \ {0} /\ k + 1 > 1 /\ k + 1 \in DOMAIN out /\ out'[k] = out[k + 1]
        BY <1>1
    <2>2. out'[k].version > seen'[out'[k].id]
        <3>1. CASE out'[k].id = taken
            BY <1>1, <1>3, <2>1, <3>1 DEF taken
        <3>2. CASE out'[k].id # taken
            BY <1>1, <1>2, <1>3, <2>1, <3>2
        <3>3. QED
            BY <3>1, <3>2
    <2>3. ASSUME NEW l \in DOMAIN out', out'[l].id = out'[k].id, l > k
          PROVE  out'[l].version > out'[k].version
        <3>1. l + 1 \in DOMAIN out /\ out'[l] = out[l + 1] /\ l + 1 > k + 1
            BY <1>1, <2>1, <2>3
        <3>2. QED
            BY <1>3, <2>1, <2>3, <3>1
    <2>4. QED
        BY <1>3, <2>1, <2>2, <2>3
<1>7. \A id \in DOMAIN orders' : id \in Ids /\ (id <= max_order_id' \/ seen'[id] > 0)
    BY <1>1, <1>2
<1>8. \A k \in DOMAIN out' : out'[k].id \in Ids /\ out'[k].id <= max_order_id'
    BY <1>1, <1>2
<1>9. \A k \in DOMAIN out' :
          out'[k].type # "CREATE" /\ out'[k].id \in DOMAIN orders'
             => WasAsked(orders'[out'[k].id])
    <2>1. \A k \in DOMAIN out :
              out[k].type # "CREATE" /\ out[k].id \in DOMAIN orders
                 => WasAsked(orders[out[k].id])
        BY DEF Inv, PathsInv, AmendedInv
    <2>2. QED
        BY <1>1, <2>1
<1>10. QED
    BY <1>5, <1>6, <1>7, <1>8, <1>9

(* News of an order is put at the end of the inbox.                        *)
LEMMA ToldFacts ==
    ASSUME Inv, NEW id \in Ids, NEW e, NEW x, NEW response, NewsOf(e, id, x, response),
           inbox' = Append(inbox, e)
    PROVE  LET m == Len(inbox) + 1
           IN  /\ inbox' \in Seq(Events)
               /\ m \in Nat /\ m \notin DOMAIN inbox
               /\ DOMAIN inbox' = DOMAIN inbox \cup {m}
               /\ \A i \in DOMAIN inbox : i \in Nat /\ i < m /\ inbox'[i] = inbox[i]
               /\ inbox'[m] = e
               /\ Begins' = Begins /\ Ends' = Ends
               /\ \A i : News(i)' = IF i = id THEN News(i) \cup {m} ELSE News(i)
<1>1. e \in Events /\ e.kind = "OrderUpdate" /\ e.value.id = id
    BY DEF NewsOf, Events, Reports
<1>2. Grows(e)
    BY <1>1, Numbers, GrowsFacts
<1>3. QED
    BY <1>1, <1>2 DEF Grows

(* News of id is at m, behind what was told of any order before, and ahead *)
(* of the end of a download or behind everything.                          *)
ToldAt(m, id, e) ==
    /\ m \in Nat
    /\ inbox' \in Seq(Events)
    /\ inbox'[m] = e
    /\ \A i : News(i)' = IF i = id THEN News(i) \cup {m} ELSE News(i)
    /\ \A i : \A j \in News(i) : j \in Nat /\ j < m /\ inbox'[j] = inbox[j]
    /\ Begins' = Begins
    /\ Ends \subseteq Nat /\ Ends' \subseteq Nat
    /\ \A j, k \in Ends' : j = k
    /\ \A j \in Ends' : \E i \in Ends : inbox'[j] = inbox[i]
    /\ \A i \in Ends : \E j \in Ends' : i <= j

LEMMA SlippedFacts ==
    ASSUME Inv, NEW id \in Ids, NEW e, NEW x, NEW response, NewsOf(e, id, x, response),
           Slipped(e)
    PROVE  ToldAt(Len(inbox), id, e)
<1> DEFINE m == Len(inbox)
<1>1. /\ m \in Nat /\ DOMAIN inbox = 1..m
      /\ e.kind = "OrderUpdate" /\ e.value.id = id
    <2>1. inbox \in Seq(Events)
        BY DEF Inv, PathsInv, XTypes
    <2>2. QED
        BY <2>1 DEF NewsOf, Reports
<1>2. PICK n \in {m + 1, m + 2} :
          /\ DOMAIN inbox' = 1..n
          /\ inbox'[n] = inbox[m]
          /\ n = m + 2 => inbox'[m + 1].kind = "PositionUpdate"
    BY DEF Slipped
<1>3. /\ m \in Ends /\ inbox' \in Seq(Events) /\ inbox'[m] = e
      /\ \A i \in DOMAIN inbox : i # m => inbox'[i] = inbox[i]
    BY DEF Slipped
<1>4. Ends = {m} /\ inbox[m].kind = "DownloadEnd"
    BY <1>3 DEF Ends, Inv, PathsInv, DownloadInv
<1> HIDE DEF m
<1>5. /\ n \in Nat /\ m < n /\ m \in DOMAIN inbox'
      /\ \A i \in DOMAIN inbox : i \in Nat /\ i <= m /\ i \in DOMAIN inbox'
    <2>1. m \in 1..m
        BY <1>1, <1>3 DEF Ends
    <2>2. n \in Nat /\ m < n /\ m \in 1..n /\ \A i \in 1..m : i \in Nat /\ i <= m /\ i \in 1..n
        BY <1>1, <2>1
    <2>3. QED
        BY <1>1, <1>2, <2>2
<1>6. \A i \in DOMAIN inbox' :
          \/ i \in DOMAIN inbox /\ i < m /\ inbox'[i] = inbox[i]
          \/ i = m
          \/ i # n /\ inbox'[i].kind = "PositionUpdate"
          \/ i = n /\ inbox'[i].kind = "DownloadEnd"
    <2>1. ASSUME NEW i \in DOMAIN inbox', i # m
          PROVE  (i \in DOMAIN inbox /\ i < m) \/ (i = m + 1 /\ n = m + 2) \/ i = n
        BY <1>1, <1>2, <2>1
    <2>2. QED
        BY <1>1, <1>2, <1>3, <1>4, <2>1
<1>7. \A i : \A j \in News(i) : j \in Nat /\ j < m /\ inbox'[j] = inbox[j] /\ j \in DOMAIN inbox'
    <2>1. \A i : \A j \in News(i) : j \in DOMAIN inbox /\ j # m
        BY <1>4 DEF News
    <2>2. QED
        BY <1>1, <1>3, <1>5, <2>1
<1>8. \A i : News(i)' = IF i = id THEN News(i) \cup {m} ELSE News(i)
    <2>1. ASSUME NEW i, NEW j \in News(i)' PROVE j \in News(i) \/ (j = m /\ i = id)
        BY <1>1, <1>3, <1>6, <2>1 DEF News
    <2>2. \A i : News(i) \subseteq News(i)'
        BY <1>7 DEF News
    <2>3. m \in News(id)'
        BY <1>1, <1>3, <1>5 DEF News
    <2>4. QED
        BY <2>1, <2>2, <2>3
<1>9. Begins' = Begins
    <2>1. Begins' \subseteq Begins
        BY <1>1, <1>3, <1>6 DEF Begins
    <2>2. Begins \subseteq Begins'
        BY <1>3, <1>4, <1>5 DEF Begins
    <2>3. QED
        BY <2>1, <2>2
<1>10. Ends' = {n}
    <2>1. \A i \in DOMAIN inbox : i < m => inbox[i].kind # "DownloadEnd"
        BY <1>1, <1>4 DEF Ends
    <2>2. Ends' \subseteq {n}
        BY <1>1, <1>3, <1>6, <2>1 DEF Ends
    <2>3. n \in Ends'
        BY <1>2, <1>4, <1>5 DEF Ends
    <2>4. QED
        BY <2>2, <2>3
<1>11. \A j \in Ends' : \E i \in Ends : inbox'[j] = inbox[i]
    BY <1>2, <1>4, <1>10
<1>12. \A i \in Ends : \E j \in Ends' : i <= j
    BY <1>1, <1>4, <1>5, <1>10
<1>13. QED
    BY <1>1, <1>3, <1>4, <1>5, <1>7, <1>8, <1>9, <1>10, <1>11, <1>12 DEF ToldAt, m

LEMMA MovingTold ==
    ASSUME Inv, NEW id, NEW x, NEW e, Moving(id, x, e), linked
    PROVE  \E m : ToldAt(m, id, e)
<1>1. id \in Ids /\ NewsOf(e, id, x, seen[id])
    BY DEF Moving, Inv, PathsInv, XTypes
<1>2. CASE Slipped(e)
    BY <1>1, <1>2, SlippedFacts
<1>3. CASE ~Slipped(e)
    <2> DEFINE m == Len(inbox) + 1
    <2>1. inbox' = Append(inbox, e)
        BY <1>3 DEF Moving
    <2>2. /\ inbox' \in Seq(Events)
          /\ m \in Nat
          /\ \A i \in DOMAIN inbox : i \in Nat /\ i < m /\ inbox'[i] = inbox[i]
          /\ inbox'[m] = e
          /\ Begins' = Begins /\ Ends' = Ends
          /\ \A i : News(i)' = IF i = id THEN News(i) \cup {m} ELSE News(i)
        BY <1>1, <2>1, ToldFacts
    <2> HIDE DEF m
    <2>3. /\ \A i : News(i) \subseteq DOMAIN inbox
          /\ Ends \subseteq DOMAIN inbox
        BY DEF News, Ends
    <2>4. /\ \A i : \A j \in News(i) : j \in Nat /\ j < m /\ inbox'[j] = inbox[j]
          /\ \A j \in Ends : j \in Nat /\ inbox'[j] = inbox[j]
        BY <2>2, <2>3
    <2>5. \A j, k \in Ends : j = k
        BY DEF Inv, PathsInv, DownloadInv
    <2>6. /\ \A j \in Ends' : \E i \in Ends : inbox'[j] = inbox[i]
          /\ \A i \in Ends : \E j \in Ends' : i <= j
        BY <2>2, <2>4
    <2>7. ToldAt(m, id, e)
        BY <2>2, <2>4, <2>5, <2>6 DEF ToldAt
    <2>8. QED
        BY <2>7
<1>4. QED
    BY <1>2, <1>3

(* Either way only k may change.                                           *)
Changed(f, g, k, v) ==
    /\ DOMAIN g \subseteq DOMAIN f \cup {k}
    /\ \A i \in DOMAIN f : i # k => i \in DOMAIN g
    /\ \A i \in DOMAIN g : \/ g[i] = v /\ i = k
                           \/ g[i] = f[i] /\ i \in DOMAIN f
    /\ g = [i \in DOMAIN g |-> g[i]]

LEMMA ChangedFacts ==
    ASSUME NEW f, NEW g, NEW k, NEW v, Stored(f, g, k, v) \/ Dropped(f, g, k)
    PROVE  Changed(f, g, k, v)
<1>1. CASE Stored(f, g, k, v)
    BY <1>1 DEF Stored, Changed
<1>2. CASE Dropped(f, g, k)
    BY <1>2 DEF Dropped, Changed
<1>3. QED
    BY <1>1, <1>2

LEMMA AcceptingKeeps ==
    ASSUME Inv, NEW r, NEW x, NEW e, Accepting(r, x, e)
    PROVE  PathsInv'
<1> DEFINE id == r.id
           m == Len(inbox) + 1
<1>1. /\ Taking(r)
      /\ x \in LiveOrder /\ x.accepted = r.version
      /\ NewsOf(e, id, x, r.version) /\ inbox' = Append(inbox, e)
      /\ UNCHANGED acks
      /\ \/ r.type = "CREATE" /\ Stored(live, live', id, x) /\ e.value.status = "WORKING"
         \/ r.type # "CREATE" /\ id \in DOMAIN live
            /\ \/ Stored(live, live', id, x) /\ e.value.status = "WORKING"
               \/ Dropped(live, live', id) /\ e.value.status = "CANCELED"
    BY DEF Accepting
<1>2. /\ linked /\ Begins = {} /\ Ends = {}
      /\ 1 \in Asked(id) /\ r = out[1] /\ 1 \in DOMAIN out
      /\ id \in Ids /\ id <= max_order_id
      /\ r.version \in Nat \ {0}
      /\ r.version > seen[id] /\ (r.type = "CREATE" <=> r.version = 1)
      /\ seen' \in [Ids -> 0..MaxVersion] /\ seen'[id] = r.version
      /\ \A i \in Ids : /\ seen'[i] \in Nat /\ seen[i] \in Nat /\ seen'[i] >= seen[i]
                        /\ i # id => seen'[i] = seen[i]
      /\ \A k \in DOMAIN out' :
            k \in Nat \ {0} /\ k + 1 \in DOMAIN out /\ out'[k] = out[k + 1]
      /\ \A i : Asked(i)' = {k \in DOMAIN out' : k + 1 \in Asked(i)}
      /\ UNCHANGED <<orders, max_order_id, available, downloading, linked, position>>
    BY <1>1, TakenFacts
<1>3. /\ inbox' \in Seq(Events)
      /\ m \in Nat /\ m \notin DOMAIN inbox /\ DOMAIN inbox' = DOMAIN inbox \cup {m}
      /\ \A i \in DOMAIN inbox : i \in Nat /\ i < m /\ inbox'[i] = inbox[i]
      /\ inbox'[m] = e /\ Begins' = Begins /\ Ends' = Ends
      /\ \A i : News(i)' = IF i = id THEN News(i) \cup {m} ELSE News(i)
    BY <1>1, <1>2, ToldFacts
<1>4. /\ e.kind = "OrderUpdate" /\ e.value.id = id /\ ~e.value.stale
      /\ e.value.response = r.version /\ e.value.accepted = r.version
    BY <1>1 DEF NewsOf, Reports
<1>5. r.type = "CREATE" => /\ id \notin DOMAIN live /\ News(id) = {}
                           /\ \A k \in DOMAIN acks : acks[k].id # id
    <2>1. r.type = "CREATE" => seen[id] = 0
        BY <1>2
    <2>2. QED
        BY <1>2, <2>1, UnseenFacts
<1>6. /\ DOMAIN live' \subseteq DOMAIN live \cup {id}
      /\ \A i \in DOMAIN live : i # id => i \in DOMAIN live'
      /\ \A i \in DOMAIN live' : \/ live'[i] = x /\ i = id
                                 \/ live'[i] = live[i] /\ i \in DOMAIN live
      /\ \/ e.value.status = "WORKING"
         \/ e.value.status = "CANCELED" /\ id \notin DOMAIN live'
      /\ live' = [i \in DOMAIN live' |-> live'[i]]
    <2>1. Stored(live, live', id, x) \/ Dropped(live, live', id)
        BY <1>1
    <2>2. \/ e.value.status = "WORKING"
          \/ e.value.status = "CANCELED" /\ id \notin DOMAIN live'
        BY <1>1 DEF Dropped
    <2>3. Changed(live, live', id, x)
        BY <2>1, ChangedFacts
    <2>4. QED
        BY <2>2, <2>3 DEF Changed
<1>7. id \in DOMAIN orders
    BY <1>1, <1>2, <1>5 DEF Inv, PathsInv, ForgottenInv
<1>8. \A i \in Ids : \A j \in News(i) : j \in DOMAIN inbox /\ inbox'[j] = inbox[j] /\ j < m
    BY <1>3 DEF News
<1>9. \A i \in Ids : \A j \in News(i)' :
          \/ j = m /\ i = id
          \/ j \in News(i) /\ inbox'[j] = inbox[j] /\ j < m
    BY <1>3, <1>8
<1> HIDE DEF m, id
<1> USE DEF Inv, PathsInv
<1>10. XTypes'
    <2>1. live' \in [DOMAIN live' -> LiveOrder] /\ DOMAIN live' \subseteq Ids
        <3>1. \A i \in DOMAIN live' : live'[i] \in LiveOrder
            BY <1>1, <1>6 DEF XTypes
        <3>2. QED
            BY <1>2, <1>6, <3>1 DEF XTypes
    <2>2. QED
        BY <1>1, <1>2, <1>3, <2>1 DEF XTypes
<1>11. LinkInv' /\ DownloadInv'
    <2>1. \A i \in Ids : seen'[i] > 0 => i <= max_order_id'
        BY <1>2 DEF DownloadInv
    <2>2. QED
        BY <1>2, <1>3, <2>1 DEF LinkInv, DownloadInv
<1>12. IdsInv'
    <2>1. /\ \A k \in DOMAIN out' : out'[k].id \in Ids /\ out'[k].id <= max_order_id'
          /\ \A i \in DOMAIN orders' : i \in Ids /\ (i <= max_order_id' \/ seen'[i] > 0)
        BY <1>1, TakenKeeps
    <2>2. \A i \in DOMAIN inbox' :
              inbox'[i].kind = "OrderUpdate" => inbox'[i].value.id \in Ids
        BY <1>2, <1>3, <1>4 DEF IdsInv
    <2>3. \A k \in DOMAIN acks' : acks'[k].id \in Ids
        BY <1>1 DEF IdsInv
    <2>4. max_order_id' <= MaxOrderId
        BY <1>2 DEF IdsInv
    <2>5. QED
        BY <2>1, <2>2, <2>3, <2>4 DEF IdsInv
<1>13. VersionsInv'
    <2>1. \A i \in DOMAIN live' : seen'[i] >= 1 /\ live'[i].accepted >= 1
        BY <1>1, <1>2, <1>6 DEF VersionsInv, XTypes
    <2>2. ASSUME NEW i \in Ids, NEW j \in News(i)'
          PROVE  /\ 1 <= inbox'[j].value.response /\ inbox'[j].value.response <= seen'[i]
                 /\ inbox'[j].value.accepted >= 1
                 /\ ~inbox'[j].value.stale
                 /\ inbox'[j].value.status \in {"WORKING", "COMPLETED", "CANCELED"}
        <3>1. CASE j = m /\ i = id
            BY <1>2, <1>3, <1>4, <1>6, <3>1
        <3>2. CASE j \in News(i) /\ inbox'[j] = inbox[j]
            <4>1. inbox[j].value.response \in Nat
                BY <3>2, Numbers
            <4>2. QED
                BY <1>2, <3>2, <4>1 DEF VersionsInv
        <3>3. QED
            BY <1>9, <3>1, <3>2
    <2>3. \A k \in DOMAIN acks : seen'[acks[k].id] >= 1
        BY <1>2 DEF VersionsInv, IdsInv
    <2>4. QED
        BY <1>1, <2>1, <2>2, <2>3, TakenKeeps DEF VersionsInv, Asked
<1>14. FinalInv'
    <2>1. SUFFICES ASSUME NEW i \in Ids, NEW j \in News(i)', IsFinal(inbox'[j].value)
          PROVE  i \notin DOMAIN live' /\ \A l \in News(i)' : l <= j
        BY DEF FinalInv, IsFinal
    <2>2. CASE i = id
        <3>1. id \in DOMAIN live \/ News(id) = {}
            BY <1>1, <1>5
        <3>2. \A l \in News(id) : ~IsFinal(inbox[l].value)
            BY <1>2, <3>1 DEF FinalInv
        <3>3. j = m
            BY <1>9, <2>1, <2>2, <3>2
        <3>4. id \notin DOMAIN live'
            BY <1>3, <1>6, <2>1, <3>3 DEF IsFinal
        <3>5. QED
            BY <1>3, <1>9, <2>2, <3>3, <3>4
    <2>3. CASE i # id
        <3>1. j \in News(i) /\ inbox'[j] = inbox[j] /\ News(i)' = News(i)
            BY <1>3, <1>9, <2>1, <2>3
        <3>2. i \notin DOMAIN live /\ \A l \in News(i) : l <= j
            BY <2>1, <3>1 DEF FinalInv
        <3>3. QED
            BY <1>6, <2>3, <3>1, <3>2
    <2>4. QED
        BY <2>2, <2>3
<1>15. ForgottenInv'
    <2>1. ASSUME NEW k \in DOMAIN out', NEW i, i = out'[k].id, i \notin DOMAIN orders'
          PROVE  out'[k].type # "CREATE" /\ i \notin DOMAIN live' /\ News(i)' = {}
        <3>1. k + 1 \in DOMAIN out /\ out'[k] = out[k + 1] /\ i \notin DOMAIN orders
            BY <1>2, <2>1
        <3>2. out[k + 1].type # "CREATE" /\ i \notin DOMAIN live /\ News(i) = {}
            BY <2>1, <3>1 DEF ForgottenInv
        <3>3. i # id
            BY <1>7, <3>1
        <3>4. QED
            BY <1>3, <1>6, <3>1, <3>2, <3>3
    <2>2. ASSUME NEW k \in DOMAIN acks, NEW i, i = acks[k].id
          PROVE  /\ acks[k].type = "CREATE" \/ i \notin DOMAIN orders =>
                       i \notin DOMAIN live' /\ News(i)' = {}
                 /\ acks[k].error = "TOO_LATE_TO_MODIFY_OR_CANCEL" =>
                       acks[k].type # "CREATE" /\ i \notin DOMAIN live'
        <3>1. /\ acks[k].type = "CREATE" \/ i \notin DOMAIN orders =>
                    i \notin DOMAIN live /\ News(i) = {}
              /\ acks[k].error = "TOO_LATE_TO_MODIFY_OR_CANCEL" =>
                    acks[k].type # "CREATE" /\ i \notin DOMAIN live
            BY <2>2 DEF ForgottenInv
        <3>2. i = id => id \in DOMAIN live
            BY <1>1, <1>5, <2>2
        <3>3. i # id => /\ News(i)' = News(i)
                        /\ i \in DOMAIN live' => i \in DOMAIN live
            BY <1>3, <1>6
        <3>4. QED
            BY <3>1, <3>2, <3>3
    <2>3. ASSUME NEW i \in Ids, NEW j \in News(i)', i \notin DOMAIN orders',
                 inbox'[j].value.status = "WORKING"
          PROVE  inbox'[j].value.response = seen'[i] /\ Asked(i)' = {}
        <3>1. i # id /\ i \notin DOMAIN orders
            BY <1>2, <1>7, <2>3
        <3>2. j \in News(i) /\ inbox'[j] = inbox[j] /\ seen'[i] = seen[i]
            BY <1>2, <1>9, <3>1
        <3>3. inbox[j].value.response = seen[i] /\ Asked(i) = {}
            BY <2>3, <3>1, <3>2 DEF ForgottenInv
        <3>4. QED
            BY <1>2, <3>2, <3>3
    <2>4. QED
        BY <1>1, <1>2, <2>1, <2>2, <2>3 DEF ForgottenInv
<1>16. AmendedInv'
    BY <1>1, <1>2, TakenKeeps DEF AmendedInv
<1>17. QED
    BY <1>10, <1>11, <1>12, <1>13, <1>14, <1>15, <1>16

LEMMA RefusingKeeps ==
    ASSUME Inv, NEW r, NEW a, Refusing(r, a)
    PROVE  PathsInv'
<1> DEFINE id == r.id
           n == Len(acks) + 1
<1>1. /\ Taking(r) /\ UNCHANGED <<live, inbox>>
      /\ Begins' = Begins /\ Ends' = Ends /\ \A i : News(i)' = News(i)
      /\ a \in Refusals /\ a.id = id /\ a.type = r.type
      /\ a.error = "TOO_LATE_TO_MODIFY_OR_CANCEL"
            => r.type # "CREATE" /\ id \notin DOMAIN live
    BY SameInbox DEF Refusing
<1>2. /\ linked /\ Begins = {} /\ Ends = {}
      /\ 1 \in Asked(id) /\ r = out[1] /\ 1 \in DOMAIN out
      /\ id \in Ids /\ id <= max_order_id
      /\ r.version \in Nat \ {0}
      /\ r.version > seen[id] /\ (r.type = "CREATE" <=> r.version = 1)
      /\ seen' \in [Ids -> 0..MaxVersion] /\ seen'[id] = r.version
      /\ \A i \in Ids : /\ seen'[i] \in Nat /\ seen[i] \in Nat /\ seen'[i] >= seen[i]
                        /\ i # id => seen'[i] = seen[i]
      /\ \A k \in DOMAIN out' :
            k \in Nat \ {0} /\ k + 1 \in DOMAIN out /\ out'[k] = out[k + 1]
      /\ \A i : Asked(i)' = {k \in DOMAIN out' : k + 1 \in Asked(i)}
      /\ UNCHANGED <<orders, max_order_id, available, downloading, linked, position>>
    BY <1>1, TakenFacts
<1>3. /\ acks' \in Seq(Refusals)
      /\ n \notin DOMAIN acks /\ DOMAIN acks' = DOMAIN acks \cup {n}
      /\ \A k \in DOMAIN acks : acks'[k] = acks[k]
      /\ acks'[n] = a
    <2>1. AcksGrow(a)
        BY Numbers, AcksGrowFacts DEF Refusing
    <2>2. QED
        BY <2>1 DEF AcksGrow
<1>4. r.type = "CREATE" => id \notin DOMAIN live /\ News(id) = {}
    <2>1. r.type = "CREATE" => seen[id] = 0
        BY <1>2
    <2>2. QED
        BY <1>2, <2>1, UnseenFacts
<1>5. id \notin DOMAIN orders => id \notin DOMAIN live /\ News(id) = {}
    BY <1>2 DEF Inv, PathsInv, ForgottenInv
<1>6. r.type # "CREATE" /\ id \in DOMAIN orders => WasAsked(orders[id])
    BY <1>2 DEF Inv, PathsInv, AmendedInv
<1> HIDE DEF n, id
<1> USE DEF Inv, PathsInv
<1>10. XTypes'
    BY <1>1, <1>2, <1>3 DEF XTypes
<1>11. LinkInv' /\ DownloadInv'
    <2>1. \A i \in Ids : seen'[i] > 0 => i <= max_order_id'
        BY <1>2 DEF DownloadInv
    <2>2. QED
        BY <1>1, <1>2, <2>1 DEF LinkInv, DownloadInv
<1>12. IdsInv'
    <2>1. /\ \A k \in DOMAIN out' : out'[k].id \in Ids /\ out'[k].id <= max_order_id'
          /\ \A i \in DOMAIN orders' : i \in Ids /\ (i <= max_order_id' \/ seen'[i] > 0)
        BY <1>1, TakenKeeps
    <2>2. \A k \in DOMAIN acks' : acks'[k].id \in Ids
        BY <1>1, <1>2, <1>3 DEF IdsInv
    <2>3. /\ max_order_id' <= MaxOrderId
          /\ \A i \in DOMAIN inbox' :
                inbox'[i].kind = "OrderUpdate" => inbox'[i].value.id \in Ids
        BY <1>1, <1>2 DEF IdsInv
    <2>4. QED
        BY <2>1, <2>2, <2>3 DEF IdsInv
<1>13. VersionsInv'
    <2>1. \A i \in DOMAIN live' : seen'[i] >= 1 /\ live'[i].accepted >= 1
        BY <1>1, <1>2 DEF VersionsInv, XTypes
    <2>2. ASSUME NEW i \in Ids, NEW j \in News(i)'
          PROVE  /\ 1 <= inbox'[j].value.response /\ inbox'[j].value.response <= seen'[i]
                 /\ inbox'[j].value.accepted >= 1
                 /\ ~inbox'[j].value.stale
                 /\ inbox'[j].value.status \in {"WORKING", "COMPLETED", "CANCELED"}
        <3>1. j \in News(i) /\ inbox'[j] = inbox[j] /\ inbox[j].value.response \in Nat
            BY <1>1, Numbers
        <3>2. QED
            BY <1>2, <3>1 DEF VersionsInv
    <2>3. \A k \in DOMAIN acks' : seen'[acks'[k].id] >= 1
        BY <1>1, <1>2, <1>3 DEF VersionsInv, IdsInv
    <2>4. QED
        BY <1>1, <2>1, <2>2, <2>3, TakenKeeps DEF VersionsInv, Asked
<1>14. FinalInv'
    BY <1>1 DEF FinalInv
<1>15. ForgottenInv'
    <2>1. \A k \in DOMAIN out' : out'[k].id \notin DOMAIN orders' =>
              /\ out'[k].type # "CREATE"
              /\ out'[k].id \notin DOMAIN live'
              /\ News(out'[k].id) = {}
        BY <1>1, <1>2 DEF ForgottenInv
    <2>2. ASSUME NEW k \in DOMAIN acks', NEW i, i = acks'[k].id
          PROVE  /\ acks'[k].type = "CREATE" \/ i \notin DOMAIN orders =>
                       i \notin DOMAIN live /\ News(i) = {}
                 /\ acks'[k].error = "TOO_LATE_TO_MODIFY_OR_CANCEL" =>
                       acks'[k].type # "CREATE" /\ i \notin DOMAIN live
        <3>1. CASE k = n
            BY <1>1, <1>3, <1>4, <1>5, <2>2, <3>1
        <3>2. CASE k # n
            <4>1. k \in DOMAIN acks /\ acks'[k] = acks[k]
                BY <1>3, <2>2, <3>2
            <4>2. QED
                BY <2>2, <4>1 DEF ForgottenInv
        <3>3. QED
            BY <3>1, <3>2
    <2>3. ASSUME NEW i \in Ids, NEW j \in News(i)', i \notin DOMAIN orders',
                 inbox'[j].value.status = "WORKING"
          PROVE  inbox'[j].value.response = seen'[i] /\ Asked(i)' = {}
        <3>1. i \notin DOMAIN orders /\ j \in News(i) /\ inbox'[j] = inbox[j]
            BY <1>1, <1>2, <2>3
        <3>2. inbox[j].value.response = seen[i] /\ Asked(i) = {}
            BY <2>3, <3>1 DEF ForgottenInv
        <3>3. i # id
            BY <1>2, <3>2
        <3>4. QED
            BY <1>2, <3>1, <3>2, <3>3
    <2>4. QED
        BY <1>1, <1>2, <2>1, <2>2, <2>3 DEF ForgottenInv
<1>16. AmendedInv'
    <2>1. \A k \in DOMAIN out' :
              out'[k].type # "CREATE" /\ out'[k].id \in DOMAIN orders'
                 => WasAsked(orders'[out'[k].id])
        BY <1>1, TakenKeeps
    <2>2. \A k \in DOMAIN acks' :
              acks'[k].type # "CREATE" /\ acks'[k].id \in DOMAIN orders
                 => WasAsked(orders[acks'[k].id])
        BY <1>1, <1>3, <1>6 DEF AmendedInv
    <2>3. QED
        BY <1>2, <2>1, <2>2 DEF AmendedInv
<1>17. QED
    BY <1>10, <1>11, <1>12, <1>13, <1>14, <1>15, <1>16

(* Nothing is left on any path.                                            *)
LEMMA NothingFacts ==
    /\ inbox' = <<>> => Begins' = {} /\ Ends' = {} /\ \A id : News(id)' = {}
    /\ out' = <<>> => \A id : Asked(id)' = {}
    BY EmptyFacts DEF Begins, Ends, News, Asked

LEMMA MovingKeeps ==
    ASSUME Inv, NEW id, NEW x, NEW e, Moving(id, x, e)
    PROVE  PathsInv'
<1>1. /\ id \in DOMAIN live /\ id \in Ids /\ x \in LiveOrder /\ x.accepted = live[id].accepted
      /\ NewsOf(e, id, x, seen[id])
      /\ Changed(live, live', id, x)
      /\ e.value.status = "WORKING" \/ id \notin DOMAIN live'
      /\ ~linked => inbox' = inbox
      /\ UNCHANGED <<orders, max_order_id, out, available, downloading, seen, acks, linked>>
      /\ \A i : Asked(i)' = Asked(i)
    BY ChangedFacts, SameOut DEF Moving, Slipped, Dropped, Inv, PathsInv, XTypes
<1>2. PICK m \in Nat :
          /\ inbox' \in Seq(Events)
          /\ \A i : i # id => News(i)' = News(i)
          /\ \A i : \A j \in News(i)' :
                \/ j = m /\ i = id /\ inbox'[j] = e
                \/ j \in News(i) /\ inbox'[j] = inbox[j] /\ j \in Nat /\ j < m
          /\ Begins' = Begins
          /\ \A j, k \in Ends' : j = k
          /\ \A j \in Ends' : \E i \in Ends : inbox'[j] = inbox[i]
          /\ Ends' = {} => Ends = {}
    <2>1. CASE linked
        <3>1. PICK m : ToldAt(m, id, e)
            BY <2>1, MovingTold
        <3>2. /\ \A i : i # id => News(i)' = News(i)
              /\ \A i : \A j \in News(i)' :
                    \/ j = m /\ i = id /\ inbox'[j] = e
                    \/ j \in News(i) /\ inbox'[j] = inbox[j] /\ j \in Nat /\ j < m
            BY <3>1 DEF ToldAt
        <3>3. /\ m \in Nat /\ inbox' \in Seq(Events) /\ Begins' = Begins
              /\ \A j, k \in Ends' : j = k
              /\ \A j \in Ends' : \E i \in Ends : inbox'[j] = inbox[i]
              /\ Ends' = {} => Ends = {}
            BY <3>1 DEF ToldAt
        <3>4. QED
            BY <3>2, <3>3
    <2>2. CASE ~linked
        <3>1. inbox = <<>> /\ inbox' = <<>>
            BY <1>1, <2>2 DEF Inv, PathsInv, LinkInv
        <3>2. /\ \A i : News(i)' = {} /\ News(i) = {}
              /\ Begins' = {} /\ Begins = {} /\ Ends' = {} /\ Ends = {}
            BY <3>1, NothingFacts, SameInbox
        <3>3. inbox' \in Seq(Events) /\ 0 \in Nat
            BY <3>1
        <3>4. QED
            BY <3>2, <3>3
    <2>3. QED
        BY <2>1, <2>2
<1>3. /\ DOMAIN live' \subseteq DOMAIN live
      /\ \A i \in DOMAIN live : i # id => i \in DOMAIN live'
      /\ \A i \in DOMAIN live' : \/ live'[i] = x /\ i = id
                                 \/ live'[i] = live[i]
      /\ live' = [i \in DOMAIN live' |-> live'[i]]
    BY <1>1 DEF Changed
<1>4. /\ e.kind = "OrderUpdate" /\ e.value.id = id /\ ~e.value.stale
      /\ e.value.response = seen[id] /\ e.value.accepted = live[id].accepted
      /\ e.value.status \in {"WORKING", "COMPLETED", "CANCELED"}
      /\ seen[id] >= 1 /\ seen[id] \in Nat /\ live[id].accepted >= 1
    BY <1>1, Numbers DEF NewsOf, Reports, Inv, PathsInv, VersionsInv
<1>5. /\ \A j \in News(id) : ~IsFinal(inbox[j].value)
      /\ \A k \in DOMAIN out : out[k].id = id => id \in DOMAIN orders
      /\ \A k \in DOMAIN acks : acks[k].id = id => /\ acks[k].type # "CREATE"
                                                   /\ id \in DOMAIN orders
                                                   /\ acks[k].error # "TOO_LATE_TO_MODIFY_OR_CANCEL"
    BY <1>1 DEF Inv, PathsInv, FinalInv, ForgottenInv
<1>6. \A i \in Ids : \A j \in News(i)' :
          \/ j = m /\ i = id /\ inbox'[j] = e
          \/ j \in News(i) /\ inbox'[j] = inbox[j] /\ j \in Nat /\ j < m
    BY <1>2
<1> USE DEF Inv, PathsInv
<1>10. XTypes'
    <2>1. \A i \in DOMAIN live' : live'[i] \in LiveOrder
        BY <1>1, <1>3 DEF XTypes
    <2>2. live' \in [DOMAIN live' -> LiveOrder]
        BY <1>3, <2>1
    <2>3. position' \in Int
        <3>1. x.traded \in Nat /\ live[id].traded \in Nat /\ position \in Int
            BY <1>1 DEF LiveOrder, XTypes
        <3>2. position' = position + Signed(x.side, x.traded - live[id].traded)
            BY DEF Moving
        <3>3. QED
            BY <3>1, <3>2 DEF Signed
    <2>4. QED
        BY <1>1, <1>2, <1>3, <2>2, <2>3 DEF XTypes
<1>11. LinkInv'
    BY <1>1, <1>2 DEF LinkInv
<1>12. DownloadInv'
    <2>1. ASSUME NEW j \in Ends', NEW i \in Ids, NEW l \in News(i)'
          PROVE  inbox'[l].value.response = seen[i]
        <3>1. CASE l \in News(i) /\ inbox'[l] = inbox[l]
            BY <1>2, <2>1, <3>1 DEF DownloadInv
        <3>2. QED
            BY <1>4, <1>6, <3>1
    <2>2. Begins' # {} => Ends' # {}
        BY <1>2 DEF DownloadInv
    <2>3. \A j \in Ends' : \A i \in Ids : seen[i] > 0 => i <= inbox'[j].value
        BY <1>2 DEF DownloadInv
    <2>4. Ends' # {} => out = <<>> /\ acks = <<>> /\ (downloading \/ Begins # {})
        BY <1>2 DEF DownloadInv
    <2>5. \A i \in Begins : i = 1 /\ available = {}
        BY DEF DownloadInv
    <2>6. linked /\ Ends' = {} => \A i \in Ids : seen[i] > 0 => i <= max_order_id
        BY <1>2 DEF DownloadInv
    <2>7. QED
        BY <1>1, <1>2, <2>1, <2>2, <2>3, <2>4, <2>5, <2>6 DEF DownloadInv
<1>13. IdsInv'
    <2>1. ASSUME NEW d, NEW j \in DOMAIN inbox',
                 inbox'[j].kind = "OrderUpdate", inbox'[j].value.id = d
          PROVE  d \in Ids
        <3>1. j \in News(d)'
            BY <2>1 DEF News
        <3>2. CASE inbox'[j] = e
            BY <1>1, <1>4, <2>1, <3>2
        <3>3. CASE j \in News(d) /\ inbox'[j] = inbox[j]
            BY <2>1, <3>3 DEF IdsInv, News
        <3>4. QED
            BY <1>2, <3>1, <3>2, <3>3
    <2>2. QED
        BY <1>1, <2>1 DEF IdsInv
<1>14. VersionsInv'
    <2>1. \A i \in DOMAIN live' : seen'[i] >= 1 /\ live'[i].accepted >= 1
        BY <1>1, <1>3, <1>4 DEF VersionsInv
    <2>2. ASSUME NEW i \in Ids, NEW j \in News(i)'
          PROVE  /\ 1 <= inbox'[j].value.response /\ inbox'[j].value.response <= seen'[i]
                 /\ inbox'[j].value.accepted >= 1
                 /\ ~inbox'[j].value.stale
                 /\ inbox'[j].value.status \in {"WORKING", "COMPLETED", "CANCELED"}
        <3>1. CASE j \in News(i) /\ inbox'[j] = inbox[j]
            BY <1>1, <3>1 DEF VersionsInv
        <3>2. CASE i = id /\ inbox'[j] = e
            <4>1. seen'[i] = seen[id]
                BY <1>1, <3>2
            <4>2. QED
                BY <1>4, <3>2, <4>1
        <3>3. QED
            BY <1>6, <3>1, <3>2
    <2>3. QED
        BY <1>1, <2>1, <2>2 DEF VersionsInv
<1>15. FinalInv'
    <2>1. SUFFICES ASSUME NEW i \in Ids, NEW j \in News(i)', IsFinal(inbox'[j].value)
          PROVE  i \notin DOMAIN live' /\ \A l \in News(i)' : l <= j
        BY DEF FinalInv, IsFinal
    <2>2. CASE i = id
        <3>1. j = m /\ inbox'[j] = e
            BY <1>1, <1>5, <1>6, <2>1, <2>2
        <3>2. id \notin DOMAIN live'
            BY <1>1, <2>1, <3>1 DEF IsFinal
        <3>3. QED
            BY <1>1, <1>2, <1>6, <2>2, <3>1, <3>2
    <2>3. CASE i # id
        <3>1. j \in News(i) /\ inbox'[j] = inbox[j] /\ News(i)' = News(i)
            BY <1>2, <1>6, <2>1, <2>3
        <3>2. i \notin DOMAIN live /\ \A l \in News(i) : l <= j
            BY <2>1, <3>1 DEF FinalInv
        <3>3. QED
            BY <1>3, <3>1, <3>2
    <2>4. QED
        BY <2>2, <2>3
<1>16. ForgottenInv'
    <2>1. ASSUME NEW k \in DOMAIN out, NEW i, i = out[k].id, i \notin DOMAIN orders
          PROVE  out[k].type # "CREATE" /\ i \notin DOMAIN live' /\ News(i)' = {}
        <3>1. out[k].type # "CREATE" /\ i \notin DOMAIN live /\ News(i) = {}
            BY <2>1 DEF ForgottenInv
        <3>2. QED
            BY <1>1, <1>2, <1>3, <3>1
    <2>2. ASSUME NEW k \in DOMAIN acks, NEW i, i = acks[k].id
          PROVE  /\ acks[k].type = "CREATE" \/ i \notin DOMAIN orders =>
                       i \notin DOMAIN live' /\ News(i)' = {}
                 /\ acks[k].error = "TOO_LATE_TO_MODIFY_OR_CANCEL" =>
                       acks[k].type # "CREATE" /\ i \notin DOMAIN live'
        <3>1. /\ acks[k].type = "CREATE" \/ i \notin DOMAIN orders =>
                    i \notin DOMAIN live /\ News(i) = {}
              /\ acks[k].error = "TOO_LATE_TO_MODIFY_OR_CANCEL" =>
                    acks[k].type # "CREATE" /\ i \notin DOMAIN live
            BY <2>2 DEF ForgottenInv
        <3>2. QED
            BY <1>1, <1>2, <1>3, <3>1
    <2>3. ASSUME NEW i \in Ids, NEW j \in News(i)', i \notin DOMAIN orders,
                 inbox'[j].value.status = "WORKING"
          PROVE  inbox'[j].value.response = seen[i] /\ Asked(i) = {}
        <3>1. CASE j \in News(i) /\ inbox'[j] = inbox[j]
            BY <2>3, <3>1 DEF ForgottenInv
        <3>2. CASE j = m /\ i = id /\ inbox'[j] = e
            BY <1>4, <1>5, <2>3, <3>2 DEF Asked
        <3>3. QED
            BY <1>6, <3>1, <3>2
    <2>4. QED
        BY <1>1, <2>1, <2>2, <2>3 DEF ForgottenInv
<1>17. AmendedInv'
    BY <1>1 DEF AmendedInv
<1>18. QED
    BY <1>10, <1>11, <1>12, <1>13, <1>14, <1>15, <1>16, <1>17

LEMMA AnnouncingKeeps ==
    ASSUME Inv, NEW e, Announcing(e)
    PROVE  PathsInv'
<1> DEFINE m == Len(inbox) + 1
<1>1. /\ linked /\ inbox' = Append(inbox, e) /\ e \in Events /\ e.kind = "GatewayStatus"
      /\ UNCHANGED <<orders, max_order_id, out, available, downloading,
                     live, seen, position, acks, linked>>
      /\ \A i : Asked(i)' = Asked(i)
    BY SameOut DEF Announcing, Statuses, Events
<1>2. /\ inbox' \in Seq(Events)
      /\ DOMAIN inbox' = DOMAIN inbox \cup {m}
      /\ \A i \in DOMAIN inbox : inbox'[i] = inbox[i]
      /\ inbox'[m] = e
      /\ Begins' = Begins /\ Ends' = Ends /\ \A i : News(i)' = News(i)
    <2>1. Grows(e)
        BY <1>1, Numbers, GrowsFacts
    <2>2. QED
        BY <1>1, <2>1 DEF Grows
<1>3. \A i \in Ids : \A j \in News(i) : inbox'[j] = inbox[j]
    BY <1>2 DEF News
<1>4. \A j \in Ends : inbox'[j] = inbox[j]
    BY <1>2 DEF Ends
<1> HIDE DEF m
<1> USE DEF Inv, PathsInv
<1>10. XTypes'
    BY <1>1, <1>2 DEF XTypes
<1>11. LinkInv' /\ DownloadInv'
    BY <1>1, <1>2, <1>3, <1>4 DEF LinkInv, DownloadInv
<1>12. IdsInv'
    BY <1>1, <1>2 DEF IdsInv
<1>13. VersionsInv'
    BY <1>1, <1>2, <1>3 DEF VersionsInv
<1>14. FinalInv'
    BY <1>1, <1>2, <1>3 DEF FinalInv
<1>15. ForgottenInv'
    BY <1>1, <1>2, <1>3 DEF ForgottenInv
<1>16. AmendedInv'
    BY <1>1 DEF AmendedInv
<1>17. QED
    BY <1>10, <1>11, <1>12, <1>13, <1>14, <1>15, <1>16

LEMMA LosingKeeps ==
    ASSUME Inv, Losing
    PROVE  PathsInv'
<1>1. /\ ~linked' /\ linked' = FALSE
      /\ inbox' = <<>> /\ acks' = <<>> /\ out' = <<>> /\ available' = {}
      /\ UNCHANGED <<live, seen, position>>
      /\ Begins' = {} /\ Ends' = {} /\ \A id : News(id)' = {}
      /\ \A id : Asked(id)' = {}
    BY NothingFacts DEF Losing
<1>2. DOMAIN inbox' = {} /\ DOMAIN acks' = {} /\ DOMAIN out' = {}
    BY <1>1, EmptyFacts
<1>3. /\ DOMAIN orders' \subseteq DOMAIN orders
      /\ \A id \in DOMAIN orders' : orders'[id] = orders[id]
      /\ max_order_id' = max_order_id \/ (max_order_id' = 0 /\ DOMAIN orders' = {})
    <2>1. CASE UNCHANGED <<orders, max_order_id>>
        BY <2>1
    <2>2. CASE orders' = <<>> /\ max_order_id' = 0
        BY <2>2, EmptyFacts
    <2>3. QED
        BY <2>1, <2>2 DEF Losing
<1> USE DEF Inv, PathsInv
<1>10. XTypes'
    <2>1. <<>> \in Seq(Events) /\ <<>> \in Seq(Refusals)
        OBVIOUS
    <2>2. QED
        BY <1>1, <2>1 DEF XTypes
<1>11. LinkInv' /\ DownloadInv'
    BY <1>1 DEF LinkInv, DownloadInv
<1>12. IdsInv'
    BY <1>1, <1>2, <1>3, Numbers DEF IdsInv
<1>13. VersionsInv'
    BY <1>1, <1>2, <1>3 DEF VersionsInv
<1>14. FinalInv'
    BY <1>1 DEF FinalInv
<1>15. ForgottenInv' /\ AmendedInv'
    BY <1>1, <1>2 DEF ForgottenInv, AmendedInv
<1>16. QED
    BY <1>10, <1>11, <1>12, <1>13, <1>14, <1>15

LEMMA JoiningKeeps ==
    ASSUME Inv, Joining
    PROVE  PathsInv'
<1>1. /\ linked' /\ ~linked /\ linked' = TRUE
      /\ UNCHANGED <<orders, max_order_id, out, available, downloading,
                     live, seen, position, acks>>
    BY DEF Joining
<1>2. /\ available = {} /\ out = <<>> /\ acks = <<>>
      /\ DOMAIN out = {} /\ DOMAIN acks = {} /\ \A id : Asked(id)' = {}
    BY <1>1, EmptyFacts, NothingFacts DEF Inv, PathsInv, LinkInv
<1>3. PICK last \in Nat : Ends' = {last} /\ inbox'[last].value = LastId
    BY DEF Joining, Downloads
<1>4. inbox' \in Seq(Events) /\ Begins' = {1}
    BY DEF Joining, Downloads
<1>5. ASSUME NEW id, NEW i \in News(id)'
      PROVE  /\ id \in DOMAIN live /\ id \in Ids
             /\ inbox'[i].value.response = seen[id]
             /\ inbox'[i].value.accepted = live[id].accepted
             /\ ~inbox'[i].value.stale
             /\ inbox'[i].value.status = "WORKING"
    BY <1>5 DEF Joining, Downloads, NewsOf, Inv, PathsInv, XTypes
<1>6. \A id \in DOMAIN live : /\ id \in Ids /\ seen[id] \in Nat /\ seen[id] >= 1
                              /\ live[id].accepted >= 1
    BY Numbers DEF Inv, PathsInv, VersionsInv, XTypes
<1> USE DEF Inv, PathsInv
<1>10. XTypes'
    BY <1>1, <1>4 DEF XTypes
<1>11. LinkInv'
    BY <1>1, <1>2 DEF LinkInv
<1>12. DownloadInv'
    <2>1. \A id \in Ids : seen[id] > 0 => id <= LastId
        BY LastIdFacts DEF XTypes
    <2>2. QED
        BY <1>1, <1>2, <1>3, <1>4, <1>5, <2>1 DEF DownloadInv
<1>13. IdsInv'
    <2>1. ASSUME NEW i \in DOMAIN inbox', inbox'[i].kind = "OrderUpdate"
          PROVE  inbox'[i].value.id \in Ids
        <3>1. ASSUME NEW id, id = inbox'[i].value.id PROVE id \in Ids
            <4>1. i \in News(id)'
                BY <2>1, <3>1 DEF News
            <4>2. QED
                BY <1>5, <4>1
        <3>2. QED
            BY <3>1
    <2>2. QED
        BY <1>1, <2>1 DEF IdsInv
<1>14. VersionsInv'
    <2>1. \A id \in DOMAIN orders : \A k \in Asked(id)' : FALSE
        BY <1>2
    <2>2. ASSUME NEW id \in Ids, NEW i \in News(id)'
          PROVE  /\ 1 <= inbox'[i].value.response /\ inbox'[i].value.response <= seen[id]
                 /\ inbox'[i].value.accepted >= 1
        BY <1>5, <1>6
    <2>3. QED
        BY <1>1, <1>2, <1>5, <2>1, <2>2 DEF VersionsInv
<1>15. FinalInv'
    BY <1>5 DEF FinalInv, IsFinal
<1>16. ForgottenInv' /\ AmendedInv'
    BY <1>1, <1>2, <1>5 DEF ForgottenInv, AmendedInv
<1>17. QED
    BY <1>10, <1>11, <1>12, <1>13, <1>14, <1>15, <1>16

(* An event leaves the inbox: what remains keeps its place in line.        *)
LEMMA ShiftedFacts ==
    ASSUME Inv, inbox # <<>>, inbox' = Tail(inbox)
    PROVE  /\ inbox' \in Seq(Events) /\ linked
           /\ 1 \in DOMAIN inbox /\ Head(inbox) = inbox[1]
           /\ \A i \in DOMAIN inbox' : i + 1 \in DOMAIN inbox /\ inbox'[i] = inbox[i + 1]
           /\ \A id : \A i \in News(id)' :
                 i \in Nat \ {0} /\ i + 1 \in News(id) /\ inbox'[i] = inbox[i + 1]
           /\ \A i \in Begins' : i \in Nat \ {0} /\ i + 1 \in Begins
           /\ \A i \in Ends' : i + 1 \in Ends /\ inbox'[i] = inbox[i + 1]
           /\ \A id : \A i \in News(id) : i # 1 => i - 1 \in News(id)'
           /\ \A i \in Ends : i # 1 => i - 1 \in Ends'
           /\ Begins' = {}
           /\ Head(inbox).kind # "DownloadBegin" => Begins = {}
<1>1. Shrinks
    BY ShrinksFacts, Numbers
<1>2. /\ inbox' \in Seq(Events)
      /\ 1 \in DOMAIN inbox /\ Head(inbox) = inbox[1]
      /\ \A i \in DOMAIN inbox' :
            i \in Nat \ {0} /\ i + 1 \in DOMAIN inbox /\ inbox'[i] = inbox[i + 1]
      /\ \A i \in DOMAIN inbox : i \in Nat \ {0} /\ (i # 1 => i - 1 \in DOMAIN inbox')
      /\ Begins' = {i \in DOMAIN inbox' : i + 1 \in Begins}
      /\ Ends' = {i \in DOMAIN inbox' : i + 1 \in Ends}
      /\ \A id : News(id)' = {i \in DOMAIN inbox' : i + 1 \in News(id)}
    BY <1>1, HeadFacts DEF Shrinks
<1>3. linked /\ \A i \in Begins : i = 1
    BY DEF Inv, PathsInv, LinkInv, DownloadInv
<1>4. /\ \A i \in Ends : i \in DOMAIN inbox
      /\ \A id : \A i \in News(id) : i \in DOMAIN inbox
      /\ \A i \in Begins : i \in DOMAIN inbox /\ inbox[i].kind = "DownloadBegin"
    BY DEF Ends, News, Begins
<1>5. \A i \in DOMAIN inbox : i # 1 => (i - 1) + 1 = i
    BY <1>2
<1>6. \A i \in DOMAIN inbox' : i + 1 # 1
    BY <1>2
<1>7. QED
    BY <1>2, <1>3, <1>4, <1>5, <1>6

(* What the remaining events say stays true.                               *)
LEMMA ShiftedKeeps ==
    ASSUME Inv, inbox # <<>>, inbox' = Tail(inbox),
           UNCHANGED <<out, live, seen, position, acks, linked>>
    PROVE  /\ XTypes'
           /\ \A id \in DOMAIN live' : seen'[id] >= 1 /\ live'[id].accepted >= 1
           /\ \A id \in Ids : \A i \in News(id)' :
                 /\ 1 <= inbox'[i].value.response /\ inbox'[i].value.response <= seen'[id]
                 /\ inbox'[i].value.accepted >= 1
                 /\ ~inbox'[i].value.stale
                 /\ inbox'[i].value.status \in {"WORKING", "COMPLETED", "CANCELED"}
           /\ \A k \in DOMAIN acks' : acks'[k].id \in Ids /\ seen'[acks'[k].id] >= 1
           /\ \A i \in DOMAIN inbox' :
                 inbox'[i].kind = "OrderUpdate" => inbox'[i].value.id \in Ids
           /\ FinalInv'
           /\ \A i \in Ends' :
                 /\ \A j \in Ends' : j = i
                 /\ out' = <<>> /\ acks' = <<>>
                 /\ \A id \in Ids : seen'[id] > 0 => id <= inbox'[i].value
                 /\ \A id \in Ids : \A j \in News(id)' : inbox'[j].value.response = seen'[id]
<1>1. /\ inbox' \in Seq(Events)
      /\ \A i \in DOMAIN inbox' : i + 1 \in DOMAIN inbox /\ inbox'[i] = inbox[i + 1]
      /\ \A id : \A i \in News(id)' :
            i \in Nat \ {0} /\ i + 1 \in News(id) /\ inbox'[i] = inbox[i + 1]
      /\ \A i \in Ends' : i + 1 \in Ends /\ inbox'[i] = inbox[i + 1]
    BY ShiftedFacts
<1>2. \A i \in Ends' : i \in Nat
    BY <1>1 DEF Ends
<1> USE DEF Inv, PathsInv
<1>3. XTypes'
    BY <1>1 DEF XTypes
<1>4. \A id \in DOMAIN live' : seen'[id] >= 1 /\ live'[id].accepted >= 1
    BY DEF VersionsInv
<1>5. \A id \in Ids : \A i \in News(id)' :
          /\ 1 <= inbox'[i].value.response /\ inbox'[i].value.response <= seen'[id]
          /\ inbox'[i].value.accepted >= 1
          /\ ~inbox'[i].value.stale
          /\ inbox'[i].value.status \in {"WORKING", "COMPLETED", "CANCELED"}
    BY <1>1 DEF VersionsInv
<1>6. \A k \in DOMAIN acks' : acks'[k].id \in Ids /\ seen'[acks'[k].id] >= 1
    BY DEF IdsInv, VersionsInv
<1>7. \A i \in DOMAIN inbox' :
          inbox'[i].kind = "OrderUpdate" => inbox'[i].value.id \in Ids
    BY <1>1 DEF IdsInv
<1>8. FinalInv'
    <2>1. SUFFICES ASSUME NEW id \in Ids, NEW i \in News(id)', IsFinal(inbox'[i].value)
          PROVE  id \notin DOMAIN live' /\ \A j \in News(id)' : j <= i
        BY DEF FinalInv, IsFinal
    <2>2. id \notin DOMAIN live /\ \A j \in News(id) : j <= i + 1
        BY <1>1, <2>1 DEF FinalInv
    <2>3. \A j \in News(id)' : j \in Nat /\ i \in Nat /\ j + 1 <= i + 1
        BY <1>1, <2>2
    <2>4. QED
        BY <2>2, <2>3
<1>9. ASSUME NEW i \in Ends'
      PROVE  /\ \A j \in Ends' : j = i
             /\ out' = <<>> /\ acks' = <<>>
             /\ \A id \in Ids : seen'[id] > 0 => id <= inbox'[i].value
             /\ \A id \in Ids : \A j \in News(id)' : inbox'[j].value.response = seen'[id]
    <2>1. i + 1 \in Ends /\ inbox'[i] = inbox[i + 1] /\ i \in Nat
        BY <1>1, <1>2
    <2>2. ASSUME NEW j \in Ends' PROVE j = i
        <3>1. j + 1 = i + 1 /\ j \in Nat
            BY <1>1, <1>2, <2>1 DEF DownloadInv
        <3>2. QED
            BY <2>1, <3>1
    <2>3. /\ out = <<>> /\ acks = <<>>
          /\ \A id \in Ids : seen[id] > 0 => id <= inbox[i + 1].value
          /\ \A id \in Ids : \A j \in News(id) : inbox[j].value.response = seen[id]
        BY <2>1 DEF DownloadInv
    <2>4. ASSUME NEW id \in Ids, NEW j \in News(id)'
          PROVE  inbox'[j].value.response = seen'[id]
        <3>1. j + 1 \in News(id) /\ inbox'[j] = inbox[j + 1]
            BY <1>1, <2>4, Zenon
        <3>2. inbox[j + 1].value.response = seen[id]
            BY <2>3, <3>1, Zenon
        <3>3. QED
            BY <3>1, <3>2, Zenon
    <2>5. out' = <<>> /\ acks' = <<>>
        BY <2>3
    <2>6. ASSUME NEW id \in Ids, seen'[id] > 0 PROVE id <= inbox'[i].value
        <3>1. seen[id] > 0
            BY <2>6
        <3>2. id <= inbox[i + 1].value
            BY <2>3, <3>1
        <3>3. inbox'[i].value = inbox[i + 1].value
            BY <2>1, Zenon
        <3>4. QED
            BY <3>2, <3>3, Zenon
    <2>7. \A id \in Ids : seen'[id] > 0 => id <= inbox'[i].value
        BY <2>6, Zenon
    <2>8. QED
        BY <2>2, <2>4, <2>5, <2>7, Zenon
<1>10. QED
    BY <1>3, <1>4, <1>5, <1>6, <1>7, <1>8, <1>9

LEMMA HearingKeeps ==
    ASSUME Inv, NEW u, Hearing(u)
    PROVE  PathsInv'
<1> DEFINE id == u.id
<1>1. /\ inbox # <<>> /\ inbox' = Tail(inbox)
      /\ Head(inbox).kind = "OrderUpdate" /\ u = Head(inbox).value
      /\ UNCHANGED <<max_order_id, out, available, downloading,
                     live, seen, position, acks, linked>>
      /\ \A i : Asked(i)' = Asked(i)
    BY SameOut DEF Hearing
<1>2. /\ inbox' \in Seq(Events) /\ linked
      /\ 1 \in DOMAIN inbox /\ u = inbox[1].value /\ inbox[1].kind = "OrderUpdate"
      /\ \A i : \A j \in News(i)' :
            j \in Nat \ {0} /\ j + 1 \in News(i) /\ inbox'[j] = inbox[j + 1]
      /\ \A i \in Ends' : i + 1 \in Ends /\ inbox'[i] = inbox[i + 1]
      /\ \A i \in Ends : i # 1 => i - 1 \in Ends'
      /\ Begins' = {} /\ Begins = {}
    BY <1>1, ShiftedFacts
<1>3. /\ id \in Ids /\ 1 \in News(id) /\ u \in OrderUpdate
      /\ 1 <= u.response /\ u.response <= seen[id] /\ u.accepted >= 1
      /\ u.status \in {"WORKING", "COMPLETED", "CANCELED"}
      /\ u.response \in Nat /\ u.accepted \in Nat /\ seen[id] \in Nat
    <2>1. /\ id \in Ids /\ 1 \in News(id) /\ u \in OrderUpdate
          /\ 1 <= u.response /\ u.response <= seen[id] /\ u.accepted >= 1
          /\ u.status \in {"WORKING", "COMPLETED", "CANCELED"}
        BY <1>2, UpdateFacts
    <2>2. QED
        BY <2>1, Numbers DEF OrderUpdate
<1>4. /\ id \notin DOMAIN orders /\ u.status = "WORKING" =>
            u.response = seen[id] /\ Asked(id) = {}
      /\ u.status # "WORKING" => /\ id \notin DOMAIN live
                                 /\ \A j \in News(id) : j <= 1
      /\ \A k \in DOMAIN out : out[k].id = id => out[k].type # "CREATE"
      /\ \A k \in DOMAIN acks : acks[k].id = id => id \in DOMAIN orders
                                                   /\ acks[k].type # "CREATE"
    <2>1. id \notin DOMAIN orders /\ u.status = "WORKING" =>
              u.response = seen[id] /\ Asked(id) = {}
        BY <1>2, <1>3 DEF Inv, PathsInv, ForgottenInv
    <2>2. u.status # "WORKING" => /\ id \notin DOMAIN live
                                  /\ \A j \in News(id) : j <= 1
        BY <1>2, <1>3 DEF Inv, PathsInv, FinalInv, IsFinal
    <2>3. ASSUME NEW k \in DOMAIN out, out[k].id = id PROVE out[k].type # "CREATE"
        <3>1. out[k].version > seen[id] /\ (out[k].type = "CREATE" <=> out[k].version = 1)
            BY <2>3 DEF Inv, PathsInv, VersionsInv
        <3>2. QED
            BY <1>3, <3>1
    <2>4. \A k \in DOMAIN acks : acks[k].id = id => id \in DOMAIN orders
                                                    /\ acks[k].type # "CREATE"
        BY <1>3 DEF Inv, PathsInv, ForgottenInv
    <2>5. QED
        BY <2>1, <2>2, <2>3, <2>4
<1>5. \/ UNCHANGED orders
      \/ /\ u.status = "WORKING" /\ id \notin DOMAIN orders
         /\ Stored(orders, orders', id, Reported(u))
      \/ /\ u.status = "WORKING" /\ id \in DOMAIN orders
         /\ Stored(orders, orders', id, Confirmed(orders[id], u))
      \/ u.status # "WORKING" /\ Dropped(orders, orders', id)
    BY DEF Hearing
<1>6. /\ \A i \in DOMAIN orders : i # id => i \in DOMAIN orders' /\ orders'[i] = orders[i]
      /\ \A i \in DOMAIN orders' : i # id => i \in DOMAIN orders
      /\ id \in DOMAIN orders /\ id \notin DOMAIN orders' =>
            id \notin DOMAIN live /\ News(id)' = {}
      /\ id \in DOMAIN orders' =>
            \/ id \in DOMAIN orders /\ orders'[id] = orders[id]
            \/ /\ id \notin DOMAIN orders /\ u.status = "WORKING"
               /\ orders'[id] = Reported(u)
            \/ id \in DOMAIN orders /\ orders'[id] = Confirmed(orders[id], u)
    <2>1. CASE UNCHANGED orders
        BY <2>1
    <2>2. CASE /\ u.status = "WORKING" /\ id \notin DOMAIN orders
               /\ Stored(orders, orders', id, Reported(u))
        BY <2>2 DEF Stored
    <2>3. CASE /\ u.status = "WORKING" /\ id \in DOMAIN orders
               /\ Stored(orders, orders', id, Confirmed(orders[id], u))
        BY <2>3 DEF Stored
    <2>4. CASE u.status # "WORKING" /\ Dropped(orders, orders', id)
        <3>1. News(id)' = {}
            <4>1. ASSUME NEW j \in News(id)' PROVE FALSE
                <5>1. j \in Nat \ {0} /\ j + 1 <= 1
                    BY <1>2, <1>4, <2>4, <4>1
                <5>2. QED
                    BY <5>1
            <4>2. QED
                BY <4>1
        <3>2. QED
            BY <1>4, <2>4, <3>1 DEF Dropped
    <2>5. QED
        BY <1>5, <2>1, <2>2, <2>3, <2>4
<1>7. Reported(u).pending.version = u.response
    BY DEF Reported
<1>8. id \in DOMAIN orders =>
          /\ Confirmed(orders[id], u).pending.version = orders[id].pending.version
          /\ Confirmed(orders[id], u).pending.price = orders[id].pending.price
          /\ Confirmed(orders[id], u).confirmed.version = u.accepted
    <2>1. id \in DOMAIN orders => orders[id] \in Order
        BY Numbers
    <2>2. QED
        BY <2>1 DEF Confirmed, Order, PendingState
<1> HIDE DEF id
<1>9. /\ XTypes' /\ FinalInv'
      /\ \A i \in DOMAIN live' : seen'[i] >= 1 /\ live'[i].accepted >= 1
      /\ \A i \in Ids : \A j \in News(i)' :
            /\ 1 <= inbox'[j].value.response /\ inbox'[j].value.response <= seen'[i]
            /\ inbox'[j].value.accepted >= 1
            /\ ~inbox'[j].value.stale
            /\ inbox'[j].value.status \in {"WORKING", "COMPLETED", "CANCELED"}
      /\ \A k \in DOMAIN acks' : acks'[k].id \in Ids /\ seen'[acks'[k].id] >= 1
      /\ \A i \in DOMAIN inbox' :
            inbox'[i].kind = "OrderUpdate" => inbox'[i].value.id \in Ids
      /\ \A i \in Ends' :
            /\ \A j \in Ends' : j = i
            /\ out' = <<>> /\ acks' = <<>>
            /\ \A x \in Ids : seen'[x] > 0 => x <= inbox'[i].value
            /\ \A x \in Ids : \A j \in News(x)' : inbox'[j].value.response = seen'[x]
    BY <1>1, ShiftedKeeps
<1> USE DEF Inv, PathsInv
<1>10. LinkInv'
    BY <1>1, <1>2 DEF LinkInv
<1>11. DownloadInv'
    <2>1. \A i \in Ends' : downloading
        BY <1>2 DEF DownloadInv
    <2>2. Ends' = {} => Ends = {}
        BY <1>2 DEF Ends
    <2>3. linked' /\ Ends' = {} => \A i \in Ids : seen'[i] > 0 => i <= max_order_id'
        BY <1>1, <1>2, <2>2 DEF DownloadInv
    <2>4. QED
        BY <1>1, <1>2, <1>9, <2>1, <2>3 DEF DownloadInv
<1>12. IdsInv'
    <2>1. \A i \in DOMAIN orders' : i \in Ids /\ (i <= max_order_id' \/ seen'[i] > 0)
        BY <1>1, <1>3, <1>6 DEF IdsInv
    <2>2. \A k \in DOMAIN out' : out'[k].id \in Ids /\ out'[k].id <= max_order_id'
        BY <1>1 DEF IdsInv
    <2>3. max_order_id' <= MaxOrderId
        BY <1>1 DEF IdsInv
    <2>4. QED
        BY <1>9, <2>1, <2>2, <2>3 DEF IdsInv
<1>13. VersionsInv'
    <2>1. ASSUME NEW i \in DOMAIN orders'
          PROVE  /\ orders'[i].pending.version >= 1
                 /\ orders'[i].pending.version >= seen[i]
                 /\ \A k \in Asked(i) : orders'[i].pending.version >= out[k].version
        <3>1. CASE i \in DOMAIN orders
            <4>1. orders'[i].pending.version = orders[i].pending.version
                BY <1>6, <1>8, <2>1, <3>1
            <4>2. QED
                BY <3>1, <4>1 DEF VersionsInv
        <3>2. CASE i \notin DOMAIN orders
            <4>1. i = id /\ orders'[i] = Reported(u) /\ u.status = "WORKING"
                BY <1>6, <2>1, <3>2
            <4>2. u.response = seen[i] /\ Asked(i) = {}
                BY <1>4, <3>2, <4>1
            <4>3. QED
                BY <1>3, <1>7, <4>1, <4>2
        <3>3. QED
            BY <3>1, <3>2
    <2>2. \A i \in DOMAIN orders' :
              /\ orders'[i].pending.version >= 1
              /\ orders'[i].pending.version >= seen'[i]
              /\ \A k \in Asked(i)' : orders'[i].pending.version >= out'[k].version
        BY <1>1, <2>1
    <2>3. \A k \in DOMAIN out' :
              /\ out'[k].version > seen'[out'[k].id]
              /\ out'[k].version <= MaxVersion
              /\ out'[k].price \in Prices
              /\ out'[k].type = "CREATE" <=> out'[k].version = 1
              /\ \A l \in Asked(out[k].id) : l > k => out'[l].version > out'[k].version
        BY <1>1 DEF VersionsInv
    <2>4. QED
        BY <1>1, <1>9, <2>2, <2>3 DEF VersionsInv
<1>14. ForgottenInv'
    <2>1. ASSUME NEW k \in DOMAIN out, NEW i, i = out[k].id, i \notin DOMAIN orders'
          PROVE  out[k].type # "CREATE" /\ i \notin DOMAIN live /\ News(i)' = {}
        <3>1. CASE i \in DOMAIN orders
            BY <1>4, <1>6, <2>1, <3>1
        <3>2. CASE i \notin DOMAIN orders
            <4>1. out[k].type # "CREATE" /\ i \notin DOMAIN live /\ News(i) = {}
                BY <2>1, <3>2 DEF ForgottenInv
            <4>2. QED
                BY <1>2, <4>1
        <3>3. QED
            BY <3>1, <3>2
    <2>2. ASSUME NEW k \in DOMAIN acks, NEW i, i = acks[k].id
          PROVE  /\ acks[k].type = "CREATE" \/ i \notin DOMAIN orders' =>
                       i \notin DOMAIN live /\ News(i)' = {}
                 /\ acks[k].error = "TOO_LATE_TO_MODIFY_OR_CANCEL" =>
                       acks[k].type # "CREATE" /\ i \notin DOMAIN live
        <3>1. /\ acks[k].type = "CREATE" \/ i \notin DOMAIN orders =>
                    i \notin DOMAIN live /\ News(i) = {}
              /\ acks[k].error = "TOO_LATE_TO_MODIFY_OR_CANCEL" =>
                    acks[k].type # "CREATE" /\ i \notin DOMAIN live
            BY <2>2 DEF ForgottenInv
        <3>2. News(i) = {} => News(i)' = {}
            BY <1>2
        <3>3. i \in DOMAIN orders /\ i \notin DOMAIN orders' =>
                  i \notin DOMAIN live /\ News(i)' = {}
            BY <1>6
        <3>4. QED
            BY <3>1, <3>2, <3>3
    <2>3. ASSUME NEW i \in Ids, NEW j \in News(i)', i \notin DOMAIN orders',
                 inbox'[j].value.status = "WORKING"
          PROVE  inbox'[j].value.response = seen[i] /\ Asked(i) = {}
        <3>1. i \notin DOMAIN orders
            BY <1>6, <2>3
        <3>2. j + 1 \in News(i) /\ inbox'[j] = inbox[j + 1]
            BY <1>2
        <3>3. QED
            BY <2>3, <3>1, <3>2 DEF ForgottenInv
    <2>4. QED
        BY <1>1, <2>1, <2>2, <2>3 DEF ForgottenInv
<1>15. AmendedInv'
    <2>1. \A i \in DOMAIN orders' :
              i \in DOMAIN orders /\ WasAsked(orders[i]) => WasAsked(orders'[i])
        BY <1>3, <1>6, <1>8 DEF WasAsked
    <2>2. \A k \in DOMAIN out : out[k].id \in DOMAIN orders' => out[k].id \in DOMAIN orders
        BY <1>4, <1>6 DEF Asked
    <2>3. \A k \in DOMAIN acks : acks[k].id \in DOMAIN orders' => acks[k].id \in DOMAIN orders
        BY <1>4, <1>6
    <2>4. QED
        BY <1>1, <2>1, <2>2, <2>3 DEF AmendedInv
<1>16. QED
    BY <1>9, <1>10, <1>11, <1>12, <1>13, <1>14, <1>15

(* An event that concerns no order: the orders stay, or a download is on   *)
(* its way and they are forgotten.                                         *)
LEMMA PassedKeeps ==
    ASSUME Inv, inbox # <<>>, inbox' = Tail(inbox),
           UNCHANGED <<out, live, seen, position, acks, linked>>,
           max_order_id' \in Nat, max_order_id <= max_order_id', max_order_id' <= MaxOrderId,
           orders' = orders \/ (orders' = <<>> /\ Ends # {})
    PROVE  XTypes' /\ IdsInv' /\ VersionsInv' /\ FinalInv' /\ ForgottenInv' /\ AmendedInv'
<1>1. /\ out' = out /\ live' = live /\ seen' = seen /\ acks' = acks
      /\ \A i : Asked(i)' = Asked(i)
    BY SameOut
<1>2. \A i : \A j \in News(i)' : j + 1 \in News(i) /\ inbox'[j] = inbox[j + 1]
    BY ShiftedFacts
<1>3. /\ XTypes' /\ FinalInv'
      /\ \A i \in DOMAIN live' : seen'[i] >= 1 /\ live'[i].accepted >= 1
      /\ \A i \in Ids : \A j \in News(i)' :
            /\ 1 <= inbox'[j].value.response /\ inbox'[j].value.response <= seen'[i]
            /\ inbox'[j].value.accepted >= 1
            /\ ~inbox'[j].value.stale
            /\ inbox'[j].value.status \in {"WORKING", "COMPLETED", "CANCELED"}
      /\ \A k \in DOMAIN acks' : acks'[k].id \in Ids /\ seen'[acks'[k].id] >= 1
      /\ \A i \in DOMAIN inbox' :
            inbox'[i].kind = "OrderUpdate" => inbox'[i].value.id \in Ids
    BY <1>1, ShiftedKeeps
<1>4. /\ DOMAIN orders' \subseteq DOMAIN orders
      /\ \A i \in DOMAIN orders' : orders'[i] = orders[i]
    BY EmptyFacts
<1>5. Ends # {} => /\ out = <<>> /\ acks = <<>>
                   /\ \A i \in Ids : \A j \in News(i) : inbox[j].value.response = seen[i]
    BY DEF Inv, PathsInv, DownloadInv
<1>6. Ends # {} => DOMAIN out = {} /\ DOMAIN acks = {} /\ \A i : Asked(i) = {}
    BY <1>5, EmptyFacts DEF Asked
<1>7. IdsInv'
    <2>1. /\ \A i \in DOMAIN orders : i \in Ids /\ (i <= max_order_id \/ seen[i] > 0)
          /\ \A k \in DOMAIN out : out[k].id \in Ids /\ out[k].id <= max_order_id
          /\ max_order_id \in Nat /\ \A i \in Ids : i \in Nat
        BY Numbers DEF Inv, PathsInv, IdsInv
    <2>2. \A i \in Ids : i <= max_order_id => i <= max_order_id'
        BY <2>1
    <2>3. QED
        BY <1>1, <1>3, <1>4, <2>1, <2>2 DEF IdsInv
<1>8. VersionsInv'
    <2>1. VersionsInv
        BY DEF Inv, PathsInv
    <2>2. \A i \in DOMAIN orders' :
              /\ orders'[i].pending.version >= 1
              /\ orders'[i].pending.version >= seen'[i]
              /\ \A k \in Asked(i)' : orders'[i].pending.version >= out'[k].version
        BY <1>1, <1>4, <2>1 DEF VersionsInv
    <2>3. \A k \in DOMAIN out' :
              /\ out'[k].version > seen'[out'[k].id]
              /\ out'[k].version <= MaxVersion
              /\ out'[k].price \in Prices
              /\ out'[k].type = "CREATE" <=> out'[k].version = 1
              /\ \A l \in Asked(out[k].id) : l > k => out'[l].version > out'[k].version
        BY <1>1, <2>1 DEF VersionsInv
    <2>4. QED
        BY <1>1, <1>3, <2>2, <2>3 DEF VersionsInv
<1>9. ForgottenInv'
    <2>1. ForgottenInv
        BY DEF Inv, PathsInv
    <2>2. \A i : News(i) = {} => News(i)' = {}
        BY <1>2
    <2>3. ASSUME NEW i \in Ids, NEW j \in News(i)', i \notin DOMAIN orders',
                 inbox'[j].value.status = "WORKING"
          PROVE  inbox'[j].value.response = seen[i] /\ Asked(i) = {}
        <3>1. j + 1 \in News(i) /\ inbox'[j] = inbox[j + 1]
            BY <1>2
        <3>2. CASE orders' = orders
            BY <2>1, <2>3, <3>1, <3>2 DEF ForgottenInv
        <3>3. CASE orders' = <<>> /\ Ends # {}
            BY <1>5, <1>6, <3>1, <3>3
        <3>4. QED
            BY <3>2, <3>3
    <2>4. CASE orders' = orders
        BY <1>1, <2>1, <2>2, <2>3, <2>4 DEF ForgottenInv
    <2>5. CASE orders' = <<>> /\ Ends # {}
        BY <1>1, <1>6, <2>3, <2>5 DEF ForgottenInv
    <2>6. QED
        BY <2>4, <2>5
<1>10. AmendedInv'
    <2>1. CASE orders' = orders
        BY <1>1, <2>1 DEF Inv, PathsInv, AmendedInv
    <2>2. CASE orders' = <<>> /\ Ends # {}
        BY <1>1, <1>6, <2>2 DEF AmendedInv
    <2>3. QED
        BY <2>1, <2>2
<1>11. QED
    BY <1>3, <1>7, <1>8, <1>9, <1>10

LEMMA PassingKeeps ==
    ASSUME Inv, Passing
    PROVE  PathsInv'
<1>1. /\ inbox # <<>> /\ inbox' = Tail(inbox)
      /\ Head(inbox).kind \notin {"DownloadBegin", "DownloadEnd"}
      /\ available' \in Masks \/ available' = available
      /\ UNCHANGED <<orders, max_order_id, out, downloading,
                     live, seen, position, acks, linked>>
    BY DEF Passing
<1>2. /\ linked
      /\ Begins' = {} /\ Begins = {}
      /\ 1 \notin Ends
      /\ \A i \in Ends' : i + 1 \in Ends /\ inbox'[i] = inbox[i + 1]
      /\ \A i \in Ends : i # 1 => i - 1 \in Ends'
    BY <1>1, ShiftedFacts DEF Ends
<1>3. max_order_id \in Nat /\ max_order_id <= MaxOrderId
    BY Numbers DEF Inv, PathsInv, IdsInv
<1>4. XTypes' /\ IdsInv' /\ VersionsInv' /\ FinalInv' /\ ForgottenInv' /\ AmendedInv'
    <2>1. max_order_id' \in Nat /\ max_order_id <= max_order_id' /\ max_order_id' <= MaxOrderId
        BY <1>1, <1>3
    <2>2. QED
        BY <1>1, <2>1, PassedKeeps
<1>5. \A i \in Ends' :
          /\ \A j \in Ends' : j = i
          /\ out' = <<>> /\ acks' = <<>>
          /\ \A x \in Ids : seen'[x] > 0 => x <= inbox'[i].value
          /\ \A x \in Ids : \A j \in News(x)' : inbox'[j].value.response = seen'[x]
    BY <1>1, ShiftedKeeps
<1>6. LinkInv'
    BY <1>1, <1>2 DEF Inv, PathsInv, LinkInv
<1>7. DownloadInv'
    <2>1. \A i \in Ends' : downloading
        BY <1>2 DEF Inv, PathsInv, DownloadInv
    <2>2. Ends' = {} => Ends = {}
        BY <1>2
    <2>3. linked' /\ Ends' = {} => \A i \in Ids : seen'[i] > 0 => i <= max_order_id'
        BY <1>1, <1>2, <2>2 DEF Inv, PathsInv, DownloadInv
    <2>4. QED
        BY <1>1, <1>2, <1>5, <2>1, <2>3 DEF DownloadInv
<1>8. QED
    BY <1>4, <1>6, <1>7 DEF PathsInv

LEMMA BeginningKeeps ==
    ASSUME Inv, Beginning
    PROVE  PathsInv'
<1>1. /\ inbox # <<>> /\ inbox' = Tail(inbox)
      /\ Head(inbox).kind = "DownloadBegin"
      /\ orders' = <<>> /\ downloading'
      /\ UNCHANGED <<max_order_id, out, available,
                     live, seen, position, acks, linked>>
    BY DEF Beginning
<1>2. /\ linked
      /\ Begins' = {} /\ 1 \in Begins
      /\ 1 \notin Ends
      /\ \A i \in Ends' : i + 1 \in Ends /\ inbox'[i] = inbox[i + 1]
      /\ \A i \in Ends : i # 1 => i - 1 \in Ends'
    BY <1>1, ShiftedFacts DEF Begins, Ends
<1>3. available = {} /\ Ends # {}
    BY <1>2 DEF Inv, PathsInv, DownloadInv
<1>4. max_order_id \in Nat /\ max_order_id <= MaxOrderId
    BY Numbers DEF Inv, PathsInv, IdsInv
<1>5. XTypes' /\ IdsInv' /\ VersionsInv' /\ FinalInv' /\ ForgottenInv' /\ AmendedInv'
    <2>1. max_order_id' \in Nat /\ max_order_id <= max_order_id' /\ max_order_id' <= MaxOrderId
        BY <1>1, <1>4
    <2>2. QED
        BY <1>1, <1>3, <2>1, PassedKeeps
<1>6. \A i \in Ends' :
          /\ \A j \in Ends' : j = i
          /\ out' = <<>> /\ acks' = <<>>
          /\ \A x \in Ids : seen'[x] > 0 => x <= inbox'[i].value
          /\ \A x \in Ids : \A j \in News(x)' : inbox'[j].value.response = seen'[x]
    BY <1>1, ShiftedKeeps
<1>7. LinkInv'
    BY <1>1, <1>2 DEF Inv, PathsInv, LinkInv
<1>8. Ends' # {}
    BY <1>2, <1>3
<1>9. DownloadInv'
    BY <1>1, <1>2, <1>6, <1>8 DEF DownloadInv
<1>10. QED
    BY <1>5, <1>7, <1>9 DEF PathsInv

LEMMA EndingKeeps ==
    ASSUME Inv, NEW last, Ending(last)
    PROVE  PathsInv'
<1>1. /\ inbox # <<>> /\ inbox' = Tail(inbox)
      /\ Head(inbox).kind = "DownloadEnd" /\ last = Head(inbox).value
      /\ last \in 0..MaxOrderId
      /\ max_order_id' = Max2(max_order_id, last)
      /\ UNCHANGED <<orders, out, available,
                     live, seen, position, acks, linked>>
    BY DEF Ending
<1>2. /\ linked
      /\ Begins' = {} /\ Begins = {}
      /\ 1 \in Ends /\ last = inbox[1].value
      /\ \A i \in Ends' : i \in Nat \ {0} /\ i + 1 \in Ends
    BY <1>1, ShiftedFacts, Numbers DEF Begins, Ends
<1>3. max_order_id \in Nat /\ MaxOrderId \in Nat /\ max_order_id <= MaxOrderId
    BY Numbers DEF Inv, PathsInv, IdsInv
<1>4. /\ max_order_id' \in Nat /\ max_order_id <= max_order_id' /\ max_order_id' <= MaxOrderId
      /\ last <= max_order_id' /\ last \in Nat
    BY <1>1, <1>3 DEF Max2
<1>5. XTypes' /\ IdsInv' /\ VersionsInv' /\ FinalInv' /\ ForgottenInv' /\ AmendedInv'
    BY <1>1, <1>4, PassedKeeps
<1>6. Ends' = {}
    <2>1. \A i \in Ends : i = 1
        BY <1>2 DEF Inv, PathsInv, DownloadInv
    <2>2. QED
        BY <1>2, <2>1
<1>7. \A i \in Ids : seen'[i] > 0 => i <= max_order_id'
    <2>1. \A i \in Ids : seen[i] > 0 => i <= last
        BY <1>2 DEF Inv, PathsInv, DownloadInv
    <2>2. \A i \in Ids : i \in Nat
        BY Numbers
    <2>3. QED
        BY <1>1, <1>4, <2>1, <2>2
<1>8. LinkInv'
    BY <1>1, <1>2 DEF Inv, PathsInv, LinkInv
<1>9. DownloadInv'
    BY <1>2, <1>6, <1>7 DEF DownloadInv
<1>10. QED
    BY <1>5, <1>8, <1>9 DEF PathsInv

LEMMA AnsweringKeeps ==
    ASSUME Inv, NEW a, Answering(a)
    PROVE  PathsInv'
<1> DEFINE id == a.id
<1>1. /\ acks # <<>> /\ acks' = Tail(acks) /\ a = Head(acks)
      /\ UNCHANGED <<max_order_id, out, available, downloading,
                     live, seen, position, inbox, linked>>
      /\ Begins' = Begins /\ Ends' = Ends /\ \A i : News(i)' = News(i)
      /\ \A i : Asked(i)' = Asked(i)
    BY SameInbox, SameOut DEF Answering
<1>2. /\ acks' \in Seq(Refusals)
      /\ 1 \in DOMAIN acks /\ a = acks[1]
      /\ \A k \in DOMAIN acks' : k + 1 \in DOMAIN acks /\ acks'[k] = acks[k + 1]
    <2>1. AcksShrink
        BY <1>1, Numbers, AcksShrinkFacts
    <2>2. QED
        BY <1>1, <2>1 DEF AcksShrink
<1>3. /\ linked /\ Ends = {} /\ Begins = {}
      /\ id \in Ids /\ seen[id] >= 1 /\ seen[id] \in Nat
    <2>1. linked /\ Ends = {} /\ id \in Ids /\ seen[id] >= 1
        BY <1>1, <1>2 DEF Inv, PathsInv, LinkInv, DownloadInv, IdsInv, VersionsInv
    <2>2. Begins = {}
        BY <2>1 DEF Inv, PathsInv, DownloadInv
    <2>3. QED
        BY <2>1, <2>2, Numbers
<1>4. a.type = "CREATE" \/ id \notin DOMAIN orders =>
          id \notin DOMAIN live /\ News(id) = {}
    BY <1>2 DEF Inv, PathsInv, ForgottenInv
<1>5. a.type # "CREATE" /\ id \in DOMAIN orders => WasAsked(orders[id])
    BY <1>2 DEF Inv, PathsInv, AmendedInv
<1>6. \A k \in DOMAIN out : out[k].id = id => out[k].type # "CREATE"
    <2>1. ASSUME NEW k \in DOMAIN out, out[k].id = id PROVE out[k].type # "CREATE"
        <3>1. /\ out[k].version > seen[id] /\ (out[k].type = "CREATE" <=> out[k].version = 1)
            BY <2>1 DEF Inv, PathsInv, VersionsInv
        <3>2. QED
            BY <1>3, <3>1
    <2>2. QED
        BY <2>1
<1>7. /\ \A i \in DOMAIN orders : i # id => i \in DOMAIN orders' /\ orders'[i] = orders[i]
      /\ \A i \in DOMAIN orders' :
            /\ i \in DOMAIN orders
            /\ orders'[i].pending.version = orders[i].pending.version
            /\ WasAsked(orders[i]) => WasAsked(orders'[i])
      /\ id \in DOMAIN orders /\ id \notin DOMAIN orders' =>
            id \notin DOMAIN live /\ News(id) = {}
    <2>1. CASE UNCHANGED orders
        BY <2>1
    <2>2. CASE a.type = "CREATE" /\ Dropped(orders, orders', id)
        BY <1>4, <2>2 DEF Dropped
    <2>3. ASSUME id \in DOMAIN orders,
                 NEW o, Stored(orders, orders', id, o),
                 o.pending.version = orders[id].pending.version,
                 o.pending.price = orders[id].pending.price,
                 o.confirmed.version = orders[id].confirmed.version
          PROVE  /\ \A i \in DOMAIN orders :
                       i # id => i \in DOMAIN orders' /\ orders'[i] = orders[i]
                 /\ \A i \in DOMAIN orders' :
                       /\ i \in DOMAIN orders
                       /\ orders'[i].pending.version = orders[i].pending.version
                       /\ WasAsked(orders[i]) => WasAsked(orders'[i])
                 /\ id \in DOMAIN orders'
        <3>1. WasAsked(orders[id]) => WasAsked(o)
            BY <2>3 DEF WasAsked
        <3>2. QED
            BY <2>3, <3>1 DEF Stored
    <2>4. QED
        BY <2>1, <2>2, <2>3 DEF Answering
<1> HIDE DEF id
<1>10. XTypes'
    BY <1>1, <1>2 DEF Inv, PathsInv, XTypes
<1>11. LinkInv' /\ DownloadInv'
    BY <1>1, <1>3 DEF Inv, PathsInv, LinkInv, DownloadInv
<1>12. IdsInv'
    BY <1>1, <1>2, <1>7 DEF Inv, PathsInv, IdsInv
<1>13. VersionsInv'
    <2>1. VersionsInv
        BY DEF Inv, PathsInv
    <2>2. \A i \in DOMAIN orders' :
              /\ orders'[i].pending.version >= 1
              /\ orders'[i].pending.version >= seen'[i]
              /\ \A k \in Asked(i)' : orders'[i].pending.version >= out'[k].version
        BY <1>1, <1>7, <2>1 DEF VersionsInv
    <2>3. \A k \in DOMAIN out' :
              /\ out'[k].version > seen'[out'[k].id]
              /\ out'[k].version <= MaxVersion
              /\ out'[k].price \in Prices
              /\ out'[k].type = "CREATE" <=> out'[k].version = 1
              /\ \A l \in Asked(out[k].id) : l > k => out'[l].version > out'[k].version
        BY <1>1, <2>1 DEF VersionsInv
    <2>4. /\ \A i \in DOMAIN live' : seen'[i] >= 1 /\ live'[i].accepted >= 1
          /\ \A i \in Ids : \A j \in News(i)' :
                /\ 1 <= inbox'[j].value.response /\ inbox'[j].value.response <= seen'[i]
                /\ inbox'[j].value.accepted >= 1
                /\ ~inbox'[j].value.stale
                /\ inbox'[j].value.status \in {"WORKING", "COMPLETED", "CANCELED"}
          /\ \A k \in DOMAIN acks' : seen'[acks'[k].id] >= 1
        BY <1>1, <1>2, <2>1 DEF VersionsInv
    <2>5. QED
        BY <1>1, <2>2, <2>3, <2>4 DEF VersionsInv
<1>14. FinalInv'
    BY <1>1 DEF Inv, PathsInv, FinalInv
<1>15. ForgottenInv'
    <2>1. ForgottenInv
        BY DEF Inv, PathsInv
    <2>2. ASSUME NEW k \in DOMAIN out, NEW i, i = out[k].id, i \notin DOMAIN orders'
          PROVE  out[k].type # "CREATE" /\ i \notin DOMAIN live /\ News(i) = {}
        BY <1>6, <1>7, <2>1, <2>2 DEF ForgottenInv
    <2>3. ASSUME NEW k \in DOMAIN acks', NEW i, i = acks'[k].id
          PROVE  /\ acks'[k].type = "CREATE" \/ i \notin DOMAIN orders' =>
                       i \notin DOMAIN live /\ News(i) = {}
                 /\ acks'[k].error = "TOO_LATE_TO_MODIFY_OR_CANCEL" =>
                       acks'[k].type # "CREATE" /\ i \notin DOMAIN live
        <3>1. /\ acks'[k].type = "CREATE" \/ i \notin DOMAIN orders =>
                    i \notin DOMAIN live /\ News(i) = {}
              /\ acks'[k].error = "TOO_LATE_TO_MODIFY_OR_CANCEL" =>
                    acks'[k].type # "CREATE" /\ i \notin DOMAIN live
            BY <1>2, <2>1, <2>3 DEF ForgottenInv
        <3>2. i \in DOMAIN orders /\ i \notin DOMAIN orders' =>
                  i \notin DOMAIN live /\ News(i) = {}
            BY <1>7
        <3>3. QED
            BY <3>1, <3>2
    <2>4. ASSUME NEW i \in Ids, NEW j \in News(i), i \notin DOMAIN orders',
                 inbox[j].value.status = "WORKING"
          PROVE  inbox[j].value.response = seen[i] /\ Asked(i) = {}
        <3>1. i \notin DOMAIN orders
            BY <1>7, <2>4
        <3>2. QED
            BY <2>1, <2>4, <3>1 DEF ForgottenInv
    <2>5. QED
        BY <1>1, <2>2, <2>3, <2>4 DEF ForgottenInv
<1>16. AmendedInv'
    <2>1. AmendedInv
        BY DEF Inv, PathsInv
    <2>2. QED
        BY <1>1, <1>2, <1>7, <2>1 DEF AmendedInv
<1>17. QED
    BY <1>10, <1>11, <1>12, <1>13, <1>14, <1>15, <1>16 DEF PathsInv
-----------------------------------------------------------------------------
(* The bounds of the model.                                                *)

LEMMA SpendKeeps ==
    ASSUME BoundsInv, NEW what \in DOMAIN Budget, Spend(what)
    PROVE  BoundsInv'
<1>1. \A w \in DOMAIN Budget : Budget[w] \in Nat
    BY ExchangeAssumption DEF Budget
<1>2. /\ DOMAIN used = DOMAIN Budget
      /\ \A w \in DOMAIN Budget : used[w] \in 0..Budget[w]
      /\ used[what] < Budget[what]
      /\ used' = [used EXCEPT ![what] = used[what] + 1]
    BY DEF BoundsInv, Spend
<1> HIDE DEF Budget
<1>3. DOMAIN used' = DOMAIN Budget
    BY <1>2
<1>4. ASSUME NEW w \in DOMAIN Budget PROVE used'[w] \in 0..Budget[w]
    <2>1. used[w] \in 0..Budget[w] /\ Budget[w] \in Nat
        BY <1>1, <1>2
    <2>2. used'[w] = IF w = what THEN used[w] + 1 ELSE used[w]
        BY <1>2
    <2>3. QED
        BY <1>2, <2>1, <2>2
<1>5. Budget' = Budget
    BY DEF Budget
<1>6. QED
    BY <1>3, <1>4, <1>5 DEF BoundsInv

LEMMA BoundsKeep ==
    ASSUME BoundsInv, [XNext]_vars
    PROVE  BoundsInv'
<1>1. UNCHANGED used \/ \E what \in DOMAIN Budget : Spend(what)
    <2> DEFINE G == UNCHANGED used \/ \E what \in DOMAIN Budget : Spend(what)
    <2>0. {"fills", "rejects", "cancels", "drops", "changes"} \subseteq DOMAIN Budget
        BY DEF Budget
    <2>1. CASE Processes
        BY <2>1 DEF Processes, xVars
    <2>2. CASE Answers
        BY <2>0, <2>2 DEF Answers, AcceptsCreate, AcceptsModify, AcceptsCancel,
                          RefusesLate, Refuses
    <2>3. CASE ReceivesInbox \/ ReceivesAck
        BY <2>3 DEF ReceivesInbox, ReceivesUpdate, ReceivesStatus, ReceivesPosition,
                    ReceivesBegin, ReceivesReference, ReceivesEnd, Receives, ReceivesAck
    <2>4. ASSUME NEW p \in ParamSets, ReceivesParameters(p) PROVE G
        <3>1. CASE known
            BY <2>0, <2>4, <3>1 DEF ReceivesParameters
        <3>2. CASE ~known
            BY <2>4, <3>2 DEF ReceivesParameters
        <3>3. QED
            BY <3>1, <3>2
    <2>5. CASE Happens
        BY <2>0, <2>4, <2>5
           DEF Happens, Fills, Cancels, Announces, Drops, Crashes, LosesLink,
               ReceivesTrigger, ReceivesTargets
    <2>6. CASE Connecting
        BY <2>6 DEF Connecting, Connects
    <2>7. CASE \E due \in BOOLEAN : Ticks(due)
        BY <2>7 DEF Ticks, xVars
    <2>8. CASE UNCHANGED vars
        BY <2>8 DEF vars, xVars
    <2>9. QED
        BY <2>1, <2>2, <2>3, <2>5, <2>6, <2>7, <2>8 DEF XNext
<1>2. CASE UNCHANGED used
    BY <1>2 DEF BoundsInv, Budget
<1>3. QED
    BY <1>1, <1>2, SpendKeeps
-----------------------------------------------------------------------------
(* The invariant holds at the start, and every step keeps it.              *)

LEMMA InvInit == XInit => Inv
<1> SUFFICES ASSUME XInit PROVE Inv
    OBVIOUS
<1>1. /\ Init /\ orders = <<>> /\ out = <<>> /\ available = {} /\ ~downloading
      /\ max_order_id = 0 /\ phase = "idle" /\ holes = {} /\ indexed = {}
      /\ live = <<>> /\ inbox = <<>> /\ acks = <<>> /\ linked = FALSE /\ position = 0
      /\ seen = [id \in Ids |-> 0]
      /\ used = [what \in DOMAIN Budget |-> 0]
    BY DEF XInit, Init
<1>2. DOMAIN orders = {} /\ DOMAIN out = {} /\ DOMAIN live = {} /\ DOMAIN inbox = {}
      /\ DOMAIN acks = {}
    BY <1>1, EmptyFacts
<1>3. /\ Begins = {} /\ Ends = {} /\ \A id : News(id) = {}
      /\ \A id : Asked(id) = {}
    BY <1>2 DEF Begins, Ends, News, Asked
<1>4. ManagerInv
    BY <1>1, <1>2, TypeInit DEF ManagerInv, HolesInv, Allowed
<1>5. BoundsInv
    BY <1>1, ExchangeAssumption DEF BoundsInv, Budget
<1>6. MaxOrderId \in Nat /\ MaxVersion \in Nat
    BY ConstantsAssumption
<1>7. XTypes
    <2>1. live \in [DOMAIN live -> LiveOrder]
        BY <1>1, <1>2
    <2>2. inbox \in Seq(Events) /\ acks \in Seq(Refusals)
        <3>1. \A S : <<>> \in Seq(S)
            OBVIOUS
        <3>2. inbox = <<>> /\ acks = <<>>
            BY <1>1, Zenon
        <3>3. QED
            BY <3>1, <3>2, Zenon
    <2>3. seen \in [Ids -> 0..MaxVersion]
        BY <1>1, <1>6
    <2>4. position \in Int /\ linked \in BOOLEAN /\ DOMAIN live \subseteq Ids
        <3>1. position = 0 /\ linked = FALSE
            BY <1>1, Zenon
        <3>2. linked \in BOOLEAN
            BY <3>1, Zenon
        <3>3. position \in Int
            BY <3>1, SMT
        <3>4. DOMAIN live \subseteq Ids
            BY <1>2, Zenon
        <3>5. QED
            BY <3>2, <3>3, <3>4, Zenon
    <2>5. QED
        BY <2>1, <2>2, <2>3, <2>4, Zenon DEF XTypes
<1>8. LinkInv /\ DownloadInv /\ FinalInv
    BY <1>1, <1>3 DEF LinkInv, DownloadInv, FinalInv
<1>9. IdsInv
    BY <1>1, <1>2, <1>6 DEF IdsInv
<1>10. VersionsInv /\ ForgottenInv /\ AmendedInv
    BY <1>2, <1>3 DEF VersionsInv, ForgottenInv, AmendedInv
<1>11. QED
    BY <1>4, <1>5, <1>7, <1>8, <1>9, <1>10 DEF Inv, PathsInv

LEMMA InvStep ==
    ASSUME Inv, ~EraseOnNotReady, [XNext]_vars
    PROVE  Inv'
<1>1. PathsInv'
    BY Shapes, StillKeeps, AmendingKeeps, CreatingKeeps, AcceptingKeeps, RefusingKeeps,
       MovingKeeps, AnnouncingKeeps, LosingKeeps, JoiningKeeps, PassingKeeps,
       BeginningKeeps, HearingKeeps, EndingKeeps, AnsweringKeeps DEF Happened, Inv
<1>2. QED
    BY <1>1, ManagerKeeps, BoundsKeep DEF Inv
-----------------------------------------------------------------------------
(* Requests leave and arrive as OrderRequests wants them.                  *)

(* Nothing has been asked for an id above the last one taken.              *)
LEMMA CreatingSteps ==
    ASSUME Inv, NEW id, NEW o, NEW r, Creating(id, o, r)
    PROVE  id \in Ids /\ Requests!Creates(id)
<1>1. /\ id = max_order_id + 1 /\ id <= MaxOrderId
      /\ out \in Seq(Request) /\ r \in Request /\ out' = Append(out, r)
      /\ r.id = id /\ r.version = 1
      /\ UNCHANGED seen
    BY Numbers DEF Creating
<1>2. max_order_id \in Nat /\ MaxOrderId \in Nat
    BY Numbers
<1>3. id \in Ids
    BY <1>1, <1>2 DEF Ids
<1>4. /\ \A i \in Ids : seen[i] > 0 => i <= max_order_id
      /\ \A k \in DOMAIN out : out[k].id <= max_order_id
    BY OpenFacts DEF Inv, PathsInv, IdsInv, Creating
<1>5. SentRequests' = Append(SentRequests, [id |-> id, version |-> 1])
    BY <1>1 DEF SentRequests
<1>6. ASSUME NEW other \in Ids, other >= id PROVE Requests!Unused(other, 1)
    <2>1. other \in Nat /\ ~(other <= max_order_id) /\ seen[other] \in Nat
        BY <1>1, <1>2, <1>6, Numbers
    <2>2. seen[other] < 1
        BY <1>4, <2>1
    <2>3. \A k \in DOMAIN out : out[k].id # other
        BY <1>4, <2>1
    <2>4. QED
        BY <2>2, <2>3 DEF Requests!Unused, SentRequests
<1>7. QED
    BY <1>1, <1>3, <1>5, <1>6 DEF Requests!Creates, Requests!Ids, Ids

LEMMA AmendingSteps ==
    ASSUME Inv, NEW id, NEW o, NEW r, Amending(id, o, r)
    PROVE  id \in Ids /\ \E v \in 1..MaxVersion : Requests!Amends(id, v)
<1> DEFINE v == o.pending.version
<1>1. /\ id \in DOMAIN orders
      /\ out \in Seq(Request) /\ r \in Request /\ out' = Append(out, r)
      /\ r.id = id /\ r.version = v
      /\ v = orders[id].pending.version + 1 /\ v <= MaxVersion
      /\ UNCHANGED seen
    BY Numbers DEF Amending
<1> HIDE DEF v
<1>2. id \in Ids
    BY <1>1 DEF Inv, PathsInv, IdsInv
<1>3. /\ orders[id].pending.version \in Nat /\ MaxVersion \in Nat
      /\ seen[id] \in Nat /\ \A k \in DOMAIN out : out[k].version \in Nat
    BY <1>1, <1>2, Numbers
<1>4. /\ orders[id].pending.version >= 1
      /\ orders[id].pending.version >= seen[id]
      /\ \A k \in Asked(id) : orders[id].pending.version >= out[k].version
    BY <1>1 DEF Inv, PathsInv, VersionsInv
<1>5. v \in 1..MaxVersion /\ v > 1 /\ seen[id] < v
    BY <1>1, <1>3, <1>4
<1>6. \A k \in DOMAIN out : out[k].id = id => out[k].version < v
    BY <1>1, <1>3, <1>4 DEF Asked
<1>7. SentRequests' = Append(SentRequests, [id |-> id, version |-> v])
    BY <1>1 DEF SentRequests
<1>8. Requests!Unused(id, v)
    BY <1>5, <1>6 DEF Requests!Unused, SentRequests
<1>9. QED
    BY <1>1, <1>2, <1>5, <1>7, <1>8 DEF Requests!Amends

LEMMA TakingSteps ==
    ASSUME Inv, NEW r, Taking(r)
    PROVE  Requests!Arrives
<1>1. /\ out \in Seq(Request) /\ out # <<>> /\ out' = Tail(out) /\ r = out[1]
      /\ seen' = [seen EXCEPT ![r.id] = r.version]
    BY Numbers, TailFacts DEF Taking
<1>2. SentRequests # <<>> /\ Head(SentRequests) = [id |-> r.id, version |-> r.version]
    BY <1>1 DEF SentRequests
<1>3. SentRequests' = Tail(SentRequests)
    BY <1>1 DEF SentRequests
<1>4. Head(SentRequests).id = r.id /\ Head(SentRequests).version = r.version
    BY <1>2
<1>5. seen' = [seen EXCEPT ![Head(SentRequests).id] = Head(SentRequests).version]
    BY <1>1, <1>4, Zenon
<1>6. QED
    BY <1>2, <1>3, <1>5, Zenon DEF Requests!Arrives

LEMMA RequestsStep ==
    ASSUME Inv, ~EraseOnNotReady, [XNext]_vars
    PROVE  [Requests!Next]_<<SentRequests, seen>>
<1>1. ASSUME UNCHANGED <<out, seen>>
      PROVE  UNCHANGED <<SentRequests, seen>>
    BY <1>1 DEF SentRequests
<1>2. CASE Losing
    <2>1. SentRequests' = <<>>
        BY <1>2, EmptyFacts DEF Losing, SentRequests
    <2>2. QED
        BY <1>2, <2>1 DEF Losing, Requests!Next, Requests!Lost
<1>3. ASSUME NEW id, NEW o, NEW r, Amending(id, o, r) \/ Creating(id, o, r)
      PROVE  Requests!Next
    BY <1>3, CreatingSteps, AmendingSteps DEF Requests!Next, Requests!Ids, Ids
<1>4. ASSUME NEW r, Taking(r) PROVE Requests!Next
    BY <1>4, TakingSteps DEF Requests!Next
<1>5. \/ UNCHANGED <<out, seen>> \/ Losing
      \/ \E id, o, r : Amending(id, o, r) \/ Creating(id, o, r)
      \/ \E r : Taking(r)
    <2>1. Happened
        BY Shapes
    <2>2. (Still \/ Joining \/ Passing \/ Beginning) => UNCHANGED <<out, seen>>
        BY DEF Still, Joining, Passing, Beginning
    <2>3. \A u : Hearing(u) \/ Ending(u) \/ Answering(u) \/ Announcing(u)
                     => UNCHANGED <<out, seen>>
        BY DEF Hearing, Ending, Answering, Announcing
    <2>4. \A id, x, e : Moving(id, x, e) => UNCHANGED <<out, seen>>
        BY DEF Moving
    <2>5. \A r, x, e : Accepting(r, x, e) => Taking(r)
        BY DEF Accepting
    <2>6. \A r, a : Refusing(r, a) => Taking(r)
        BY DEF Refusing
    <2>7. QED
        BY <2>1, <2>2, <2>3, <2>4, <2>5, <2>6 DEF Happened
<1>6. QED
    BY <1>1, <1>2, <1>3, <1>4, <1>5
-----------------------------------------------------------------------------
(* Every gateway that offers to create and to cancel offers to modify.     *)
ModifyOffered ==
    \A mask \in Masks : {"CREATE", "CANCEL"} \subseteq mask => "MODIFY" \in mask

LEMMA CreationFits ==
    ASSUME Inv, ModifyOffered, NEW s \in Sides, NEW p \in Prices, CreateAsserts(s, p)
    PROVE  FALSE
<1>1. ~downloading /\ {"CREATE", "CANCEL"} \subseteq available
    BY DEF CreateAsserts, NextHole, Inv, ManagerInv, Allowed, IsReady
<1>2. "MODIFY" \in available
    BY <1>1 DEF Inv, PathsInv, LinkInv, ModifyOffered
<1>3. \A id \in DOMAIN orders : id <= max_order_id
    BY <1>1, OpenFacts DEF Inv
<1>4. max_order_id + 1 \notin DOMAIN orders
    BY <1>3, Numbers
<1>5. QED
    BY <1>1, <1>2, <1>4 DEF CreateAsserts, IsReady

LEMMA AbortsStep ==
    ASSUME Inv, ModifyOffered, NeverAborts, [XNext]_vars
    PROVE  NeverAborts'
<1> USE DEF NeverAborts
<1>1. CASE Process
    BY <1>1, CreationFits
       DEF Process, ProcessReturns, ProcessBegins, CountEnds, AdjustEnds, ProcessEnds,
           CountOrder, modify_order, cancel_order, create_order, Amend, CountAgain
<1>2. CASE QuietStep \/ Init' \/ UNCHANGED omsVars
    BY <1>2 DEF QuietStep, Init, omsVars
<1>3. QED
    BY <1>1, <1>2, ManagerSteps, Steps
-----------------------------------------------------------------------------
(* The invariant always holds.                                             *)
THEOREM Always ==
    ASSUME ~EraseOnNotReady
    PROVE  XSpec => []Inv
<1>1. Inv /\ [XNext]_vars => Inv'
    BY InvStep
<1>2. QED
    BY <1>1, InvInit, PTL DEF XSpec

(* Every variable of the manager, of the gateway and of the exchange keeps *)
(* its type, whatever is refused, lost or restarted.                       *)
THEOREM TypesAgree ==
    ASSUME ~EraseOnNotReady
    PROVE  XSpec => []XTypeOK
<1>1. Inv => XTypeOK
    BY DEF Inv, ManagerInv, TypeInv, BoundsInv, PathsInv, XTypes, XTypeOK
<1>2. QED
    BY <1>1, Always, PTL

(* What the gateway is sent implements OrderRequests: ids are taken in     *)
(* ascending order and once, also after a restart, and the versions of an  *)
(* order only grow.                                                        *)
(* (manager.cpp create_order, modify_order, cancel_order, DownloadEnd)     *)
THEOREM RequestsImplemented ==
    ASSUME ~EraseOnNotReady
    PROVE  XSpec => RequestsInOrder
<1>1. XInit => Requests!Init
    BY EmptyFacts DEF XInit, Init, Requests!Init, SentRequests, Requests!Ids, Ids
<1>2. Inv /\ [XNext]_vars => [Requests!Next]_<<SentRequests, seen>>
    BY RequestsStep
<1>3. QED
    BY <1>1, <1>2, Always, PTL DEF XSpec, RequestsInOrder, Requests!Spec

(* No assert of the order manager fails if the gateway that offers to      *)
(* create and to cancel offers to modify too.                              *)
(* (manager.cpp create_order: is_ready(MODIFY), orders.find(order_id))     *)
THEOREM AssertsNeverFail ==
    ASSUME ~EraseOnNotReady, ModifyOffered
    PROVE  XSpec => []NeverAborts
<1>1. XInit => NeverAborts
    BY DEF XInit, Init, NeverAborts
<1>2. Inv /\ NeverAborts /\ [XNext]_vars => NeverAborts'
    BY AbortsStep
<1>3. QED
    BY <1>1, <1>2, Always, PTL DEF XSpec
-----------------------------------------------------------------------------
(* The book and the exchange agree.                                        *)

(* The download that the connection began with has begun at the client.    *)
Fresh == linked /\ Begins = {}

HasFinal(id) == \E j \in News(id) : IsFinal(inbox[j].value)
CreateAsked(id) == \E k \in Asked(id) : out[k].type = "CREATE"
CreateRefused(id) == \E k \in Refused(id) : acks[k].type = "CREATE"
IsLast(id, i) == \A j \in News(id) : j <= i
-----------------------------------------------------------------------------
(* The inductive invariant, in parts, beyond that of the requests.         *)

KnownInv == linked => known

(* Every live order is about to be told of, or is in the book.             *)
LiveInv ==
    linked => \A id \in DOMAIN live :
                 News(id) # {} \/ (Begins = {} /\ id \in DOMAIN orders)

(* What is told of is live, or its end is told too.                        *)
ToldInv == \A id \in Ids : News(id) # {} => id \in DOMAIN live \/ HasFinal(id)

(* What is in the book is live, or its end is on its way, or its creation  *)
(* or the refusal of it.                                                   *)
BookInv ==
    Fresh => \A id \in DOMAIN orders :
                id \in DOMAIN live \/ HasFinal(id) \/ CreateAsked(id) \/ CreateRefused(id)

(* An order never changes its side.                                        *)
SidesInv ==
    /\ \A id \in DOMAIN live : \A i \in News(id) : inbox[i].value.side = live[id].side
    /\ \A id \in Ids : \A i, j \in News(id) : inbox[i].value.side = inbox[j].value.side
    /\ \A id \in DOMAIN orders :
          /\ id \in DOMAIN live => orders[id].side = live[id].side
          /\ \A i \in News(id) : inbox[i].value.side = orders[id].side
          /\ \A k \in Asked(id) : out[k].type = "CREATE" => out[k].side = orders[id].side

(* The last that is told of a live order is what it is.                    *)
LastInv ==
    \A id \in DOMAIN live : \A i \in News(id) :
        IsLast(id, i) => /\ inbox[i].value.status = "WORKING"
                         /\ inbox[i].value.price = live[id].price
                         /\ inbox[i].value.remaining = live[id].remaining

(* When all has been told of it, the book has confirmed what it is.        *)
ConfirmedInv ==
    Fresh => \A id \in DOMAIN live :
                id \in DOMAIN orders /\ News(id) = {} =>
                   /\ orders[id].confirmed.price = live[id].price
                   /\ orders[id].confirmed.quantity = live[id].remaining

(* What waits for an answer is about to get one.                           *)
WaitsInv ==
    Fresh => \A id \in DOMAIN orders :
                IsPending(orders[id]) =>
                   Asked(id) # {} \/ News(id) # {} \/ Refused(id) # {}

(* What the book takes for gone is gone.                                   *)
OverInv ==
    \A id \in DOMAIN orders :
        IsOver(orders[id]) => id \notin DOMAIN live /\ seen[id] >= 1

AnswersInv ==
    /\ LiveInv /\ ToldInv /\ BookInv /\ SidesInv
    /\ LastInv /\ ConfirmedInv /\ WaitsInv /\ OverInv

AgreementInv == Inv /\ KnownInv /\ BelievedOrders /\ AnswersInv
-----------------------------------------------------------------------------
(* Each of the steps keeps what the two know of each other.                *)

LEMMA StillAgrees ==
    ASSUME AnswersInv, Still
    PROVE  AnswersInv'
<1>1. /\ Begins' = Begins /\ Ends' = Ends /\ \A id : News(id)' = News(id)
      /\ \A id : Asked(id)' = Asked(id) /\ Refused(id)' = Refused(id)
      /\ UNCHANGED <<orders, out, live, seen, inbox, acks, linked>>
    BY SameInbox, SameOut DEF Still, Refused
<1> USE <1>1 DEF AnswersInv
<1>2. LiveInv' /\ ToldInv'
    BY DEF LiveInv, ToldInv, HasFinal
<1>3. BookInv'
    BY DEF BookInv, HasFinal, CreateAsked, CreateRefused, Fresh
<1>4. SidesInv'
    BY DEF SidesInv
<1>5. LastInv'
    BY DEF LastInv, IsLast
<1>6. ConfirmedInv' /\ WaitsInv' /\ OverInv'
    BY DEF ConfirmedInv, WaitsInv, OverInv, Fresh, IsPending, IsOver
<1>7. QED
    BY <1>2, <1>3, <1>4, <1>5, <1>6

LEMMA AmendingAgrees ==
    ASSUME Inv, AnswersInv, NEW id, NEW o, NEW r, Amending(id, o, r)
    PROVE  AnswersInv'
<1> DEFINE n == Len(out) + 1
<1>1. /\ UNCHANGED <<live, seen, inbox, acks, linked>>
      /\ Begins' = Begins /\ \A i : News(i)' = News(i)
      /\ \A i : Refused(i)' = Refused(i)
      /\ id \in DOMAIN orders /\ Stored(orders, orders', id, o)
      /\ r.id = id /\ r.type # "CREATE"
      /\ o.confirmed = orders[id].confirmed /\ o.side = orders[id].side
    BY SameInbox DEF Amending, Refused
<1>2. /\ n \notin DOMAIN out
      /\ \A k \in DOMAIN out : out'[k] = out[k]
      /\ out'[n] = r
      /\ \A i : Asked(i)' = IF i = id THEN Asked(i) \cup {n} ELSE Asked(i)
    <2>1. OutGrows(r)
        BY OutGrowsFacts, Numbers DEF Amending
    <2>2. QED
        BY <1>1, <2>1 DEF OutGrows
<1>3. /\ DOMAIN orders' = DOMAIN orders
      /\ \A i \in DOMAIN orders :
            /\ orders'[i].side = orders[i].side
            /\ orders'[i].confirmed = orders[i].confirmed
            /\ i # id => orders'[i] = orders[i]
    BY <1>1 DEF Stored
<1>4. \A i : \A k \in Asked(i) : k \in DOMAIN out
    BY DEF Asked
<1> HIDE DEF n
<1> USE DEF AnswersInv
<1>5. LiveInv' /\ ToldInv'
    BY <1>1, <1>3 DEF LiveInv, ToldInv, HasFinal
<1>6. BookInv'
    <2>1. \A i : CreateAsked(i) => CreateAsked(i)'
        BY <1>2, <1>4 DEF CreateAsked
    <2>2. QED
        BY <1>1, <1>3, <2>1 DEF BookInv, HasFinal, CreateRefused, Fresh
<1>7. SidesInv'
    <2>1. \A i \in DOMAIN orders : \A k \in Asked(i)' :
              out'[k].type = "CREATE" => out'[k].side = orders'[i].side
        BY <1>1, <1>2, <1>3, <1>4 DEF SidesInv
    <2>2. QED
        BY <1>1, <1>3, <2>1 DEF SidesInv
<1>8. LastInv'
    BY <1>1 DEF LastInv, IsLast
<1>9. ConfirmedInv'
    BY <1>1, <1>3 DEF ConfirmedInv, Fresh
<1>10. WaitsInv'
    BY <1>1, <1>2, <1>3 DEF WaitsInv, Fresh, IsPending
<1>11. OverInv'
    BY <1>1, <1>3 DEF OverInv, IsOver
<1>12. QED
    BY <1>5, <1>6, <1>7, <1>8, <1>9, <1>10, <1>11

LEMMA CreatingAgrees ==
    ASSUME Inv, AnswersInv, NEW id, NEW o, NEW r, Creating(id, o, r)
    PROVE  AnswersInv'
<1> DEFINE n == Len(out) + 1
<1>1. /\ UNCHANGED <<live, seen, inbox, acks, linked>>
      /\ Begins' = Begins /\ \A i : News(i)' = News(i)
      /\ \A i : Refused(i)' = Refused(i)
      /\ id \notin DOMAIN orders /\ Stored(orders, orders', id, o)
      /\ id = max_order_id + 1 /\ id <= MaxOrderId
      /\ r.id = id /\ r.type = "CREATE" /\ r.side = o.side /\ ~IsOver(o)
    BY SameInbox DEF Creating, Refused
<1>2. /\ n \notin DOMAIN out
      /\ \A k \in DOMAIN out : out'[k] = out[k]
      /\ out'[n] = r
      /\ \A i : Asked(i)' = IF i = id THEN Asked(i) \cup {n} ELSE Asked(i)
    <2>1. OutGrows(r)
        BY OutGrowsFacts, Numbers DEF Creating
    <2>2. QED
        BY <1>1, <2>1 DEF OutGrows
<1>3. /\ DOMAIN orders' = DOMAIN orders \cup {id}
      /\ orders'[id] = o
      /\ \A i \in DOMAIN orders : i # id /\ orders'[i] = orders[i]
    BY <1>1 DEF Stored
<1>4. \A i : \A k \in Asked(i) : k \in DOMAIN out /\ out[k].id = i
    BY DEF Asked
<1>5. id \notin DOMAIN live /\ News(id) = {} /\ Asked(id) = {}
    <2>1. /\ \A i \in Ids : seen[i] > 0 => i <= max_order_id
          /\ \A k \in DOMAIN out : out[k].id <= max_order_id
        BY OpenFacts DEF Creating, Inv, PathsInv, IdsInv
    <2>2. max_order_id \in Nat /\ MaxOrderId \in Nat
        BY Numbers
    <2>3. id \in Ids /\ ~(id <= max_order_id)
        BY <1>1, <2>2 DEF Ids
    <2>4. seen[id] = 0
        BY <2>1, <2>3, Numbers
    <2>5. Asked(id) = {}
        BY <2>1, <2>3 DEF Asked
    <2>6. QED
        BY <2>3, <2>4, <2>5, UnseenFacts
<1> HIDE DEF n
<1> USE DEF AnswersInv
<1>6. LiveInv' /\ ToldInv'
    BY <1>1, <1>3 DEF LiveInv, ToldInv, HasFinal
<1>7. BookInv'
    <2>1. \A i : CreateAsked(i) => CreateAsked(i)'
        BY <1>2, <1>4 DEF CreateAsked
    <2>2. CreateAsked(id)'
        BY <1>1, <1>2 DEF CreateAsked
    <2>3. QED
        BY <1>1, <1>3, <2>1, <2>2 DEF BookInv, HasFinal, CreateRefused, Fresh
<1>8. SidesInv'
    <2>1. ASSUME NEW i \in DOMAIN orders', NEW k \in Asked(i)', out'[k].type = "CREATE"
          PROVE  out'[k].side = orders'[i].side
        <3>1. CASE i = id
            BY <1>1, <1>2, <1>3, <1>5, <2>1, <3>1
        <3>2. CASE i # id
            BY <1>2, <1>3, <1>4, <2>1, <3>2 DEF SidesInv
        <3>3. QED
            BY <3>1, <3>2
    <2>2. ASSUME NEW i \in DOMAIN orders'
          PROVE  /\ i \in DOMAIN live => orders'[i].side = live[i].side
                 /\ \A j \in News(i) : inbox[j].value.side = orders'[i].side
        BY <1>3, <1>5 DEF SidesInv
    <2>3. QED
        BY <1>1, <2>1, <2>2 DEF SidesInv
<1>9. LastInv'
    BY <1>1 DEF LastInv, IsLast
<1>10. ConfirmedInv'
    BY <1>1, <1>3, <1>5 DEF ConfirmedInv, Fresh
<1>11. WaitsInv'
    BY <1>1, <1>2, <1>3 DEF WaitsInv, Fresh, IsPending
<1>12. OverInv'
    BY <1>1, <1>3 DEF OverInv, IsOver
<1>13. QED
    BY <1>6, <1>7, <1>8, <1>9, <1>10, <1>11, <1>12

(* What is taken leaves the line: the requests for other orders stay.      *)
LEMMA TakenAgrees ==
    ASSUME Inv, NEW r, Taking(r)
    PROVE  /\ \A i : i # r.id /\ Asked(i) # {} => Asked(i)' # {}
           /\ \A i : i # r.id /\ CreateAsked(i) => CreateAsked(i)'
           /\ CreateAsked(r.id) => r.type = "CREATE" \/ CreateAsked(r.id)'
           /\ \A i : \A k \in Asked(i)' : k + 1 \in Asked(i) /\ out'[k] = out[k + 1]
<1>1. /\ 1 \in DOMAIN out /\ out[1] = r
      /\ \A k \in DOMAIN out : k \in Nat \ {0} /\ (k # 1 => k - 1 \in DOMAIN out')
      /\ \A k \in DOMAIN out' :
            k \in Nat \ {0} /\ k + 1 \in DOMAIN out /\ out'[k] = out[k + 1]
      /\ \A id : Asked(id)' = {k \in DOMAIN out' : k + 1 \in Asked(id)}
    <2>1. OutShrinks
        BY OutShrinksFacts, Numbers DEF Taking
    <2>2. QED
        BY <2>1, TakenFacts DEF OutShrinks
<1>2. \A i : \A k \in Asked(i) : k \in DOMAIN out /\ out[k].id = i
    BY DEF Asked
<1>3. \A k \in DOMAIN out : k # 1 => k - 1 \in DOMAIN out' /\ (k - 1) + 1 = k
    BY <1>1
<1>4. \A i : \A k \in Asked(i) :
          k # 1 => k - 1 \in Asked(i)' /\ out'[k - 1] = out[k]
    <2>1. ASSUME NEW i, NEW k \in Asked(i), k # 1
          PROVE  k - 1 \in Asked(i)' /\ out'[k - 1] = out[k]
        <3>1. k - 1 \in DOMAIN out' /\ (k - 1) + 1 = k
            BY <1>2, <1>3, <2>1
        <3>2. out'[k - 1] = out[(k - 1) + 1] /\ k - 1 \in Asked(i)'
            BY <1>1, <3>1
        <3>3. QED
            BY <3>1, <3>2
    <2>2. QED
        BY <2>1
<1>5. \A i : i # r.id => \A k \in Asked(i) : k # 1
    BY <1>1, <1>2
<1>6. \A i : i # r.id /\ Asked(i) # {} => Asked(i)' # {}
    BY <1>4, <1>5
<1>7. \A i : i # r.id /\ CreateAsked(i) => CreateAsked(i)'
    BY <1>4, <1>5 DEF CreateAsked
<1>8. CreateAsked(r.id) => r.type = "CREATE" \/ CreateAsked(r.id)'
    BY <1>1, <1>4 DEF CreateAsked
<1>9. \A i : \A k \in Asked(i)' : k + 1 \in Asked(i) /\ out'[k] = out[k + 1]
    BY <1>1
<1>10. QED
    BY <1>6, <1>7, <1>8, <1>9

LEMMA AcceptingAgrees ==
    ASSUME Inv, AnswersInv, NEW r, NEW x, NEW e, Accepting(r, x, e)
    PROVE  AnswersInv'
<1> DEFINE id == r.id
           m == Len(inbox) + 1
<1>1. /\ Taking(r) /\ UNCHANGED <<orders, acks, linked>>
      /\ NewsOf(e, id, x, r.version) /\ inbox' = Append(inbox, e)
      /\ \A i : Refused(i)' = Refused(i)
      /\ \/ r.type = "CREATE" /\ x.side = r.side
            /\ Stored(live, live', id, x) /\ e.value.status = "WORKING"
         \/ r.type # "CREATE" /\ id \in DOMAIN live /\ x.side = live[id].side
            /\ \/ Stored(live, live', id, x) /\ e.value.status = "WORKING"
               \/ Dropped(live, live', id) /\ e.value.status = "CANCELED"
    BY DEF Accepting, Taking, Refused
<1>2. /\ linked /\ Begins = {}
      /\ 1 \in Asked(id) /\ r = out[1]
      /\ id \in Ids /\ seen'[id] >= 1
      /\ r.type = "CREATE" => seen[id] = 0
      /\ \A i \in Ids : seen'[i] \in Nat /\ seen[i] \in Nat /\ seen'[i] >= seen[i]
    <2>1. /\ linked /\ Begins = {}
          /\ 1 \in Asked(id) /\ r = out[1]
          /\ id \in Ids /\ r.version \in Nat \ {0} /\ seen'[id] = r.version
          /\ r.version > seen[id] /\ (r.type = "CREATE" <=> r.version = 1)
          /\ \A i \in Ids : seen'[i] \in Nat /\ seen[i] \in Nat /\ seen'[i] >= seen[i]
        BY <1>1, TakenFacts
    <2>2. QED
        BY <2>1
<1>3. /\ m \in Nat /\ m \notin DOMAIN inbox
      /\ \A i \in DOMAIN inbox : i \in Nat /\ i < m /\ inbox'[i] = inbox[i]
      /\ inbox'[m] = e /\ Begins' = Begins
      /\ \A i : News(i)' = IF i = id THEN News(i) \cup {m} ELSE News(i)
    BY <1>1, <1>2, ToldFacts
<1>4. /\ e.value.side = x.side /\ e.value.price = x.price
      /\ e.value.status = "WORKING" => e.value.remaining = x.remaining
    BY <1>1 DEF NewsOf
<1>5. r.type = "CREATE" => /\ id \notin DOMAIN live /\ News(id) = {}
                           /\ id \in DOMAIN orders /\ orders[id].side = r.side
                           /\ ~IsOver(orders[id])
    <2>1. r.type = "CREATE" => id \notin DOMAIN live /\ News(id) = {}
        BY <1>2, UnseenFacts
    <2>2. 1 \in DOMAIN out /\ out[1].id = id
        BY <1>2 DEF Asked
    <2>3. r.type = "CREATE" => id \in DOMAIN orders
        BY <1>2, <2>2 DEF Inv, PathsInv, ForgottenInv
    <2>4. r.type = "CREATE" => orders[id].side = r.side
        BY <1>2, <2>3 DEF AnswersInv, SidesInv
    <2>5. r.type = "CREATE" => ~IsOver(orders[id])
        BY <1>2, <2>3 DEF AnswersInv, OverInv
    <2>6. QED
        BY <2>1, <2>3, <2>4, <2>5
<1>6. /\ \A i \in DOMAIN live : i # id => i \in DOMAIN live'
      /\ \A i \in DOMAIN live' : i # id => i \in DOMAIN live /\ live'[i] = live[i]
      /\ id \in DOMAIN live' => live'[id] = x /\ e.value.status = "WORKING"
      /\ id \notin DOMAIN live' => IsFinal(e.value)
    <2>1. CASE Stored(live, live', id, x) /\ e.value.status = "WORKING"
        BY <2>1 DEF Stored
    <2>2. CASE Dropped(live, live', id) /\ e.value.status = "CANCELED"
        BY <2>2 DEF Dropped, IsFinal
    <2>3. QED
        BY <1>1, <2>1, <2>2
<1>7. /\ \A i : \A j \in News(i) : j \in DOMAIN inbox /\ inbox'[j] = inbox[j] /\ j # m
      /\ m \in News(id)'
    BY <1>3 DEF News
<1>8. \A i : i # id => HasFinal(i)' = HasFinal(i)
    BY <1>3, <1>7 DEF HasFinal
<1>9. id \notin DOMAIN live' => HasFinal(id)'
    BY <1>3, <1>6, <1>7 DEF HasFinal
<1>10. /\ \A i : i # r.id /\ Asked(i) # {} => Asked(i)' # {}
       /\ \A i : i # r.id /\ CreateAsked(i) => CreateAsked(i)'
       /\ \A i : \A k \in Asked(i)' : k + 1 \in Asked(i) /\ out'[k] = out[k + 1]
    BY <1>1, TakenAgrees
<1> HIDE DEF m, id
<1> USE DEF AnswersInv
<1>11. LiveInv'
    BY <1>1, <1>3, <1>6, <1>7 DEF LiveInv
<1>12. ToldInv'
    BY <1>3, <1>6, <1>8, <1>9 DEF ToldInv
<1>13. BookInv'
    <2>1. ASSUME NEW i \in DOMAIN orders, i # id
          PROVE  i \in DOMAIN live' \/ HasFinal(i)' \/ CreateAsked(i)' \/ CreateRefused(i)'
        <3>1. i \in DOMAIN live \/ HasFinal(i) \/ CreateAsked(i) \/ CreateRefused(i)
            BY <1>2 DEF BookInv, Fresh
        <3>2. CreateRefused(i)' = CreateRefused(i)
            BY <1>1 DEF CreateRefused
        <3>3. QED
            BY <1>6, <1>8, <1>10, <2>1, <3>1, <3>2 DEF id
    <2>2. QED
        BY <1>1, <1>9, <2>1 DEF BookInv
<1>14. SidesInv'
    <2>1. id \in DOMAIN live' => \A j \in News(id) : inbox[j].value.side = x.side
        BY <1>1, <1>5 DEF SidesInv
    <2>2. \A j \in News(id) : inbox[j].value.side = x.side
        BY <1>1, <1>5 DEF SidesInv
    <2>3. id \in DOMAIN orders => orders[id].side = x.side
        BY <1>1, <1>5 DEF SidesInv
    <2>4. ASSUME NEW i \in DOMAIN live', NEW j \in News(i)'
          PROVE  inbox'[j].value.side = live'[i].side
        <3>1. CASE i = id
            BY <1>3, <1>4, <1>6, <1>7, <2>2, <2>4, <3>1
        <3>2. CASE i # id
            BY <1>3, <1>6, <1>7, <2>4, <3>2 DEF SidesInv
        <3>3. QED
            BY <3>1, <3>2
    <2>5. ASSUME NEW i \in Ids, NEW j \in News(i)', NEW k \in News(i)'
          PROVE  inbox'[j].value.side = inbox'[k].value.side
        <3>1. CASE i = id
            BY <1>3, <1>4, <1>7, <2>2, <2>5, <3>1
        <3>2. CASE i # id
            BY <1>3, <1>7, <2>5, <3>2 DEF SidesInv
        <3>3. QED
            BY <3>1, <3>2
    <2>6. ASSUME NEW i \in DOMAIN orders'
          PROVE  /\ i \in DOMAIN live' => orders'[i].side = live'[i].side
                 /\ \A j \in News(i)' : inbox'[j].value.side = orders'[i].side
        <3>1. CASE i = id
            BY <1>1, <1>3, <1>4, <1>6, <1>7, <2>2, <2>3, <2>6, <3>1
        <3>2. CASE i # id
            BY <1>1, <1>3, <1>6, <1>7, <2>6, <3>2 DEF SidesInv
        <3>3. QED
            BY <3>1, <3>2
    <2>7. \A i \in DOMAIN orders' : \A k \in Asked(i)' :
              out'[k].type = "CREATE" => out'[k].side = orders'[i].side
        BY <1>1, <1>10 DEF SidesInv
    <2>8. QED
        BY <2>4, <2>5, <2>6, <2>7 DEF SidesInv
<1>15. LastInv'
    <2>1. ASSUME NEW i \in DOMAIN live', NEW j \in News(i)', IsLast(i, j)'
          PROVE  /\ inbox'[j].value.status = "WORKING"
                 /\ inbox'[j].value.price = live'[i].price
                 /\ inbox'[j].value.remaining = live'[i].remaining
        <3>1. CASE i = id
            <4>1. m <= j
                BY <1>7, <2>1, <3>1 DEF IsLast
            <4>2. j = m
                BY <1>3, <1>7, <2>1, <3>1, <4>1
            <4>3. QED
                BY <1>3, <1>4, <1>6, <3>1, <4>2
        <3>2. CASE i # id
            BY <1>3, <1>6, <1>7, <2>1, <3>2 DEF LastInv, IsLast
        <3>3. QED
            BY <3>1, <3>2
    <2>2. QED
        BY <2>1 DEF LastInv
<1>16. ConfirmedInv'
    BY <1>1, <1>2, <1>3, <1>6, <1>7 DEF ConfirmedInv, Fresh
<1>17. WaitsInv'
    BY <1>1, <1>2, <1>3, <1>7, <1>10 DEF WaitsInv, Fresh, IsPending, id
<1>18. OverInv'
    <2>1. ASSUME NEW i \in DOMAIN orders, IsOver(orders[i])
          PROVE  i \notin DOMAIN live' /\ seen'[i] >= 1
        <3>1. i \notin DOMAIN live /\ seen[i] >= 1 /\ i \in Ids
            BY <2>1 DEF OverInv, Inv, PathsInv, IdsInv
        <3>2. seen'[i] >= 1
            BY <1>2, <3>1
        <3>3. CASE i = id
            <4>1. i \notin DOMAIN live'
                BY <1>1, <1>5, <2>1, <3>1, <3>3 DEF Dropped
            <4>2. QED
                BY <3>2, <4>1
        <3>4. CASE i # id
            BY <1>6, <3>1, <3>2, <3>4
        <3>5. QED
            BY <3>3, <3>4
    <2>2. QED
        BY <1>1, <2>1 DEF OverInv, IsOver
<1>19. QED
    BY <1>11, <1>12, <1>13, <1>14, <1>15, <1>16, <1>17, <1>18

LEMMA RefusingAgrees ==
    ASSUME Inv, AnswersInv, NEW r, NEW a, Refusing(r, a)
    PROVE  AnswersInv'
<1> DEFINE id == r.id
           n == Len(acks) + 1
<1>1. /\ Taking(r) /\ UNCHANGED <<orders, live, inbox, linked>>
      /\ Begins' = Begins /\ \A i : News(i)' = News(i)
      /\ a.id = id /\ a.type = r.type
    BY SameInbox DEF Refusing, Taking
<1>2. /\ linked /\ Begins = {}
      /\ \A i \in Ids : seen'[i] \in Nat /\ seen[i] \in Nat /\ seen'[i] >= seen[i]
    BY <1>1, TakenFacts
<1>3. /\ \A k \in DOMAIN acks : acks'[k] = acks[k]
      /\ acks'[n] = a
      /\ \A i : Refused(i)' = IF id = i THEN Refused(i) \cup {n} ELSE Refused(i)
    <2>1. AcksGrow(a)
        BY Numbers, AcksGrowFacts DEF Refusing
    <2>2. QED
        BY <1>1, <2>1 DEF AcksGrow
<1>4. /\ \A i : i # id /\ Asked(i) # {} => Asked(i)' # {}
      /\ \A i : i # id /\ CreateAsked(i) => CreateAsked(i)'
      /\ CreateAsked(id) => r.type = "CREATE" \/ CreateAsked(id)'
      /\ \A i : \A k \in Asked(i)' : k + 1 \in Asked(i) /\ out'[k] = out[k + 1]
    BY <1>1, TakenAgrees
<1>5. /\ \A i : CreateRefused(i) => CreateRefused(i)'
      /\ r.type = "CREATE" => CreateRefused(id)'
    BY <1>1, <1>3 DEF CreateRefused, Refused
<1> HIDE DEF n, id
<1> USE DEF AnswersInv
<1>6. LiveInv' /\ ToldInv'
    BY <1>1 DEF LiveInv, ToldInv, HasFinal
<1>7. BookInv'
    <2>1. \A i : HasFinal(i)' = HasFinal(i)
        BY <1>1 DEF HasFinal
    <2>2. ASSUME NEW i \in DOMAIN orders
          PROVE  i \in DOMAIN live \/ HasFinal(i)' \/ CreateAsked(i)' \/ CreateRefused(i)'
        <3>1. i \in DOMAIN live \/ HasFinal(i) \/ CreateAsked(i) \/ CreateRefused(i)
            BY <1>2 DEF BookInv, Fresh
        <3>2. QED
            BY <1>4, <1>5, <2>1, <3>1
    <2>3. QED
        BY <1>1, <2>2 DEF BookInv
<1>8. SidesInv'
    <2>1. \A i \in DOMAIN orders : \A k \in Asked(i)' :
              out'[k].type = "CREATE" => out'[k].side = orders[i].side
        BY <1>4 DEF SidesInv
    <2>2. QED
        BY <1>1, <2>1 DEF SidesInv
<1>9. LastInv'
    BY <1>1 DEF LastInv, IsLast
<1>10. ConfirmedInv'
    BY <1>1 DEF ConfirmedInv, Fresh
<1>11. WaitsInv'
    BY <1>1, <1>2, <1>3, <1>4 DEF WaitsInv, Fresh, IsPending
<1>12. OverInv'
    <2>1. \A i \in DOMAIN orders : i \in Ids
        BY DEF Inv, PathsInv, IdsInv
    <2>2. \A i \in Ids : seen[i] >= 1 => seen'[i] >= 1
        BY <1>2
    <2>3. QED
        BY <1>1, <2>1, <2>2 DEF OverInv, IsOver
<1>13. QED
    BY <1>6, <1>7, <1>8, <1>9, <1>10, <1>11, <1>12

LEMMA MovingAgrees ==
    ASSUME Inv, AnswersInv, NEW id, NEW x, NEW e, Moving(id, x, e)
    PROVE  AnswersInv'
<1>1. /\ UNCHANGED <<orders, out, seen, acks, linked>>
      /\ id \in DOMAIN live /\ id \in Ids /\ x.side = live[id].side
      /\ NewsOf(e, id, x, seen[id])
      /\ ~linked => inbox' = inbox
      /\ \A i : Asked(i)' = Asked(i) /\ Refused(i)' = Refused(i)
    BY SameOut DEF Moving, Slipped, Refused, Inv, PathsInv, XTypes
<1>2. /\ e.value.side = x.side /\ e.value.price = x.price
      /\ e.value.status = "WORKING" => e.value.remaining = x.remaining
    BY <1>1 DEF NewsOf
<1>3. /\ \A i \in DOMAIN live : i # id => i \in DOMAIN live'
      /\ \A i \in DOMAIN live' : i # id => i \in DOMAIN live /\ live'[i] = live[i]
      /\ \A i \in DOMAIN live' : i \in DOMAIN live
      /\ id \in DOMAIN live' => live'[id] = x /\ e.value.status = "WORKING"
      /\ id \notin DOMAIN live' => IsFinal(e.value)
    <2>1. CASE Stored(live, live', id, x) /\ e.value.status = "WORKING"
        BY <1>1, <2>1 DEF Stored
    <2>2. CASE Dropped(live, live', id) /\ IsFinal(e.value)
        BY <2>2 DEF Dropped
    <2>3. QED
        BY <2>1, <2>2 DEF Moving
<1> USE DEF AnswersInv
<1>4. OverInv'
    BY <1>1, <1>3 DEF OverInv, IsOver
<1>5. CASE ~linked
    <2>1. inbox = <<>> /\ UNCHANGED inbox
        BY <1>1, <1>5 DEF Inv, PathsInv, LinkInv
    <2>2. \A i : News(i)' = {}
        BY <2>1, NothingFacts
    <2>3. \A i : News(i) = {}
        BY <2>1, <2>2, SameInbox
    <2>4. ~linked' /\ ~Fresh'
        BY <1>1, <1>5 DEF Fresh
    <2>5. LiveInv' /\ ToldInv' /\ BookInv' /\ LastInv' /\ ConfirmedInv' /\ WaitsInv'
        BY <2>2, <2>4 DEF LiveInv, ToldInv, BookInv, LastInv, ConfirmedInv, WaitsInv
    <2>6. SidesInv'
        BY <1>1, <1>3, <2>2 DEF SidesInv
    <2>7. QED
        BY <1>4, <2>5, <2>6
<1>6. CASE linked
    <2>1. PICK m : ToldAt(m, id, e)
        BY <1>6, MovingTold
    <2>2. /\ m \in Nat /\ inbox'[m] = e /\ Begins' = Begins
          /\ \A i : News(i)' = IF i = id THEN News(i) \cup {m} ELSE News(i)
          /\ \A i : \A j \in News(i) : j \in Nat /\ j < m /\ inbox'[j] = inbox[j] /\ j # m
          /\ m \in News(id)'
        BY <2>1 DEF ToldAt
    <2>3. \A i : i # id => HasFinal(i)' = HasFinal(i)
        BY <2>2 DEF HasFinal
    <2>4. id \notin DOMAIN live' => HasFinal(id)'
        BY <1>3, <2>2 DEF HasFinal
    <2>5. LiveInv'
        BY <1>1, <1>3, <2>2 DEF LiveInv
    <2>6. ToldInv'
        BY <1>3, <2>2, <2>3, <2>4 DEF ToldInv
    <2>7. BookInv'
        BY <1>1, <1>3, <2>2, <2>3, <2>4 DEF BookInv, Fresh, CreateAsked, CreateRefused
    <2>8. SidesInv'
        <3>1. \A j \in News(id) : inbox[j].value.side = x.side
            BY <1>1 DEF SidesInv
        <3>2. id \in DOMAIN orders => orders[id].side = x.side
            BY <1>1 DEF SidesInv
        <3>3. \A j \in News(id)' : inbox'[j].value.side = x.side
            BY <1>2, <2>2, <3>1
        <3>4. ASSUME NEW i \in DOMAIN live', NEW j \in News(i)'
              PROVE  inbox'[j].value.side = live'[i].side
            <4>1. CASE i = id
                BY <1>3, <3>4, <3>3, <4>1
            <4>2. CASE i # id
                BY <1>3, <2>2, <3>4, <4>2 DEF SidesInv
            <4>3. QED
                BY <4>1, <4>2
        <3>5. ASSUME NEW i \in Ids, NEW j \in News(i)', NEW k \in News(i)'
              PROVE  inbox'[j].value.side = inbox'[k].value.side
            <4>1. CASE i = id
                BY <3>5, <3>3, <4>1
            <4>2. CASE i # id
                BY <2>2, <3>5, <4>2 DEF SidesInv
            <4>3. QED
                BY <4>1, <4>2
        <3>6. ASSUME NEW i \in DOMAIN orders'
              PROVE  /\ i \in DOMAIN live' => orders'[i].side = live'[i].side
                     /\ \A j \in News(i)' : inbox'[j].value.side = orders'[i].side
            <4>1. CASE i = id
                BY <1>1, <1>3, <3>6, <3>2, <3>3, <4>1
            <4>2. CASE i # id
                BY <1>1, <1>3, <2>2, <3>6, <4>2 DEF SidesInv
            <4>3. QED
                BY <4>1, <4>2
        <3>7. \A i \in DOMAIN orders' : \A k \in Asked(i)' :
                  out'[k].type = "CREATE" => out'[k].side = orders'[i].side
            BY <1>1 DEF SidesInv
        <3>8. QED
            BY <3>4, <3>5, <3>6, <3>7 DEF SidesInv
    <2>9. LastInv'
        <3>1. ASSUME NEW i \in DOMAIN live', NEW j \in News(i)', IsLast(i, j)'
              PROVE  /\ inbox'[j].value.status = "WORKING"
                     /\ inbox'[j].value.price = live'[i].price
                     /\ inbox'[j].value.remaining = live'[i].remaining
            <4>1. CASE i = id
                <5>1. m <= j
                    BY <2>2, <3>1, <4>1 DEF IsLast
                <5>2. j = m
                    BY <2>2, <3>1, <4>1, <5>1
                <5>3. QED
                    BY <1>2, <1>3, <2>2, <4>1, <5>2
            <4>2. CASE i # id
                BY <1>3, <2>2, <3>1, <4>2 DEF LastInv, IsLast
            <4>3. QED
                BY <4>1, <4>2
        <3>2. QED
            BY <3>1 DEF LastInv
    <2>10. ConfirmedInv'
        BY <1>1, <1>3, <2>2 DEF ConfirmedInv, Fresh
    <2>11. WaitsInv'
        BY <1>1, <2>2 DEF WaitsInv, Fresh, IsPending
    <2>12. QED
        BY <1>4, <2>5, <2>6, <2>7, <2>8, <2>9, <2>10, <2>11
<1>7. linked \in BOOLEAN
    BY DEF Inv, PathsInv, XTypes
<1>8. QED
    BY <1>5, <1>6

LEMMA AnnouncingAgrees ==
    ASSUME Inv, AnswersInv, NEW e, Announcing(e)
    PROVE  AnswersInv'
<1>1. /\ UNCHANGED <<orders, out, live, seen, acks, linked>>
      /\ \A i : Asked(i)' = Asked(i) /\ Refused(i)' = Refused(i)
    BY SameOut DEF Announcing, Refused
<1>2. /\ \A i \in DOMAIN inbox : inbox'[i] = inbox[i]
      /\ Begins' = Begins
      /\ \A i : News(i)' = News(i)
    <2>1. e \in Events /\ e.kind = "GatewayStatus"
        BY DEF Announcing, Events, Statuses
    <2>2. Grows(e)
        BY <2>1, GrowsFacts, Numbers DEF Announcing
    <2>3. QED
        BY <2>1, <2>2 DEF Grows
<1>3. \A i : \A j \in News(i) : inbox'[j] = inbox[j]
    BY <1>2 DEF News
<1>4. \A i : HasFinal(i)' = HasFinal(i)
    BY <1>2, <1>3 DEF HasFinal
<1> USE DEF AnswersInv
<1>5. LiveInv' /\ ToldInv'
    BY <1>1, <1>2, <1>4 DEF LiveInv, ToldInv
<1>6. BookInv'
    BY <1>1, <1>2, <1>4 DEF BookInv, Fresh, CreateAsked, CreateRefused
<1>7. SidesInv'
    BY <1>1, <1>2, <1>3 DEF SidesInv
<1>8. LastInv'
    BY <1>1, <1>2, <1>3 DEF LastInv, IsLast
<1>9. ConfirmedInv' /\ WaitsInv' /\ OverInv'
    BY <1>1, <1>2 DEF ConfirmedInv, WaitsInv, OverInv, Fresh, IsPending, IsOver
<1>10. QED
    BY <1>5, <1>6, <1>7, <1>8, <1>9

LEMMA LosingAgrees ==
    ASSUME Inv, AnswersInv, Losing
    PROVE  AnswersInv'
<1>1. /\ ~linked' /\ UNCHANGED <<live, seen>>
      /\ \A i : News(i)' = {} /\ Asked(i)' = {}
    BY NothingFacts DEF Losing
<1>2. /\ DOMAIN orders' \subseteq DOMAIN orders
      /\ \A i \in DOMAIN orders' : orders'[i] = orders[i]
    BY EmptyFacts DEF Losing
<1>3. LiveInv' /\ ToldInv' /\ BookInv' /\ LastInv' /\ ConfirmedInv' /\ WaitsInv'
    BY <1>1 DEF LiveInv, ToldInv, BookInv, LastInv, ConfirmedInv, WaitsInv, Fresh
<1>4. SidesInv' /\ OverInv'
    BY <1>1, <1>2 DEF AnswersInv, SidesInv, OverInv, IsOver
<1>5. QED
    BY <1>3, <1>4 DEF AnswersInv

LEMMA JoiningAgrees ==
    ASSUME Inv, AnswersInv, Joining
    PROVE  AnswersInv'
<1>1. /\ UNCHANGED <<orders, out, live, seen, acks>>
      /\ Begins' = {1} /\ ~Fresh'
      /\ \A id : \A i, j \in News(id)' : i = j
      /\ \A id : \A i \in News(id)' :
            /\ id \in DOMAIN live
            /\ NewsOf(inbox'[i], id, live[id], seen[id])
            /\ inbox'[i].value.status = "WORKING"
      /\ \A id \in DOMAIN live : News(id)' # {}
    BY DEF Joining, Downloads, Fresh
<1>2. \A id : \A i \in News(id)' :
          /\ id \in DOMAIN live
          /\ inbox'[i].value.side = live[id].side
          /\ inbox'[i].value.price = live[id].price
          /\ inbox'[i].value.remaining = live[id].remaining
    BY <1>1 DEF NewsOf
<1>3. \A id : Asked(id)' = {}
    <2>1. out' = <<>>
        BY <1>1 DEF Joining, Inv, PathsInv, LinkInv
    <2>2. QED
        BY <2>1, NothingFacts
<1>4. LiveInv' /\ ToldInv'
    BY <1>1 DEF LiveInv, ToldInv
<1>5. BookInv' /\ ConfirmedInv' /\ WaitsInv'
    BY <1>1 DEF BookInv, ConfirmedInv, WaitsInv
<1>6. SidesInv'
    BY <1>1, <1>2, <1>3 DEF AnswersInv, SidesInv
<1>7. LastInv'
    BY <1>1, <1>2 DEF LastInv
<1>8. OverInv'
    BY <1>1 DEF AnswersInv, OverInv, IsOver
<1>9. QED
    BY <1>4, <1>5, <1>6, <1>7, <1>8 DEF AnswersInv

(* An event has been taken from the head of the inbox.                     *)
LEMMA ShiftedAgrees ==
    ASSUME Inv, AnswersInv, inbox # <<>>, inbox' = Tail(inbox),
           UNCHANGED <<out, live, seen, acks, linked>>
    PROVE  /\ ToldInv' /\ LastInv'
           /\ \A i : \A j \in News(i)' : j + 1 \in News(i) /\ inbox'[j] = inbox[j + 1]
           /\ \A i : News(i)' = {} => News(i) \subseteq {1}
           /\ \A i : HasFinal(i) => HasFinal(i)' \/ (1 \in News(i) /\ IsFinal(inbox[1].value))
           /\ \A i : 1 \in News(i) => Head(inbox).kind = "OrderUpdate"
                                      /\ Head(inbox).value.id = i
           /\ linked /\ Begins' = {}
<1>1. /\ linked /\ Begins' = {}
      /\ 1 \in DOMAIN inbox /\ Head(inbox) = inbox[1]
      /\ \A i : \A j \in News(i)' : j + 1 \in News(i) /\ inbox'[j] = inbox[j + 1]
      /\ \A i : \A j \in News(i) : j # 1 => j - 1 \in News(i)'
    BY ShiftedFacts
<1>2. \A i : \A j \in News(i) : j \in DOMAIN inbox /\ j \in Nat \ {0}
                                /\ inbox[j].kind = "OrderUpdate" /\ inbox[j].value.id = i
    BY Numbers DEF News
<1>3. \A i : \A j \in News(i)' : j \in Nat \ {0}
    BY ShiftedFacts
<1>4. ASSUME NEW i, NEW j \in News(i), j # 1
      PROVE  j - 1 \in News(i)' /\ inbox'[j - 1] = inbox[j]
    <2>1. j - 1 \in News(i)' /\ (j - 1) + 1 = j
        BY <1>1, <1>2, <1>4
    <2>2. inbox'[j - 1] = inbox[(j - 1) + 1]
        BY <1>1, <2>1
    <2>3. QED
        BY <2>1, <2>2
<1>5. \A i : News(i)' = {} => News(i) \subseteq {1}
    BY <1>4
<1>6. \A i : HasFinal(i) => HasFinal(i)' \/ (1 \in News(i) /\ IsFinal(inbox[1].value))
    BY <1>4 DEF HasFinal, IsFinal
<1>7. ToldInv'
    <2>1. ASSUME NEW i \in Ids, NEW j \in News(i)'
          PROVE  i \in DOMAIN live \/ HasFinal(i)'
        <3>1. j + 1 \in News(i) /\ j + 1 # 1 /\ j \in Nat
            BY <1>1, <1>3
        <3>2. i \in DOMAIN live \/ HasFinal(i)
            BY <3>1 DEF AnswersInv, ToldInv
        <3>3. ~(1 \in News(i) /\ IsFinal(inbox[1].value))
            <4>1. 1 \in News(i) /\ IsFinal(inbox[1].value) => j + 1 <= 1
                BY <3>1 DEF Inv, PathsInv, FinalInv
            <4>2. ~(j + 1 <= 1)
                BY <1>3
            <4>3. QED
                BY <4>1, <4>2
        <3>4. QED
            BY <1>6, <3>2, <3>3
    <2>2. QED
        BY <2>1 DEF ToldInv
<1>8. LastInv'
    <2>1. ASSUME NEW i \in DOMAIN live, NEW j \in News(i)', IsLast(i, j)'
          PROVE  /\ inbox'[j].value.status = "WORKING"
                 /\ inbox'[j].value.price = live[i].price
                 /\ inbox'[j].value.remaining = live[i].remaining
        <3>1. j + 1 \in News(i) /\ inbox'[j] = inbox[j + 1] /\ j \in Nat \ {0}
            BY <1>1, <1>3
        <3>2. ASSUME NEW k \in News(i) PROVE k <= j + 1
            <4>1. CASE k = 1
                BY <3>1, <4>1
            <4>2. CASE k # 1
                <5>1. k - 1 <= j /\ k \in Nat
                    BY <1>2, <1>4, <2>1, <4>2 DEF IsLast
                <5>2. QED
                    BY <3>1, <5>1
            <4>3. QED
                BY <4>1, <4>2
        <3>3. IsLast(i, j + 1)
            BY <3>2 DEF IsLast
        <3>4. QED
            BY <3>1, <3>3 DEF AnswersInv, LastInv
    <2>2. QED
        BY <2>1 DEF LastInv
<1>9. \A i : 1 \in News(i) => Head(inbox).kind = "OrderUpdate" /\ Head(inbox).value.id = i
    BY <1>1, <1>2
<1>10. QED
    BY <1>1, <1>5, <1>6, <1>7, <1>8, <1>9

(* An event that concerns no order leaves the orders, or begins a download *)
(* and has them forgotten.                                                 *)
Passes ==
    /\ inbox # <<>> /\ inbox' = Tail(inbox)
    /\ Head(inbox).kind # "OrderUpdate"
    /\ UNCHANGED <<out, live, seen, acks, linked>>
    /\ \/ orders' = orders /\ Begins = {}
       \/ orders' = <<>> /\ Begins # {}

LEMMA PassedAgrees ==
    ASSUME Inv, AnswersInv, Passes
    PROVE  AnswersInv'
<1>1. /\ ToldInv' /\ LastInv'
      /\ \A i : \A j \in News(i)' : j + 1 \in News(i) /\ inbox'[j] = inbox[j + 1]
      /\ \A i : News(i)' = {} => News(i) = {}
      /\ \A i : HasFinal(i) => HasFinal(i)'
      /\ linked /\ Begins' = {}
    BY ShiftedAgrees DEF Passes
<1>2. /\ UNCHANGED <<out, live, seen, acks, linked>>
      /\ \A i : Asked(i)' = Asked(i) /\ Refused(i)' = Refused(i)
    BY SameOut DEF Refused, Passes
<1>3. /\ DOMAIN orders' \subseteq DOMAIN orders
      /\ \A i \in DOMAIN orders' : orders'[i] = orders[i]
      /\ Begins = {} => DOMAIN orders' = DOMAIN orders
      /\ Begins # {} => DOMAIN orders' = {}
    BY EmptyFacts DEF Passes
<1> USE DEF AnswersInv
<1>4. LiveInv'
    BY <1>1, <1>2, <1>3 DEF LiveInv
<1>5. BookInv'
    <2>1. ASSUME NEW i \in DOMAIN orders'
          PROVE  i \in DOMAIN live \/ HasFinal(i)' \/ CreateAsked(i) \/ CreateRefused(i)
        BY <1>1, <1>3, <2>1 DEF BookInv, Fresh
    <2>2. QED
        BY <1>2, <2>1 DEF BookInv, CreateAsked, CreateRefused
<1>6. SidesInv'
    <2>1. /\ \A i \in DOMAIN live : \A j \in News(i)' : inbox'[j].value.side = live[i].side
          /\ \A i \in Ids : \A j, k \in News(i)' :
                inbox'[j].value.side = inbox'[k].value.side
        BY <1>1 DEF SidesInv
    <2>2. ASSUME NEW i \in DOMAIN orders'
          PROVE  /\ i \in DOMAIN live => orders'[i].side = live[i].side
                 /\ \A j \in News(i)' : inbox'[j].value.side = orders'[i].side
                 /\ \A k \in Asked(i) : out[k].type = "CREATE" => out[k].side = orders'[i].side
        BY <1>1, <1>3, <2>2 DEF SidesInv
    <2>3. QED
        BY <1>2, <2>1, <2>2 DEF SidesInv
<1>7. ConfirmedInv'
    BY <1>1, <1>2, <1>3 DEF ConfirmedInv, Fresh
<1>8. WaitsInv'
    BY <1>1, <1>2, <1>3 DEF WaitsInv, Fresh, IsPending
<1>9. OverInv'
    BY <1>2, <1>3 DEF OverInv, IsOver
<1>10. QED
    BY <1>1, <1>4, <1>5, <1>6, <1>7, <1>8, <1>9

LEMMA PassingAgrees ==
    ASSUME Inv, AnswersInv, Passing \/ Beginning \/ \E last : Ending(last)
    PROVE  AnswersInv'
<1>1. /\ inbox # <<>> /\ inbox' = Tail(inbox)
      /\ Head(inbox).kind # "OrderUpdate"
      /\ UNCHANGED <<out, live, seen, acks, linked>>
      /\ \/ orders' = orders /\ Head(inbox).kind # "DownloadBegin"
         \/ orders' = <<>> /\ Head(inbox).kind = "DownloadBegin"
    BY DEF Passing, Beginning, Ending
<1>2. Head(inbox).kind # "DownloadBegin" => Begins = {}
    BY <1>1, ShiftedFacts
<1>3. Head(inbox).kind = "DownloadBegin" => Begins # {}
    BY <1>1, ShiftedFacts DEF Begins
<1>4. QED
    BY <1>1, <1>2, <1>3, PassedAgrees DEF Passes

LEMMA HearingAgrees ==
    ASSUME Inv, KnownInv, AnswersInv, NEW u, Hearing(u)
    PROVE  AnswersInv'
<1> DEFINE id == u.id
<1>1. /\ inbox # <<>> /\ inbox' = Tail(inbox)
      /\ UNCHANGED <<out, live, seen, acks, linked>>
      /\ Head(inbox).kind = "OrderUpdate" /\ u = Head(inbox).value
      /\ \A i : Asked(i)' = Asked(i) /\ Refused(i)' = Refused(i)
    BY SameOut DEF Hearing, Refused
<1>2. /\ ToldInv' /\ LastInv'
      /\ \A i : \A j \in News(i)' : j + 1 \in News(i) /\ inbox'[j] = inbox[j + 1]
      /\ \A i : News(i)' = {} => News(i) \subseteq {1}
      /\ \A i : HasFinal(i) => HasFinal(i)' \/ (1 \in News(i) /\ IsFinal(inbox[1].value))
      /\ \A i : 1 \in News(i) => i = id
      /\ linked /\ Begins' = {}
    BY <1>1, ShiftedAgrees
<1>3. /\ Begins = {} /\ u = inbox[1].value
      /\ 1 \in News(id) /\ id \in Ids
      /\ u.status \in {"WORKING", "COMPLETED", "CANCELED"}
      /\ seen[id] >= 1 /\ seen[id] \in Nat
    <2>1. Begins = {} /\ 1 \in DOMAIN inbox /\ Head(inbox) = inbox[1]
        BY <1>1, ShiftedFacts
    <2>2. /\ u = inbox[1].value /\ 1 \in News(id) /\ id \in Ids
          /\ u.status \in {"WORKING", "COMPLETED", "CANCELED"}
          /\ u \in OrderUpdate /\ 1 <= u.response /\ u.response <= seen[id]
        BY <1>1, <2>1, UpdateFacts
    <2>3. u.response \in Nat /\ seen[id] \in Nat
        BY <2>2, Numbers DEF OrderUpdate
    <2>4. QED
        BY <2>1, <2>2, <2>3
<1>4. \/ /\ u.status = "WORKING" /\ id \notin DOMAIN orders
         /\ Stored(orders, orders', id, Reported(u))
      \/ /\ u.status = "WORKING" /\ id \in DOMAIN orders
         /\ Stored(orders, orders', id, Confirmed(orders[id], u))
      \/ IsFinal(u) /\ u.status # "WORKING" /\ Dropped(orders, orders', id)
    BY <1>2, <1>3 DEF Hearing, KnownInv, IsFinal
<1>5. /\ Reported(u).side = u.side
      /\ Reported(u).confirmed.price = u.price
      /\ Reported(u).confirmed.quantity = u.remaining
      /\ Reported(u).confirmed.status = u.status
      /\ ~IsPending(Reported(u))
    BY DEF Reported, IsPending
<1>6. id \in DOMAIN orders =>
          /\ Confirmed(orders[id], u).side = orders[id].side
          /\ Confirmed(orders[id], u).confirmed.price = u.price
          /\ Confirmed(orders[id], u).confirmed.quantity = u.remaining
          /\ Confirmed(orders[id], u).confirmed.status = u.status
          /\ ~IsPending(Confirmed(orders[id], u))
    <2>1. id \in DOMAIN orders => orders[id] \in Order
        BY Numbers
    <2>2. QED
        BY <2>1 DEF Confirmed, Order, PendingState, IsPending
<1>7. /\ \A i \in DOMAIN orders : i # id => i \in DOMAIN orders'
      /\ \A i \in DOMAIN orders' : i # id => i \in DOMAIN orders /\ orders'[i] = orders[i]
      /\ id \in DOMAIN orders' =>
            /\ u.status = "WORKING"
            /\ orders'[id].confirmed.price = u.price
            /\ orders'[id].confirmed.quantity = u.remaining
            /\ orders'[id].confirmed.status = "WORKING"
            /\ ~IsPending(orders'[id])
            /\ \/ id \in DOMAIN orders /\ orders'[id].side = orders[id].side
               \/ id \notin DOMAIN orders /\ orders'[id].side = u.side
      /\ id \notin DOMAIN orders' => IsFinal(u)
    <2>1. CASE /\ u.status = "WORKING" /\ id \notin DOMAIN orders
               /\ Stored(orders, orders', id, Reported(u))
        BY <1>5, <2>1 DEF Stored
    <2>2. CASE /\ u.status = "WORKING" /\ id \in DOMAIN orders
               /\ Stored(orders, orders', id, Confirmed(orders[id], u))
        BY <1>6, <2>2 DEF Stored
    <2>3. CASE IsFinal(u) /\ u.status # "WORKING" /\ Dropped(orders, orders', id)
        BY <2>3 DEF Dropped
    <2>4. QED
        BY <1>4, <2>1, <2>2, <2>3
<1>8. IsFinal(u) => id \notin DOMAIN live
    BY <1>3 DEF Inv, PathsInv, FinalInv
<1>9. \A k \in Asked(id) : out[k].type # "CREATE"
    <2>1. ASSUME NEW k \in Asked(id) PROVE out[k].type # "CREATE"
        <3>1. k \in DOMAIN out /\ out[k].id = id
            BY DEF Asked
        <3>2. out[k].version > seen[id] /\ (out[k].type = "CREATE" <=> out[k].version = 1)
            BY <3>1 DEF Inv, PathsInv, VersionsInv
        <3>3. QED
            BY <1>3, <3>2
    <2>2. QED
        BY <2>1
<1> HIDE DEF id
<1> USE DEF AnswersInv
<1>10. LiveInv'
    <2>1. ASSUME NEW i \in DOMAIN live, News(i)' = {}
          PROVE  i \in DOMAIN orders'
        <3>1. CASE i = id
            BY <1>7, <1>8, <3>1
        <3>2. CASE i # id
            BY <1>2, <1>7, <2>1, <3>2 DEF LiveInv
        <3>3. QED
            BY <3>1, <3>2
    <2>2. QED
        BY <1>1, <1>2, <2>1 DEF LiveInv
<1>11. BookInv'
    <2>1. ASSUME NEW i \in DOMAIN orders'
          PROVE  i \in DOMAIN live \/ HasFinal(i)' \/ CreateAsked(i) \/ CreateRefused(i)
        <3>1. CASE i = id
            <4>1. ~IsFinal(inbox[1].value)
                BY <1>3, <1>7, <2>1, <3>1 DEF IsFinal
            <4>2. i \in DOMAIN live \/ HasFinal(i)
                BY <1>3, <3>1 DEF ToldInv
            <4>3. QED
                BY <1>2, <4>1, <4>2
        <3>2. CASE i # id
            <4>1. i \in DOMAIN live \/ HasFinal(i) \/ CreateAsked(i) \/ CreateRefused(i)
                BY <1>2, <1>3, <1>7, <2>1, <3>2 DEF BookInv, Fresh
            <4>2. QED
                BY <1>2, <3>2, <4>1
        <3>3. QED
            BY <3>1, <3>2
    <2>2. QED
        BY <1>1, <2>1 DEF BookInv, CreateAsked, CreateRefused
<1>12. SidesInv'
    <2>1. /\ \A i \in DOMAIN live : \A j \in News(i)' : inbox'[j].value.side = live[i].side
          /\ \A i \in Ids : \A j, k \in News(i)' :
                inbox'[j].value.side = inbox'[k].value.side
        BY <1>2 DEF SidesInv
    <2>2. ASSUME NEW i \in DOMAIN orders'
          PROVE  /\ i \in DOMAIN live => orders'[i].side = live[i].side
                 /\ \A j \in News(i)' : inbox'[j].value.side = orders'[i].side
                 /\ \A k \in Asked(i) : out[k].type = "CREATE" => out[k].side = orders'[i].side
        <3>1. CASE i \in DOMAIN orders
            <4>1. orders'[i].side = orders[i].side
                BY <1>7, <2>2, <3>1
            <4>2. QED
                BY <1>2, <3>1, <4>1 DEF SidesInv
        <3>2. CASE i \notin DOMAIN orders
            <4>1. i = id /\ orders'[i].side = inbox[1].value.side
                BY <1>3, <1>7, <2>2, <3>2
            <4>2. i \in DOMAIN live => inbox[1].value.side = live[i].side
                BY <1>3, <4>1 DEF SidesInv
            <4>3. \A j \in News(i) : inbox[j].value.side = inbox[1].value.side
                BY <1>3, <4>1 DEF SidesInv
            <4>4. QED
                BY <1>2, <1>9, <4>1, <4>2, <4>3
        <3>3. QED
            BY <3>1, <3>2
    <2>3. QED
        BY <1>1, <2>1, <2>2 DEF SidesInv
<1>13. ConfirmedInv'
    <2>1. ASSUME NEW i \in DOMAIN live, i \in DOMAIN orders', News(i)' = {}
          PROVE  /\ orders'[i].confirmed.price = live[i].price
                 /\ orders'[i].confirmed.quantity = live[i].remaining
        <3>1. CASE i = id
            <4>1. IsLast(i, 1)
                BY <1>2, <2>1 DEF IsLast
            <4>2. u.price = live[i].price /\ u.remaining = live[i].remaining
                BY <1>3, <3>1, <4>1 DEF LastInv
            <4>3. QED
                BY <1>7, <2>1, <3>1, <4>2
        <3>2. CASE i # id
            <4>1. News(i) = {} /\ i \in DOMAIN orders /\ orders'[i] = orders[i]
                BY <1>2, <1>7, <2>1, <3>2
            <4>2. QED
                BY <1>2, <1>3, <4>1 DEF ConfirmedInv, Fresh
        <3>3. QED
            BY <3>1, <3>2
    <2>2. QED
        BY <1>1, <2>1 DEF ConfirmedInv
<1>14. WaitsInv'
    <2>1. ASSUME NEW i \in DOMAIN orders', IsPending(orders'[i])
          PROVE  Asked(i) # {} \/ News(i)' # {} \/ Refused(i) # {}
        <3>1. i # id /\ i \in DOMAIN orders /\ orders'[i] = orders[i]
            BY <1>7, <2>1
        <3>2. Asked(i) # {} \/ News(i) # {} \/ Refused(i) # {}
            BY <1>2, <1>3, <2>1, <3>1 DEF WaitsInv, Fresh
        <3>3. QED
            BY <1>2, <3>1, <3>2
    <2>2. QED
        BY <1>1, <2>1 DEF WaitsInv, IsPending
<1>15. OverInv'
    <2>1. ASSUME NEW i \in DOMAIN orders', IsOver(orders'[i])
          PROVE  i \notin DOMAIN live /\ seen[i] >= 1
        <3>1. i # id
            BY <1>7, <2>1 DEF IsOver
        <3>2. QED
            BY <1>7, <2>1, <3>1 DEF OverInv
    <2>2. QED
        BY <1>1, <2>1 DEF OverInv, IsOver
<1>16. QED
    BY <1>2, <1>10, <1>11, <1>12, <1>13, <1>14, <1>15

LEMMA AnsweringAgrees ==
    ASSUME Inv, AnswersInv, NEW a, Answering(a)
    PROVE  AnswersInv'
<1> DEFINE id == a.id
<1>1. /\ acks # <<>> /\ acks' = Tail(acks) /\ a = Head(acks)
      /\ UNCHANGED <<out, live, seen, inbox, linked>>
      /\ Begins' = Begins /\ \A i : News(i)' = News(i) /\ Asked(i)' = Asked(i)
    BY SameInbox, SameOut DEF Answering
<1>2. /\ 1 \in DOMAIN acks /\ acks[1] = a
      /\ \A k \in DOMAIN acks : k # 1 => k - 1 \in DOMAIN acks' /\ (k - 1) + 1 = k
      /\ \A k \in DOMAIN acks' : acks'[k] = acks[k + 1]
      /\ \A i : Refused(i)' = {k \in DOMAIN acks' : k + 1 \in Refused(i)}
    <2>1. AcksShrink
        BY <1>1, Numbers, AcksShrinkFacts
    <2>2. QED
        BY <1>1, <2>1 DEF AcksShrink
<1>3. \A i : \A k \in Refused(i) : k \in DOMAIN acks /\ acks[k].id = i
    BY DEF Refused
<1>4. ASSUME NEW i, NEW k \in Refused(i), k # 1
      PROVE  k - 1 \in Refused(i)' /\ acks'[k - 1] = acks[k]
    <2>1. k - 1 \in DOMAIN acks' /\ (k - 1) + 1 = k
        BY <1>2, <1>3, <1>4
    <2>2. acks'[k - 1] = acks[(k - 1) + 1] /\ k - 1 \in Refused(i)'
        BY <1>2, <2>1
    <2>3. QED
        BY <2>1, <2>2
<1>5. /\ \A i : i # id /\ Refused(i) # {} => Refused(i)' # {}
      /\ \A i : i # id /\ CreateRefused(i) => CreateRefused(i)'
      /\ a.type # "CREATE" /\ CreateRefused(id) => CreateRefused(id)'
    <2>1. \A i : i # id => \A k \in Refused(i) : k # 1
        BY <1>2, <1>3
    <2>2. \A k \in Refused(id) : a.type # "CREATE" /\ acks[k].type = "CREATE" => k # 1
        BY <1>2
    <2>3. QED
        BY <1>4, <2>1, <2>2 DEF CreateRefused
<1>6. /\ a.type = "CREATE" => id \notin DOMAIN live
      /\ a.error = "TOO_LATE_TO_MODIFY_OR_CANCEL" => id \notin DOMAIN live
      /\ seen[id] >= 1
    BY <1>2 DEF Inv, PathsInv, ForgottenInv, VersionsInv
<1>7. /\ \A i \in DOMAIN orders : i # id => i \in DOMAIN orders'
      /\ \A i \in DOMAIN orders' : i # id => i \in DOMAIN orders /\ orders'[i] = orders[i]
      /\ id \in DOMAIN orders /\ id \notin DOMAIN orders' => id \notin DOMAIN live
      /\ id \in DOMAIN orders' =>
            /\ id \in DOMAIN orders /\ a.type # "CREATE"
            /\ orders'[id].side = orders[id].side
            /\ ~IsPending(orders'[id])
            /\ orders'[id].confirmed = orders[id].confirmed \/ id \notin DOMAIN live
    <2>1. CASE id \notin DOMAIN orders /\ UNCHANGED orders
        BY <2>1
    <2>2. CASE a.type = "CREATE" /\ Dropped(orders, orders', id)
        BY <1>6, <2>2 DEF Dropped
    <2>3. ASSUME a.type # "CREATE", id \in DOMAIN orders,
                 NEW o, Stored(orders, orders', id, o),
                 o.side = orders[id].side, o.pending.type = NoRequest,
                 \/ o.confirmed = orders[id].confirmed
                 \/ a.error = "TOO_LATE_TO_MODIFY_OR_CANCEL"
          PROVE  /\ DOMAIN orders' = DOMAIN orders
                 /\ \A i \in DOMAIN orders' : i # id => orders'[i] = orders[i]
                 /\ orders'[id].side = orders[id].side
                 /\ ~IsPending(orders'[id])
                 /\ orders'[id].confirmed = orders[id].confirmed \/ id \notin DOMAIN live
        BY <1>6, <2>3 DEF Stored, IsPending
    <2>4. QED
        BY <2>1, <2>2, <2>3 DEF Answering
<1>8. linked
    BY <1>1 DEF Inv, PathsInv, LinkInv
<1> HIDE DEF id
<1> USE DEF AnswersInv
<1>9. LiveInv'
    BY <1>1, <1>7 DEF LiveInv
<1>10. ToldInv' /\ LastInv'
    BY <1>1 DEF ToldInv, LastInv, HasFinal, IsLast
<1>11. BookInv'
    <2>1. ASSUME NEW i \in DOMAIN orders', Begins = {}
          PROVE  i \in DOMAIN live \/ HasFinal(i) \/ CreateAsked(i) \/ CreateRefused(i)'
        BY <1>5, <1>7, <1>8, <2>1 DEF BookInv, Fresh
    <2>2. QED
        BY <1>1, <2>1 DEF BookInv, Fresh, HasFinal, CreateAsked
<1>12. SidesInv'
    <2>1. \A i \in DOMAIN orders' : i \in DOMAIN orders /\ orders'[i].side = orders[i].side
        BY <1>7
    <2>2. QED
        BY <1>1, <2>1 DEF SidesInv
<1>13. ConfirmedInv'
    BY <1>1, <1>7 DEF ConfirmedInv, Fresh
<1>14. WaitsInv'
    <2>1. ASSUME NEW i \in DOMAIN orders', IsPending(orders'[i]), Begins = {}
          PROVE  Asked(i) # {} \/ News(i) # {} \/ Refused(i)' # {}
        BY <1>5, <1>7, <1>8, <2>1 DEF WaitsInv, Fresh
    <2>2. QED
        BY <1>1, <2>1 DEF WaitsInv, IsPending, Fresh
<1>15. OverInv'
    <2>1. ASSUME NEW i \in DOMAIN orders', IsOver(orders'[i])
          PROVE  i \notin DOMAIN live /\ seen[i] >= 1
        <3>1. CASE i = id /\ i \notin DOMAIN live
            BY <1>6, <3>1
        <3>2. CASE i = id /\ i \in DOMAIN live
            BY <1>7, <2>1, <3>2 DEF OverInv, IsOver
        <3>3. CASE i # id
            BY <1>7, <2>1, <3>3 DEF OverInv
        <3>4. QED
            BY <3>1, <3>2, <3>3
    <2>2. QED
        BY <1>1, <2>1 DEF OverInv, IsOver
<1>16. QED
    BY <1>9, <1>10, <1>11, <1>12, <1>13, <1>14, <1>15
-----------------------------------------------------------------------------
(* The book's parameters are known before the connection is made.          *)
LEMMA KnownKeeps ==
    ASSUME Inv, KnownInv, BookAtStart, [XNext]_vars
    PROVE  KnownInv'
<1> USE DEF KnownInv
<1>1. CASE Processes
    <2>1. UNCHANGED known
        BY <1>1 DEF Processes, Process, ProcessReturns, ProcessBegins, CountEnds, AdjustEnds,
                    ProcessEnds, CountOrder, modify_order, cancel_order, Amend,
                    create_order, CreateAsserts, bookVars
    <2>2. QED
        BY <1>1, <2>1 DEF Processes, xVars
<1>2. CASE Answers
    <2>1. TakesRequest
        BY <1>2 DEF Answers, AcceptsCreate, AcceptsModify, AcceptsCancel,
                    Refuses, RefusesLate
    <2>2. QED
        BY <2>1 DEF TakesRequest, bookVars
<1>3. CASE ReceivesInbox
    <2>1. UNCHANGED linked
        BY <1>3 DEF ReceivesInbox, ReceivesUpdate, ReceivesStatus, ReceivesPosition,
                    ReceivesBegin, ReceivesReference, ReceivesEnd, Receives
    <2>2. \A u : OrderUpdated(u) => UNCHANGED known
        BY DEF OrderUpdated, UpdateNotFound, UpdateErases, UpdateAdds, UpdateIgnored,
               order_confirm, order_complete, order_canceled, OrderUpdateFrame, bookVars
    <2>3. UNCHANGED known
        BY <1>3, <2>2
           DEF ReceivesInbox, ReceivesUpdate, ReceivesStatus, ReceivesPosition,
               ReceivesBegin, ReceivesReference, ReceivesEnd, GatewayStatus,
               PositionUpdate, ReferenceData, DownloadBegin, DownloadEnd, bookVars
    <2>4. QED
        BY <2>1, <2>3
<1>4. CASE ReceivesAck
    <2>1. UNCHANGED known
        BY <1>4 DEF ReceivesAck, OrderAcked, AckNotFound, AckContinues, order_create_reject,
                    order_modify_reject, order_cancel_reject, bookVars
    <2>2. QED
        BY <1>4, <2>1 DEF ReceivesAck
<1>5. ASSUME NEW id, NEW q, Fills(id, q) \/ Cancels(id, q) PROVE KnownInv'
    BY <1>5 DEF Fills, Cancels, XIdle, omsVars, bookVars
<1>6. ASSUME NEW mask, Announces(mask) PROVE KnownInv'
    BY <1>6 DEF Announces, XIdle, omsVars, bookVars
<1>7. CASE Drops \/ Crashes
    BY <1>7 DEF Drops, Crashes, LosesLink
<1>8. ASSUME NEW d, ReceivesTrigger(d) PROVE KnownInv'
    BY <1>8 DEF ReceivesTrigger, RateLimitTrigger, bookVars
<1>9. ASSUME NEW t, ReceivesTargets(t) PROVE KnownInv'
    <2>1. UNCHANGED linked
        BY <1>9 DEF ReceivesTargets, xVars
    <2>2. CASE TargetQuotes(t)
        <3>1. known' = TRUE
            BY <2>2 DEF TargetQuotes
        <3>2. QED
            BY <3>1, Zenon DEF KnownInv
    <2>3. CASE TargetsDropped
        <3>1. UNCHANGED known
            BY <2>3 DEF TargetsDropped, bookVars
        <3>2. QED
            BY <2>1, <3>1, Zenon DEF KnownInv
    <2>4. QED
        BY <1>9, <2>2, <2>3 DEF ReceivesTargets
<1>10. ASSUME NEW p, ReceivesParameters(p) PROVE KnownInv'
    BY <1>10 DEF ReceivesParameters, ParametersUpdate
<1>11. CASE Connecting
    BY <1>11 DEF Connecting, Connects, XIdle, omsVars, bookVars
<1>12. ASSUME NEW due, Ticks(due) PROVE KnownInv'
    BY <1>12 DEF Ticks, Timer, bookVars, xVars
<1>13. CASE UNCHANGED vars
    BY <1>13 DEF vars, omsVars, bookVars, xVars
<1>14. QED
    BY <1>1, <1>2, <1>3, <1>4, <1>5, <1>6, <1>7, <1>8, <1>9, <1>10, <1>11, <1>12, <1>13
       DEF XNext, Happens

LEMMA AgreementInit == XInit => AgreementInv
<1> SUFFICES ASSUME XInit PROVE AgreementInv
    OBVIOUS
<1>1. DOMAIN orders = {} /\ DOMAIN live = {} /\ ~linked
    BY EmptyFacts DEF XInit, Init
<1>2. \A id : News(id) = {}
    BY EmptyFacts DEF XInit, News
<1>3. AnswersInv
    BY <1>1, <1>2 DEF AnswersInv, LiveInv, ToldInv, BookInv, SidesInv, LastInv,
                      ConfirmedInv, WaitsInv, OverInv, Fresh
<1>4. QED
    BY <1>1, <1>3, InvInit DEF AgreementInv, KnownInv, BelievedOrders

LEMMA AgreementStep ==
    ASSUME AgreementInv, ~EraseOnNotReady, BookAtStart, [XNext]_vars
    PROVE  AgreementInv'
<1> USE DEF AgreementInv
<1>1. Inv'
    BY InvStep
<1>2. KnownInv'
    BY KnownKeeps
<1>3. BelievedOrders'
    BY ManagerSteps, BelievedStep DEF Inv, ManagerInv
<1>4. AnswersInv'
    BY Shapes, StillAgrees, AmendingAgrees, CreatingAgrees, AcceptingAgrees,
       RefusingAgrees, MovingAgrees, AnnouncingAgrees, LosingAgrees, JoiningAgrees,
       PassingAgrees, HearingAgrees, AnsweringAgrees DEF Happened
<1>5. QED
    BY <1>1, <1>2, <1>3, <1>4

LEMMA AlwaysAgree ==
    ASSUME ~EraseOnNotReady, BookAtStart
    PROVE  XSpec => []AgreementInv
<1>1. AgreementInv /\ [XNext]_vars => AgreementInv'
    BY AgreementStep
<1>2. QED
    BY <1>1, AgreementInit, PTL DEF XSpec

(* Once every message has been handled, the book holds exactly the orders  *)
(* that work at the exchange, expects of each what really rests there, and *)
(* waits for nothing: whatever was filled, refused, lost or raced before.  *)
(* (manager.cpp OrderUpdate, OrderAck, DownloadBegin)                      *)
THEOREM BookAgrees ==
    ASSUME ~EraseOnNotReady, BookAtStart
    PROVE  XSpec => []QuietAgreement
<1>1. ASSUME AgreementInv, Quiet
      PROVE  /\ DOMAIN orders = DOMAIN live
             /\ \A id \in DOMAIN live :
                   /\ ~IsPending(orders[id])
                   /\ orders[id].expected = [price |-> live[id].price,
                                             quantity |-> live[id].remaining]
                   /\ orders[id].side = live[id].side
    <2> USE DEF AgreementInv, AnswersInv
    <2>1. /\ linked /\ DOMAIN out = {} /\ DOMAIN inbox = {} /\ DOMAIN acks = {}
        BY <1>1, EmptyFacts DEF Quiet
    <2>2. /\ Fresh
          /\ \A id : News(id) = {} /\ Asked(id) = {} /\ Refused(id) = {}
        BY <2>1 DEF Fresh, Begins, News, Asked, Refused
    <2>3. DOMAIN orders = DOMAIN live
        BY <1>1, <2>1, <2>2 DEF LiveInv, BookInv, HasFinal, CreateAsked, CreateRefused
    <2>4. ASSUME NEW id \in DOMAIN live
          PROVE  /\ ~IsPending(orders[id])
                 /\ orders[id].side = live[id].side
                 /\ orders[id].expected = State(orders[id].confirmed)
                 /\ orders[id].confirmed.price = live[id].price
                 /\ orders[id].confirmed.quantity = live[id].remaining
        <3>1. ~IsPending(orders[id]) /\ ~IsOver(orders[id])
            BY <1>1, <2>2, <2>3 DEF WaitsInv, OverInv
        <3>2. orders[id].expected = State(orders[id].confirmed)
            BY <1>1, <2>3, <3>1 DEF BelievedOrders, Believed
        <3>3. QED
            BY <1>1, <2>2, <2>3, <3>1, <3>2 DEF SidesInv, ConfirmedInv
    <2>5. QED
        BY <2>3, <2>4 DEF State
<1>2. AgreementInv => QuietAgreement
    BY <1>1 DEF QuietAgreement
<1>3. QED
    BY <1>2, AlwaysAgree, PTL
-----------------------------------------------------------------------------
(* What the manager has counted and what it is still to be told of, added  *)
(* up over the orders, is what the account holds.                          *)

Posns == {i \in DOMAIN inbox : inbox[i].kind = "PositionUpdate"}
IsFirst(id, i) == \A j \in News(id) : i <= j

(* The lots of an order that the book takes for traded, when it hears of   *)
(* the order next: what it knows, or what it is told first.                *)
Known(id) == Fresh /\ id \in DOMAIN orders
Base(id, i) == IF Known(id) THEN orders[id].traded ELSE inbox[i].value.traded

(* The lots, with their sign, that the news of an order will add to the    *)
(* position.                                                               *)
Due(id, d) ==
    /\ News(id) = {} => d = 0
    /\ \A i, j \in News(id) :
          IsFirst(id, i) /\ IsLast(id, j) =>
             d = Signed(inbox[j].value.side, inbox[j].value.traded - Base(id, i))

(* The sum of f over the ids, by way of its partial sums.                  *)
IsSum(f, total) ==
    \E sum \in [0..MaxOrderId -> Int] :
       /\ sum[0] = 0
       /\ \A id \in Ids : sum[id] = sum[id - 1] + f[id]
       /\ sum[MaxOrderId] = total

(* What the manager starts counting from: until the download has ended, the *)
(* position it is or was told of.                                          *)
Start(x) ==
    IF Ends = {} THEN x = position_by_orders
    ELSE /\ \A p \in Posns : inbox[p].value = x
         /\ Posns = {} => x = position_by_account

Promise == \E x \in Int, f \in [Ids -> Int] :
              /\ Start(x)
              /\ \A id \in Ids : Due(id, f[id])
              /\ IsSum(f, position - x)
-----------------------------------------------------------------------------
(* The inductive invariant, in parts, beyond that of the agreement.        *)

PositionInv == linked => Promise

(* A download tells of the position before it ends, and of every order     *)
(* once, which the book does not have.                                     *)
OnceInv ==
    /\ Begins # {} => Posns # {}
    /\ \A e \in Ends :
          /\ \A p \in Posns : p < e
          /\ \A id \in Ids : \A i \in News(id) :
                i < e => ~Known(id) /\ \A j \in News(id) : j < e => j = i

(* What is told of the lots traded of an order only grows, up to what has  *)
(* been traded.                                                            *)
TradedInv ==
    /\ \A id \in Ids : \A i, j \in News(id) :
          i <= j => inbox[i].value.traded <= inbox[j].value.traded
    /\ \A id \in Ids : \A i \in News(id) :
          Known(id) => orders[id].traded <= inbox[i].value.traded
    /\ \A id \in DOMAIN live : \A i \in News(id) :
          IsLast(id, i) => inbox[i].value.traded = live[id].traded
    /\ \A id \in DOMAIN live :
          Known(id) /\ News(id) = {} => orders[id].traded = live[id].traded
    /\ \A id \in DOMAIN orders : CreateAsked(id) => orders[id].traded = 0

(* A cancellation tells of no fill that was not told before.               *)
CanceledInv ==
    \A id \in Ids : \A j \in News(id) :
        inbox[j].value.status = "CANCELED" =>
           \/ \E i \in News(id) : i < j /\ inbox[i].value.traded = inbox[j].value.traded
           \/ Known(id) /\ orders[id].traded = inbox[j].value.traded

CountsInv == OnceInv /\ TradedInv /\ CanceledInv

HoldsInv == AgreementInv /\ CountsInv /\ PositionInv
-----------------------------------------------------------------------------
(* The steps, by what they do to the positions as well.                    *)

(* What is heard of an order of the book is counted, unless it is that the *)
(* order is cancelled.                                                     *)
Fill(u) ==
    IF u.id \in DOMAIN orders /\ u.status # "CANCELED"
          /\ u.traded > orders[u.id].traded
    THEN u.traded - orders[u.id].traded ELSE 0

Counts(u) ==
    /\ Hearing(u)
    /\ position_by_account' = position_by_account
    /\ position_by_orders' = position_by_orders + Signed(u.side, Fill(u))

Positions ==
    /\ Passing
    /\ position_by_orders' = position_by_orders
    /\ position_by_account' = IF Head(inbox).kind = "PositionUpdate"
                              THEN Head(inbox).value ELSE position_by_account

Concludes(last) == Ending(last) /\ position_by_orders' = position_by_account

CountsNothing ==
    /\ UNCHANGED posVars
    /\ \/ Still
       \/ \E id, o, r : Amending(id, o, r) \/ Creating(id, o, r)
       \/ \E r, x, e : Accepting(r, x, e)
       \/ \E r, a : Refusing(r, a)
       \/ \E id, x, e : Moving(id, x, e)
       \/ \E e : Announcing(e)
       \/ Joining
       \/ \E a : Answering(a)

Accounted ==
    \/ CountsNothing \/ Losing \/ Beginning \/ Positions
    \/ \E u : Counts(u)
    \/ \E last : Concludes(last)

LEMMA SignedFacts ==
    ASSUME NEW side, NEW q \in Int
    PROVE  Signed(side, q) \in Int /\ (q = 0 => Signed(side, q) = 0)
<1>1. CASE side = "BUY"
    BY <1>1 DEF Signed
<1>2. CASE side # "BUY"
    BY <1>2 DEF Signed
<1>3. QED
    BY <1>1, <1>2

LEMMA SignedAdds ==
    ASSUME NEW side, NEW q \in Int, NEW r \in Int
    PROVE  Signed(side, q + r) = Signed(side, q) + Signed(side, r)
<1>1. CASE side = "BUY"
    BY <1>1 DEF Signed
<1>2. CASE side # "BUY"
    BY <1>2 DEF Signed
<1>3. QED
    BY <1>1, <1>2

LEMMA CountsShape ==
    ASSUME Inv, known, ReceivesUpdate
    PROVE  Counts(Head(inbox).value)
<1> DEFINE u == Head(inbox).value
<1>1. Hearing(u)
    BY HearingShape
<1>2. OrderUpdated(u)
    BY DEF ReceivesUpdate
<1>3. /\ u \in OrderUpdate /\ ~u.stale /\ u.status \in {"WORKING", "COMPLETED", "CANCELED"}
      /\ position_by_orders \in Int
      /\ orders \in [DOMAIN orders -> Order]
    <2>1. inbox # <<>> /\ Head(inbox).kind = "OrderUpdate"
        BY <1>1 DEF Hearing
    <2>2. u \in OrderUpdate /\ ~u.stale /\ u.status \in {"WORKING", "COMPLETED", "CANCELED"}
        BY <2>1, HeadFacts, UpdateFacts
    <2>3. QED
        BY <2>2 DEF Inv, ManagerInv, TypeInv, TypeOK
<1> SUFFICES Counts(u)
    OBVIOUS
<1> HIDE DEF u
<1>4. position_by_account' = position_by_account
    BY <1>2 DEF OrderUpdated, UpdateNotFound, UpdateErases, UpdateAdds, UpdateIgnored,
                order_confirm, order_complete, order_canceled, OrderUpdateFrame, posVars
<1>5. Signed(u.side, 0) = 0
    BY SignedFacts
<1>6. CASE u.id \notin DOMAIN orders
    <2>1. position_by_orders' = position_by_orders
        BY <1>2, <1>6 DEF OrderUpdated, UpdateNotFound, UpdateErases, UpdateAdds, IsNew,
               UpdateIgnored, order_confirm, order_complete, order_canceled, posVars
    <2>2. Fill(u) = 0
        BY <1>6 DEF Fill
    <2>3. QED
        BY <1>1, <1>3, <1>4, <1>5, <2>1, <2>2 DEF Counts
<1>7. CASE u.status = "CANCELED"
    <2>1. position_by_orders' = position_by_orders
        BY <1>2, <1>7 DEF OrderUpdated, UpdateNotFound, UpdateErases, UpdateAdds, IsNew,
               UpdateIgnored, order_confirm, order_complete, order_canceled, posVars
    <2>2. Fill(u) = 0
        BY <1>7 DEF Fill
    <2>3. QED
        BY <1>1, <1>3, <1>4, <1>5, <2>1, <2>2 DEF Counts
<1>8. CASE u.id \in DOMAIN orders /\ u.status # "CANCELED"
    <2> DEFINE fill == u.traded - orders[u.id].traded
    <2>1. order_fills(u.side, fill)
        BY <1>2, <1>3, <1>8 DEF OrderUpdated, UpdateNotFound, UpdateErases, UpdateAdds, IsNew,
               UpdateIgnored, order_confirm, order_complete, order_canceled, posVars
    <2>2. u.traded \in Nat /\ orders[u.id].traded \in Nat
        BY <1>3, <1>8 DEF OrderUpdate, Order
    <2>3. position_by_orders' = position_by_orders + Signed(u.side, IF fill > 0 THEN fill ELSE 0)
        BY <1>3, <1>5, <2>1 DEF order_fills
    <2>4. Fill(u) = IF fill > 0 THEN fill ELSE 0
        BY <1>8, <2>2 DEF Fill
    <2>5. QED
        BY <1>1, <1>4, <2>3, <2>4 DEF Counts
<1>9. QED
    BY <1>3, <1>6, <1>7, <1>8

LEMMA PositionShapes ==
    ASSUME Inv, KnownInv, ~EraseOnNotReady, [XNext]_vars
    PROVE  Accounted
<1>1. CASE Processes
    <2>1. UNCHANGED posVars
        BY <1>1 DEF Processes, Process, ProcessReturns, ProcessBegins, CountEnds, AdjustEnds,
                    ProcessEnds, CountOrder, modify_order, cancel_order, Amend,
                    create_order, CreateAsserts
    <2>2. QED
        BY <1>1, <2>1, ProcessShape DEF Inv, CountsNothing, Accounted
<1>2. CASE Answers
    <2>1. TakesRequest
        BY <1>2 DEF Answers, AcceptsCreate, AcceptsModify, AcceptsCancel, Refuses, RefusesLate
    <2>2. UNCHANGED posVars
        BY <2>1 DEF TakesRequest
    <2>3. QED
        BY <1>2, <2>2, AnswersShape DEF CountsNothing, Accounted
<1>3. CASE ReceivesInbox
    <2>1. known
        <3>1. inbox # <<>>
            BY <1>3 DEF ReceivesInbox, ReceivesUpdate, ReceivesStatus, ReceivesPosition,
                        ReceivesBegin, ReceivesReference, ReceivesEnd, Receives
        <3>2. QED
            BY <3>1 DEF Inv, PathsInv, LinkInv, KnownInv
    <2>2. CASE ReceivesUpdate
        BY <2>1, <2>2, CountsShape DEF Accounted
    <2>3. CASE ReceivesBegin
        BY <2>3, BeginningShape DEF Accounted
    <2>4. CASE ReceivesEnd
        BY <2>4, EndingShape DEF ReceivesEnd, DownloadEnd, Concludes, Accounted
    <2>5. CASE ReceivesStatus \/ ReceivesReference
        <3>1. Head(inbox).kind # "PositionUpdate" /\ UNCHANGED posVars
            BY <2>5 DEF ReceivesStatus, ReceivesReference, Receives, GatewayStatus, ReferenceData
        <3>2. QED
            BY <2>5, <3>1, PassingShape DEF Positions, Accounted, posVars
    <2>6. CASE ReceivesPosition
        <3>1. /\ Head(inbox).kind = "PositionUpdate"
              /\ position_by_orders' = position_by_orders
              /\ position_by_account' = Head(inbox).value
            BY <2>1, <2>6 DEF ReceivesPosition, Receives, PositionUpdate
        <3>2. QED
            BY <2>6, <3>1, PassingShape DEF Positions, Accounted
    <2>7. QED
        BY <1>3, <2>2, <2>3, <2>4, <2>5, <2>6 DEF ReceivesInbox
<1>4. CASE ReceivesAck
    <2>1. UNCHANGED posVars
        BY <1>4 DEF ReceivesAck, OrderAcked, AckNotFound, order_create_reject,
                    order_modify_reject, order_cancel_reject, AckContinues
    <2>2. QED
        BY <1>4, <2>1, AnsweringShape DEF CountsNothing, Accounted
<1>5. ASSUME NEW id \in DOMAIN live, NEW q \in 0..live[id].remaining,
             Fills(id, q) \/ Cancels(id, q)
      PROVE  Accounted
    <2>1. UNCHANGED posVars
        BY <1>5 DEF Fills, Cancels, XIdle, omsVars
    <2>2. QED
        BY <1>5, <2>1, MovingShape DEF CountsNothing, Accounted
<1>6. CASE Drops \/ Crashes
    BY <1>6, LosingShape DEF Accounted
<1>7. ASSUME \/ \E due \in BOOLEAN : Ticks(due)
             \/ \E d \in 1..MaxBan : ReceivesTrigger(d)
             \/ \E t \in Targets : ReceivesTargets(t)
             \/ \E p \in ParamSets : ReceivesParameters(p)
             \/ UNCHANGED vars
      PROVE  Accounted
    <2>1. UNCHANGED posVars
        BY <1>7 DEF Ticks, Timer, ReceivesTrigger, RateLimitTrigger, ReceivesTargets,
                    TargetQuotes, TargetsDropped, ReceivesParameters, ParametersUpdate,
                    vars, omsVars
    <2>2. QED
        BY <1>7, <2>1, StillShape DEF CountsNothing, Accounted
<1>8. ASSUME NEW mask \in Masks, Announces(mask) PROVE Accounted
    <2>1. UNCHANGED posVars
        BY <1>8 DEF Announces, XIdle, omsVars
    <2>2. QED
        BY <1>8, <2>1, AnnouncingShape DEF CountsNothing, Accounted
<1>9. CASE Connecting
    <2>1. UNCHANGED posVars
        BY <1>9 DEF Connecting, Connects, XIdle, omsVars
    <2>2. QED
        BY <1>9, <2>1, JoiningShape DEF Connecting, CountsNothing, Accounted
<1>10. CASE Happens
    <2>1. \A id \in DOMAIN live : 1..live[id].remaining \subseteq 0..live[id].remaining
        OBVIOUS
    <2>2. QED
        BY <1>5, <1>6, <1>7, <1>8, <1>10, <2>1 DEF Happens
<1>11. QED
    BY <1>1, <1>2, <1>3, <1>4, <1>7, <1>9, <1>10 DEF XNext
-----------------------------------------------------------------------------
(* Sums over the ids.                                                      *)

LEMMA SumOfNothing == IsSum([id \in Ids |-> 0], 0)
<1> DEFINE sum == [n \in 0..MaxOrderId |-> 0]
<1>1. MaxOrderId \in Nat
    BY ConstantsAssumption
<1>2. sum \in [0..MaxOrderId -> Int] /\ sum[0] = 0 /\ sum[MaxOrderId] = 0
    BY <1>1
<1>3. \A id \in Ids : sum[id] = sum[id - 1] + [i \in Ids |-> 0][id]
    BY <1>1 DEF Ids
<1> HIDE DEF sum
<1>4. QED
    BY <1>2, <1>3 DEF IsSum

LEMMA SumOfZeros ==
    ASSUME NEW f \in [Ids -> Int], NEW total, IsSum(f, total),
           \A id \in Ids : f[id] = 0
    PROVE  total = 0
<1>1. MaxOrderId \in Nat
    BY ConstantsAssumption
<1>2. PICK sum \in [0..MaxOrderId -> Int] :
          /\ sum[0] = 0
          /\ \A id \in Ids : sum[id] = sum[id - 1] + f[id]
          /\ sum[MaxOrderId] = total
    BY DEF IsSum
<1> DEFINE T == {n \in 0..MaxOrderId : sum[n] # 0}
<1>3. /\ T \in SUBSET Nat
      /\ \A n \in T : n \in 1..MaxOrderId /\ sum[n] # 0
      /\ \A n \in 0..MaxOrderId : n \notin T => sum[n] = 0
    BY <1>1, <1>2
<1> HIDE DEF T
<1>4. ASSUME T # {} PROVE FALSE
    <2>1. PICK n \in T : \A m \in T : n <= m
        BY <1>3, <1>4, Least
    <2>2. n \in 1..MaxOrderId /\ n - 1 \in 0..MaxOrderId /\ ~(n <= n - 1)
        BY <1>1, <1>3, <2>1
    <2>3. n - 1 \notin T
        BY <2>1, <2>2
    <2>4. sum[n - 1] = 0 /\ n \in Ids
        BY <1>3, <2>2, <2>3 DEF Ids
    <2>5. sum[n] = 0
        BY <1>2, <2>4
    <2>6. QED
        BY <1>3, <2>1, <2>5
<1>5. MaxOrderId \notin T
    BY <1>4
<1>6. QED
    BY <1>1, <1>2, <1>3, <1>5

(* When one of the numbers changes, the sum changes by as much.            *)
LEMMA SumChanges ==
    ASSUME NEW f \in [Ids -> Int], NEW total \in Int, IsSum(f, total),
           NEW id \in Ids, NEW d \in Int
    PROVE  IsSum([f EXCEPT ![id] = f[id] + d], total + d)
<1> DEFINE g == [f EXCEPT ![id] = f[id] + d]
<1>1. MaxOrderId \in Nat /\ id \in 1..MaxOrderId
    BY ConstantsAssumption DEF Ids
<1>2. PICK sum \in [0..MaxOrderId -> Int] :
          /\ sum[0] = 0
          /\ \A i \in Ids : sum[i] = sum[i - 1] + f[i]
          /\ sum[MaxOrderId] = total
    BY DEF IsSum
<1> DEFINE more == [n \in 0..MaxOrderId |-> IF n >= id THEN sum[n] + d ELSE sum[n]]
<1>3. /\ more \in [0..MaxOrderId -> Int]
      /\ more[0] = 0
      /\ more[MaxOrderId] = total + d
    BY <1>1, <1>2
<1>4. ASSUME NEW i \in Ids PROVE more[i] = more[i - 1] + g[i]
    <2>1. i \in 1..MaxOrderId /\ i - 1 \in 0..MaxOrderId /\ i \in 0..MaxOrderId
        BY <1>1, <1>4 DEF Ids
    <2>2. sum[i] = sum[i - 1] + f[i] /\ f[i] \in Int /\ sum[i] \in Int /\ sum[i - 1] \in Int
        BY <1>2, <1>4, <2>1
    <2>3. g[i] = IF i = id THEN f[i] + d ELSE f[i]
        BY <1>4
    <2>4. /\ more[i] = IF i >= id THEN sum[i] + d ELSE sum[i]
          /\ more[i - 1] = IF i - 1 >= id THEN sum[i - 1] + d ELSE sum[i - 1]
        BY <2>1
    <2> HIDE DEF g, more
    <2>5. QED
        BY <1>1, <2>1, <2>2, <2>3, <2>4
<1> HIDE DEF more, g
<1>5. IsSum(g, total + d)
    BY <1>3, <1>4 DEF IsSum
<1>6. QED
    BY <1>5 DEF g

(* The news of an order has a first one and a last one.                    *)
LEMMA NewsEnds ==
    ASSUME Inv, NEW id, News(id) # {}
    PROVE  (\E i \in News(id) : IsFirst(id, i)) /\ (\E i \in News(id) : IsLast(id, i))
<1>1. /\ inbox \in Seq(Events) /\ Len(inbox) \in Nat /\ DOMAIN inbox = 1..Len(inbox)
    BY DEF Inv, PathsInv, XTypes
<1>2. News(id) \subseteq 1..Len(inbox)
    BY <1>1 DEF News
<1>3. \E i \in News(id) : IsFirst(id, i)
    BY <1>2, Least DEF IsFirst
<1> DEFINE T == {n \in Nat : \A i \in News(id) : i <= n}
<1>4. Len(inbox) \in T
    BY <1>1, <1>2
<1>5. PICK n \in T : \A m \in T : n <= m
    BY <1>4, Least
<1>6. n \in News(id)
    <2>1. PICK i \in News(id) : TRUE
        OBVIOUS
    <2>2. n \in Nat \ {0} /\ n - 1 \in Nat
        BY <1>2, <1>5, <2>1
    <2>3. n - 1 \notin T
        <3>1. ~(n <= n - 1)
            BY <2>2
        <3>2. QED
            BY <1>5, <3>1
    <2>4. PICK j \in News(id) : ~(j <= n - 1)
        BY <2>2, <2>3
    <2>5. j = n
        BY <1>2, <1>5, <2>2, <2>4
    <2>6. QED
        BY <2>4, <2>5
<1>7. IsLast(id, n)
    BY <1>5 DEF IsLast
<1>8. QED
    BY <1>3, <1>6, <1>7
-----------------------------------------------------------------------------
(* Each of the steps keeps what has been counted and what is to be.        *)

LEMMA LotsFacts ==
    ASSUME Inv
    PROVE  /\ position \in Int /\ position_by_orders \in Int /\ position_by_account \in Int
           /\ \A id \in Ids : \A i \in News(id) :
                 i \in DOMAIN inbox /\ i \in Nat \ {0} /\ inbox[i].value.traded \in Nat
           /\ \A id \in DOMAIN orders : id \in Ids /\ orders[id].traded \in Nat
           /\ \A id \in DOMAIN live : id \in Ids /\ live[id].traded \in Nat
           /\ \A i \in Posns :
                 i \in DOMAIN inbox /\ i \in Nat \ {0} /\ inbox[i].value \in Int
           /\ \A i \in Ends : i \in DOMAIN inbox /\ i \in Nat \ {0}
<1>1. position \in Int /\ position_by_orders \in Int /\ position_by_account \in Int
    BY DEF Inv, ManagerInv, TypeInv, TypeOK, PathsInv, XTypes
<1>2. \A id \in Ids : \A i \in News(id) :
          i \in DOMAIN inbox /\ i \in Nat \ {0} /\ inbox[i].value.traded \in Nat
    BY Numbers DEF OrderUpdate
<1>3. \A id \in DOMAIN orders : id \in Ids /\ orders[id].traded \in Nat
    BY Numbers DEF Order, Inv, PathsInv, IdsInv
<1>4. \A id \in DOMAIN live : id \in Ids /\ live[id].traded \in Nat
    BY DEF Inv, PathsInv, XTypes, LiveOrder
<1>5. \A i \in Posns :
          i \in DOMAIN inbox /\ i \in Nat \ {0} /\ inbox[i].value \in Int
    BY Numbers, EventFacts DEF Posns
<1>6. \A i \in Ends : i \in DOMAIN inbox /\ i \in Nat \ {0}
    BY Numbers DEF Ends
<1>7. QED
    BY <1>1, <1>2, <1>3, <1>4, <1>5, <1>6

LEMMA PromiseKeeps ==
    ASSUME Promise, UNCHANGED position,
           \A x \in Int : Start(x) => Start(x)',
           \A id \in Ids, d \in Int : Due(id, d) => Due(id, d)'
    PROVE  Promise'
<1>1. PICK x \in Int, f \in [Ids -> Int] :
          Start(x) /\ (\A id \in Ids : Due(id, f[id])) /\ IsSum(f, position - x)
    BY DEF Promise
<1>2. Start(x)' /\ (\A id \in Ids : Due(id, f[id])') /\ IsSum(f, position' - x)
    BY <1>1
<1>3. QED
    BY <1>2 DEF Promise

(* What the news of an order adds comes from the exchange, or goes to what *)
(* the manager has counted.                                                *)
LEMMA PromiseMoves ==
    ASSUME Inv, Promise, NEW id \in Ids, NEW c \in Int, NEW d \in Int,
           position' = position + (c + d),
           \A x \in Int : Start(x) => Start(x + c)',
           \A i \in Ids \ {id}, e \in Int : Due(i, e) => Due(i, e)',
           \A e \in Int : Due(id, e) => Due(id, e + d)'
    PROVE  Promise'
<1>1. PICK x \in Int, f \in [Ids -> Int] :
          Start(x) /\ (\A i \in Ids : Due(i, f[i])) /\ IsSum(f, position - x)
    BY DEF Promise
<1> DEFINE g == [f EXCEPT ![id] = f[id] + d]
<1>2. x + c \in Int /\ Start(x + c)'
    BY <1>1
<1>3. g \in [Ids -> Int] /\ \A i \in Ids : g[i] = IF i = id THEN f[id] + d ELSE f[i]
    OBVIOUS
<1>4. IsSum(g, (position - x) + d)
    <2>1. position - x \in Int
        BY LotsFacts
    <2>2. QED
        BY <1>1, <2>1, SumChanges
<1>5. (position - x) + d = position' - (x + c)
    BY LotsFacts
<1> HIDE DEF g
<1>6. ASSUME NEW i \in Ids PROVE Due(i, g[i])'
    <2>1. CASE i = id
        <3>1. Due(id, f[id] + d)'
            BY <1>1
        <3>2. g[i] = f[id] + d
            BY <1>3, <2>1
        <3>3. QED
            BY <2>1, <3>1, <3>2
    <2>2. CASE i # id
        <3>1. Due(i, f[i])' /\ g[i] = f[i]
            BY <1>1, <1>3, <1>6, <2>2
        <3>2. QED
            BY <3>1
    <2>3. QED
        BY <2>1, <2>2
<1>7. IsSum(g, position' - (x + c))
    BY <1>4, <1>5
<1>8. QED
    BY <1>2, <1>3, <1>6, <1>7 DEF Promise

(* Nothing is told or received, and the book changes nothing of what there *)
(* is news of.                                                             *)
Quietly ==
    /\ UNCHANGED <<inbox, linked, live, position, posVars>>
    /\ \A id \in Ids : News(id) # {} \/ id \in DOMAIN live =>
          /\ id \in DOMAIN orders' <=> id \in DOMAIN orders
          /\ id \in DOMAIN orders => orders'[id].traded = orders[id].traded
    /\ \A id \in DOMAIN orders' : CreateAsked(id)' => orders'[id].traded = 0

LEMMA QuietCounts ==
    ASSUME Inv, CountsInv, Quietly
    PROVE  CountsInv' /\ (Promise => Promise')
<1>1. /\ Begins' = Begins /\ Ends' = Ends /\ \A id : News(id)' = News(id)
      /\ Posns' = Posns
      /\ UNCHANGED <<inbox, linked, live, position, position_by_orders, position_by_account>>
    BY SameInbox DEF Quietly, Posns, posVars
<1>2. /\ \A id \in Ids : News(id) # {} \/ id \in DOMAIN live =>
             /\ Known(id)' <=> Known(id)
             /\ Known(id) => orders'[id].traded = orders[id].traded
      /\ \A id \in DOMAIN orders' : CreateAsked(id)' => orders'[id].traded = 0
    BY <1>1 DEF Quietly, Known, Fresh
<1>3. \A id \in DOMAIN live : id \in Ids
    BY LotsFacts
<1> USE DEF CountsInv
<1>4. OnceInv'
    BY <1>1, <1>2 DEF OnceInv
<1>5. TradedInv'
    BY <1>1, <1>2, <1>3 DEF TradedInv, IsLast
<1>6. CanceledInv'
    BY <1>1, <1>2 DEF CanceledInv
<1>7. ASSUME NEW id \in Ids, NEW d \in Int, Due(id, d) PROVE Due(id, d)'
    <2>1. \A i \in News(id) : Base(id, i)' = Base(id, i)
        BY <1>1, <1>2 DEF Base
    <2>2. QED
        BY <1>1, <1>7, <2>1 DEF Due, IsFirst, IsLast
<1>8. \A x \in Int : Start(x) => Start(x)'
    BY <1>1 DEF Start
<1>9. QED
    BY <1>1, <1>4, <1>5, <1>6, <1>7, <1>8, PromiseKeeps

LEMMA StillCounts ==
    ASSUME Inv, CountsInv, Still, UNCHANGED posVars
    PROVE  CountsInv' /\ (Promise => Promise')
<1>1. \A id : CreateAsked(id)' = CreateAsked(id)
    BY SameOut DEF CreateAsked, Still
<1>2. Quietly
    BY <1>1 DEF Quietly, Still, CountsInv, TradedInv
<1>3. QED
    BY <1>2, QuietCounts

LEMMA AmendingCounts ==
    ASSUME Inv, CountsInv, NEW id, NEW o, NEW r, Amending(id, o, r), UNCHANGED posVars
    PROVE  CountsInv' /\ (Promise => Promise')
<1>1. /\ DOMAIN orders' = DOMAIN orders
      /\ \A i \in DOMAIN orders : orders'[i].traded = orders[i].traded
      /\ UNCHANGED <<inbox, linked, live, position>>
    BY DEF Amending, Stored
<1>2. ASSUME NEW i, CreateAsked(i)' PROVE CreateAsked(i)
    <2>1. OutGrows(r)
        BY OutGrowsFacts, Numbers DEF Amending
    <2>2. PICK k \in Asked(i)' : out'[k].type = "CREATE"
        BY <1>2 DEF CreateAsked
    <2>3. k # Len(out) + 1
        BY <2>1, <2>2 DEF OutGrows, Amending
    <2>4. k \in Asked(i) /\ out[k].type = "CREATE"
        BY <2>1, <2>2, <2>3 DEF OutGrows, Asked
    <2>5. QED
        BY <2>4 DEF CreateAsked
<1>3. Quietly
    BY <1>1, <1>2 DEF Quietly, CountsInv, TradedInv
<1>4. QED
    BY <1>3, QuietCounts

LEMMA CreatingCounts ==
    ASSUME Inv, CountsInv, NEW id, NEW o, NEW r, Creating(id, o, r), UNCHANGED posVars
    PROVE  CountsInv' /\ (Promise => Promise')
<1>1. /\ DOMAIN orders' = DOMAIN orders \cup {id}
      /\ orders'[id].traded = 0
      /\ \A i \in DOMAIN orders : i # id /\ orders'[i] = orders[i]
      /\ UNCHANGED <<inbox, linked, live, position>>
      /\ id = max_order_id + 1 /\ id <= MaxOrderId
    BY DEF Creating, Stored
<1>2. id \notin DOMAIN live /\ News(id) = {}
    <2>1. \A i \in Ids : seen[i] > 0 => i <= max_order_id
        BY OpenFacts DEF Creating, Inv, PathsInv
    <2>2. id \in Ids /\ ~(id <= max_order_id)
        BY <1>1, Numbers DEF Ids
    <2>3. seen[id] = 0
        BY <2>1, <2>2, Numbers
    <2>4. QED
        BY <2>2, <2>3, UnseenFacts
<1>3. ASSUME NEW i, i # id, CreateAsked(i)' PROVE CreateAsked(i)
    <2>1. OutGrows(r) /\ r.id = id
        BY OutGrowsFacts, Numbers DEF Creating
    <2>2. PICK k \in Asked(i)' : out'[k].type = "CREATE"
        BY <1>3 DEF CreateAsked
    <2>3. k \in Asked(i)
        BY <1>3, <2>1, <2>2 DEF OutGrows
    <2>4. out[k].type = "CREATE"
        BY <2>1, <2>2, <2>3 DEF OutGrows, Asked
    <2>5. QED
        BY <2>3, <2>4 DEF CreateAsked
<1>4. \A i \in DOMAIN orders' : CreateAsked(i)' => orders'[i].traded = 0
    BY <1>1, <1>3 DEF CountsInv, TradedInv
<1>5. Quietly
    BY <1>1, <1>2, <1>4 DEF Quietly
<1>6. QED
    BY <1>5, QuietCounts

LEMMA RefusingCounts ==
    ASSUME Inv, CountsInv, NEW r, NEW a, Refusing(r, a), UNCHANGED posVars
    PROVE  CountsInv' /\ (Promise => Promise')
<1>1. Taking(r) /\ UNCHANGED <<inbox, linked, live, position, orders>>
    BY DEF Refusing, Taking
<1>2. \A i : CreateAsked(i)' => CreateAsked(i)
    BY <1>1, TakenAgrees DEF CreateAsked
<1>3. Quietly
    BY <1>1, <1>2 DEF Quietly, CountsInv, TradedInv
<1>4. QED
    BY <1>3, QuietCounts

LEMMA AnsweringCounts ==
    ASSUME Inv, CountsInv, NEW a, Answering(a), UNCHANGED posVars
    PROVE  CountsInv' /\ (Promise => Promise')
<1>1. /\ UNCHANGED <<inbox, linked, live, position>>
      /\ \A i : CreateAsked(i)' = CreateAsked(i)
    BY SameOut DEF Answering, CreateAsked
<1>2. /\ \A i \in DOMAIN orders' :
            i \in DOMAIN orders /\ orders'[i].traded = orders[i].traded
      /\ \A i \in DOMAIN orders \ DOMAIN orders' : News(i) = {} /\ i \notin DOMAIN live
    <2>1. CASE UNCHANGED orders
        BY <2>1
    <2>2. CASE a.type = "CREATE" /\ Dropped(orders, orders', a.id)
        <3>1. 1 \in DOMAIN acks /\ a = acks[1]
            BY AcksShrinkFacts, Numbers DEF Answering, AcksShrink
        <3>2. a.id \notin DOMAIN live /\ News(a.id) = {}
            BY <2>2, <3>1 DEF Inv, PathsInv, ForgottenInv
        <3>3. QED
            BY <2>2, <3>2 DEF Dropped
    <2>3. ASSUME a.id \in DOMAIN orders,
                 NEW o, Stored(orders, orders', a.id, o), o.traded = orders[a.id].traded
          PROVE  /\ DOMAIN orders' = DOMAIN orders
                 /\ \A i \in DOMAIN orders' : orders'[i].traded = orders[i].traded
        BY <2>3 DEF Stored
    <2>4. QED
        BY <2>1, <2>2, <2>3 DEF Answering
<1>3. Quietly
    BY <1>1, <1>2 DEF Quietly, CountsInv, TradedInv
<1>4. QED
    BY <1>3, QuietCounts

(* The numbers that the promises are made of.                              *)
LEMMA DueFacts ==
    ASSUME Inv, NEW id \in Ids
    PROVE  /\ \A i \in News(id) :
                 Base(id, i) \in Nat /\ inbox[i].value.traded \in Nat /\ i \in Nat \ {0}
           /\ Known(id) => orders[id].traded \in Nat
    BY LotsFacts DEF Base, Known

(* An order is told of, with the lots that were filled since it was told   *)
(* of before.                                                              *)
Telling(id, x, e, before) ==
    /\ linked /\ id \in Ids
    /\ NewsOf(e, id, x, e.value.response)
    /\ inbox' = Append(inbox, e)
    /\ UNCHANGED <<orders, linked, posVars>>
    /\ \A i : CreateAsked(i)' => CreateAsked(i)
    /\ \/ Stored(live, live', id, x)
       \/ Dropped(live, live', id)
    /\ before \in Nat /\ x.traded \in Nat /\ before <= x.traded
    /\ \A i \in News(id) :
          /\ inbox[i].value.side = x.side
          /\ IsLast(id, i) => inbox[i].value.traded = before
    /\ News(id) = {} => Known(id) /\ orders[id].traded = before
    /\ e.value.status = "CANCELED" => x.traded = before
    /\ position' = position + Signed(x.side, x.traded - before)

LEMMA ToldCounts ==
    ASSUME Inv, CountsInv, NEW id, NEW x, NEW e, NEW before, Telling(id, x, e, before)
    PROVE  CountsInv' /\ (Promise => Promise')
<1> DEFINE m == Len(inbox) + 1
<1>1. /\ id \in Ids /\ before \in Nat /\ x.traded \in Nat /\ before <= x.traded
      /\ UNCHANGED <<orders, linked>>
      /\ e.kind = "OrderUpdate" /\ e.value.side = x.side /\ e.value.traded = x.traded
      /\ position' = position + Signed(x.side, x.traded - before)
    BY DEF Telling, NewsOf, Reports
<1>2. /\ m \in Nat /\ m \notin DOMAIN inbox
      /\ DOMAIN inbox' = DOMAIN inbox \cup {m}
      /\ \A i \in DOMAIN inbox : i \in Nat /\ i < m /\ inbox'[i] = inbox[i]
      /\ inbox'[m] = e
      /\ Begins' = Begins /\ Ends' = Ends
      /\ \A i : News(i)' = IF i = id THEN News(i) \cup {m} ELSE News(i)
    BY ToldFacts DEF Telling
<1>3. Posns' = Posns
    BY <1>1, <1>2 DEF Posns
<1>4. \A i : Known(i)' <=> Known(i)
    BY <1>1, <1>2 DEF Known, Fresh
<1>5. /\ \A i \in DOMAIN live' : i # id => i \in DOMAIN live /\ live'[i] = live[i]
      /\ id \in DOMAIN live' => live'[id] = x
    BY DEF Telling, Stored, Dropped
<1>6. \A i : \A j \in News(i) : j \in DOMAIN inbox /\ j \in Nat /\ j < m /\ j # m
                                /\ inbox'[j] = inbox[j]
    BY <1>2 DEF News
<1>7. m \in News(id)' /\ inbox'[m].value.traded = x.traded
    BY <1>1, <1>2
<1>8. \A i \in Ends : i \in DOMAIN inbox /\ i < m /\ ~(m < i) /\ ~(m <= i)
    BY <1>2 DEF Ends
<1>9. \A i \in News(id) : inbox[i].value.traded <= before /\ inbox[i].value.traded <= x.traded
    <2>1. ASSUME NEW i \in News(id) PROVE inbox[i].value.traded <= before
        <3>1. PICK l \in News(id) : IsLast(id, l)
            BY <2>1, NewsEnds
        <3>2. inbox[i].value.traded <= inbox[l].value.traded
            BY <1>1, <2>1, <3>1 DEF IsLast, CountsInv, TradedInv
        <3>3. QED
            BY <3>1, <3>2 DEF Telling
    <2>2. QED
        BY <1>1, <2>1, DueFacts
<1>10. Known(id) => orders[id].traded <= before
    <2>1. CASE News(id) = {}
        BY <1>1, <2>1 DEF Telling
    <2>2. CASE News(id) # {}
        <3>1. PICK l \in News(id) : IsLast(id, l)
            BY <2>2, NewsEnds
        <3>2. Known(id) => orders[id].traded <= inbox[l].value.traded
            BY <1>1, <3>1 DEF CountsInv, TradedInv
        <3>3. inbox[l].value.traded = before
            BY <3>1 DEF Telling
        <3>4. QED
            BY <3>2, <3>3
    <2>3. QED
        BY <2>1, <2>2
<1>11. \A i, l : i # id => (IsLast(i, l)' <=> IsLast(i, l)) /\ (IsFirst(i, l)' <=> IsFirst(i, l))
    BY <1>2 DEF IsLast, IsFirst
<1>12. \A l \in News(id)' : IsLast(id, l)' => l = m
    <2>1. ASSUME NEW l \in News(id)', IsLast(id, l)', l # m PROVE FALSE
        <3>1. m <= l /\ l \in News(id)
            BY <1>2, <1>7, <2>1 DEF IsLast
        <3>2. QED
            BY <1>2, <1>6, <3>1
    <2>2. QED
        BY <2>1
<1>13. \A i : \A j \in News(i)' : j \in News(i) \/ (j = m /\ i = id)
    BY <1>2
<1> HIDE DEF m
<1> USE DEF CountsInv
<1>14. OnceInv'
    <2>1. ASSUME NEW s \in Ends, NEW i \in Ids, NEW j \in News(i)', j < s
          PROVE  ~Known(i)' /\ \A k \in News(i)' : k < s => k = j
        <3>1. j \in News(i)
            BY <1>8, <1>13, <2>1
        <3>2. \A k \in News(i)' : k < s => k \in News(i)
            BY <1>8, <1>13, <2>1
        <3>3. QED
            BY <1>4, <2>1, <3>1, <3>2 DEF OnceInv
    <2>2. QED
        BY <1>2, <1>3, <2>1 DEF OnceInv
<1>15. TradedInv'
    <2>1. ASSUME NEW i \in Ids, NEW j \in News(i)', NEW k \in News(i)', j <= k
          PROVE  inbox'[j].value.traded <= inbox'[k].value.traded
        <3>1. CASE k = m /\ i = id
            BY <1>1, <1>6, <1>7, <1>9, <1>13, <2>1, <3>1
        <3>2. CASE k \in News(i)
            <4>1. j \in News(i)
                BY <1>2, <1>6, <1>13, <2>1, <3>2
            <4>2. QED
                BY <1>6, <2>1, <3>2, <4>1 DEF TradedInv
        <3>3. QED
            BY <1>13, <2>1, <3>1, <3>2
    <2>2. ASSUME NEW i \in Ids, NEW j \in News(i)', Known(i)
          PROVE  orders[i].traded <= inbox'[j].value.traded
        <3>1. CASE j = m /\ i = id
            <4>1. orders[id].traded \in Nat /\ orders[id].traded <= before
                BY <1>1, <1>10, <2>2, <3>1, DueFacts
            <4>2. QED
                BY <1>1, <1>7, <3>1, <4>1
        <3>2. CASE j \in News(i)
            BY <1>6, <2>2, <3>2 DEF TradedInv
        <3>3. QED
            BY <1>13, <2>2, <3>1, <3>2
    <2>3. ASSUME NEW i \in DOMAIN live', NEW j \in News(i)', IsLast(i, j)'
          PROVE  inbox'[j].value.traded = live'[i].traded
        <3>1. CASE i = id
            BY <1>5, <1>7, <1>12, <2>3, <3>1
        <3>2. CASE i # id
            BY <1>5, <1>6, <1>11, <1>13, <2>3, <3>2 DEF TradedInv
        <3>3. QED
            BY <3>1, <3>2
    <2>4. ASSUME NEW i \in DOMAIN live', Known(i), News(i)' = {}
          PROVE  orders[i].traded = live'[i].traded
        BY <1>2, <1>5, <1>7, <2>4 DEF TradedInv
    <2>5. \A i \in DOMAIN orders : CreateAsked(i)' => orders[i].traded = 0
        BY DEF Telling, TradedInv
    <2>6. QED
        BY <1>1, <1>4, <2>1, <2>2, <2>3, <2>4, <2>5 DEF TradedInv
<1>16. CanceledInv'
    <2>1. ASSUME NEW i \in Ids, NEW j \in News(i)', inbox'[j].value.status = "CANCELED"
          PROVE  \/ \E k \in News(i)' : k < j /\ inbox'[k].value.traded = inbox'[j].value.traded
                 \/ Known(i) /\ orders[i].traded = inbox'[j].value.traded
        <3>1. CASE j = m /\ i = id
            <4>1. x.traded = before
                BY <1>2, <2>1, <3>1 DEF Telling
            <4>2. CASE News(id) = {}
                BY <1>7, <3>1, <4>1, <4>2 DEF Telling
            <4>3. CASE News(id) # {}
                <5>1. PICK l \in News(id) : IsLast(id, l)
                    BY <4>3, NewsEnds
                <5>2. inbox[l].value.traded = before
                    BY <5>1 DEF Telling
                <5>3. l \in News(id)' /\ l < m /\ inbox'[l] = inbox[l]
                    BY <1>2, <1>6, <5>1
                <5>4. QED
                    BY <1>7, <3>1, <4>1, <5>2, <5>3
            <4>4. QED
                BY <4>2, <4>3
        <3>2. CASE j \in News(i)
            <4>1. \/ \E k \in News(i) : k < j /\ inbox[k].value.traded = inbox[j].value.traded
                  \/ Known(i) /\ orders[i].traded = inbox[j].value.traded
                BY <1>6, <2>1, <3>2 DEF CanceledInv
            <4>2. \A k \in News(i) : k \in News(i)'
                BY <1>2
            <4>3. QED
                BY <1>6, <3>2, <4>1, <4>2
        <3>3. QED
            BY <1>13, <2>1, <3>1, <3>2
    <2>2. QED
        BY <1>1, <1>4, <2>1 DEF CanceledInv
<1>17. \A i \in Ids : \A j \in News(i) : Base(i, j)' = Base(i, j)
    BY <1>1, <1>4, <1>6 DEF Base
<1>18. ASSUME NEW i \in Ids \ {id}, NEW d \in Int, Due(i, d) PROVE Due(i, d)'
    <2>1. News(i)' = News(i)
        BY <1>2
    <2>2. QED
        BY <1>6, <1>11, <1>17, <1>18, <2>1 DEF Due
<1> DEFINE gain == Signed(x.side, x.traded - before)
<1>19. gain \in Int
    BY <1>1, SignedFacts
<1>20. ASSUME NEW d \in Int, Due(id, d) PROVE Due(id, d + gain)'
    <2>1. ASSUME NEW i \in News(id)', NEW j \in News(id)', IsFirst(id, i)', IsLast(id, j)'
          PROVE  d + gain = Signed(inbox'[j].value.side, inbox'[j].value.traded - Base(id, i)')
        <3>1. j = m /\ inbox'[j].value.side = x.side /\ inbox'[j].value.traded = x.traded
            BY <1>1, <1>2, <1>12, <2>1
        <3>2. CASE News(id) = {}
            <4>1. d = 0
                BY <1>20, <3>2 DEF Due
            <4>2. Base(id, i)' = before
                BY <1>1, <1>4, <3>2 DEF Telling, Base
            <4>3. QED
                BY <1>19, <3>1, <4>1, <4>2
        <3>3. CASE News(id) # {}
            <4>1. PICK k \in News(id), l \in News(id) : IsFirst(id, k) /\ IsLast(id, l)
                BY <3>3, NewsEnds
            <4>2. i = k
                <5>1. i <= k
                    BY <1>2, <2>1, <4>1 DEF IsFirst
                <5>2. i \in News(id)
                    BY <1>2, <1>6, <1>13, <2>1, <4>1, <5>1
                <5>3. k <= i
                    BY <4>1, <5>2 DEF IsFirst
                <5>4. QED
                    BY <1>6, <4>1, <5>1, <5>2, <5>3
            <4>3. inbox[l].value.traded = before /\ inbox[l].value.side = x.side
                BY <4>1 DEF Telling
            <4>4. d = Signed(x.side, before - Base(id, k))
                BY <1>20, <4>1, <4>3 DEF Due
            <4>5. Base(id, i)' = Base(id, k) /\ Base(id, k) \in Nat
                BY <1>1, <1>17, <4>1, <4>2, DueFacts
            <4>6. (before - Base(id, k)) + (x.traded - before) = x.traded - Base(id, k)
                BY <1>1, <4>5
            <4>7. Signed(x.side, x.traded - Base(id, k)) = d + gain
                BY <1>1, <4>4, <4>5, <4>6, SignedAdds
            <4>8. QED
                BY <3>1, <4>5, <4>7
        <3>4. QED
            BY <3>2, <3>3
    <2> HIDE DEF gain
    <2>2. QED
        BY <1>7, <2>1 DEF Due
<1>21. \A y \in Int : Start(y) => Start(y + 0)'
    <2>1. UNCHANGED <<position_by_orders, position_by_account>>
        BY DEF Telling, posVars
    <2>2. \A p \in Posns : inbox'[p] = inbox[p]
        BY <1>2 DEF Posns
    <2>3. \A y \in Int : y + 0 = y
        OBVIOUS
    <2>4. \A y \in Int : Start(y) => Start(y)'
        BY <1>2, <1>3, <2>1, <2>2 DEF Start
    <2>5. QED
        BY <2>3, <2>4
<1>22. ASSUME Promise PROVE Promise'
    <2> DEFINE none == 0
    <2>1. none \in Int /\ position' = position + (none + gain)
        BY <1>1, <1>19
    <2>2. \A y \in Int : Start(y) => Start(y + none)'
        BY <1>21
    <2> HIDE DEF gain, none
    <2>3. \A i \in Ids \ {id}, d \in Int : Due(i, d) => Due(i, d)'
        BY <1>18
    <2>4. \A d \in Int : Due(id, d) => Due(id, d + gain)'
        BY <1>20
    <2>5. QED
        BY <1>1, <1>19, <1>22, <2>1, <2>2, <2>3, <2>4, PromiseMoves
<1>23. QED
    BY <1>14, <1>15, <1>16, <1>22

LEMMA AcceptingCounts ==
    ASSUME Inv, AnswersInv, CountsInv, NEW r, NEW x, NEW e, Accepting(r, x, e),
           UNCHANGED posVars
    PROVE  CountsInv' /\ (Promise => Promise')
<1> DEFINE id == r.id
<1>1. /\ Taking(r) /\ UNCHANGED <<orders, linked, position>>
      /\ NewsOf(e, id, x, r.version) /\ inbox' = Append(inbox, e)
      /\ x \in LiveOrder
    BY DEF Accepting, Taking
<1>2. /\ linked /\ Begins = {} /\ 1 \in Asked(id) /\ r = out[1] /\ id \in Ids
      /\ 1 \in DOMAIN out
      /\ r.type = "CREATE" => seen[id] = 0
    <2>1. /\ linked /\ Begins = {} /\ 1 \in Asked(id) /\ r = out[1] /\ id \in Ids
          /\ 1 \in DOMAIN out
          /\ r.version > seen[id] /\ (r.type = "CREATE" <=> r.version = 1)
          /\ seen[id] \in Nat
        BY <1>1, TakenFacts
    <2>2. QED
        BY <2>1
<1>3. \A i : CreateAsked(i)' => CreateAsked(i)
    BY <1>1, TakenAgrees DEF CreateAsked
<1>4. Signed(x.side, 0) = 0 /\ position \in Int /\ x.traded \in Nat
    BY <1>1, SignedFacts, LotsFacts DEF LiveOrder
<1>5. NewsOf(e, id, x, e.value.response) /\ e.value.response = r.version
    BY <1>1 DEF NewsOf
<1>6. CASE r.type = "CREATE"
    <2>1. id \notin DOMAIN live /\ News(id) = {}
        BY <1>2, <1>6, UnseenFacts
    <2>2. id \in DOMAIN orders /\ orders[id].traded = 0
        <3>1. id \in DOMAIN orders
            BY <1>2, <1>6 DEF Inv, PathsInv, ForgottenInv
        <3>2. CreateAsked(id)
            BY <1>2, <1>6 DEF CreateAsked
        <3>3. QED
            BY <3>1, <3>2 DEF CountsInv, TradedInv
    <2>3. x.traded = 0 /\ x.traded - 0 = 0 /\ position' = position + 0
        BY <1>1, <1>4, <1>6 DEF Accepting
    <2>4. Stored(live, live', id, x)
        BY <1>6 DEF Accepting
    <2>5. Telling(id, x, e, 0)
        <3>1. Known(id)
            BY <1>2, <2>2 DEF Known, Fresh
        <3>2. position' = position + Signed(x.side, x.traded - 0)
            BY <1>4, <2>3
        <3> HIDE DEF id
        <3>3. QED
            BY <1>1, <1>2, <1>3, <1>4, <1>5, <2>1, <2>2, <2>3, <2>4, <3>1, <3>2 DEF Telling
    <2>6. QED
        BY <2>5, ToldCounts
<1>7. CASE r.type # "CREATE"
    <2> DEFINE before == live[id].traded
    <2>1. /\ id \in DOMAIN live /\ x.side = live[id].side /\ x.traded = before
          /\ Stored(live, live', id, x) \/ Dropped(live, live', id)
        BY <1>7 DEF Accepting
    <2>2. before \in Nat /\ before <= x.traded /\ x.traded - before = 0
        BY <1>4, <2>1
    <2>3. \A i \in News(id) :
              /\ inbox[i].value.side = x.side
              /\ IsLast(id, i) => inbox[i].value.traded = before
        BY <2>1 DEF AnswersInv, SidesInv, CountsInv, TradedInv
    <2>4. News(id) = {} => Known(id) /\ orders[id].traded = before
        <3>1. News(id) = {} => Known(id)
            BY <1>2, <2>1 DEF AnswersInv, LiveInv, Known, Fresh
        <3>2. QED
            BY <2>1, <3>1 DEF CountsInv, TradedInv
    <2>5. position' = position + Signed(x.side, x.traded - before)
        BY <1>1, <1>4, <2>2
    <2> HIDE DEF before, id
    <2>6. Telling(id, x, e, before)
        BY <1>1, <1>2, <1>3, <1>4, <1>5, <2>1, <2>2, <2>3, <2>4, <2>5 DEF Telling
    <2>7. QED
        BY <2>6, ToldCounts
<1>8. QED
    BY <1>6, <1>7

(* Without a connection nothing is promised and nothing is on its way.     *)
LEMMA UnlinkedCounts ==
    ASSUME ~linked', inbox' = <<>>, out' = <<>>
    PROVE  CountsInv'
<1>1. /\ Begins' = {} /\ Ends' = {} /\ \A i : News(i)' = {}
      /\ \A i : ~CreateAsked(i)' /\ ~Known(i)'
    BY NothingFacts DEF CreateAsked, Known, Fresh
<1>2. OnceInv'
    BY <1>1 DEF OnceInv
<1>3. TradedInv'
    BY <1>1 DEF TradedInv
<1>4. CanceledInv'
    BY <1>1 DEF CanceledInv
<1>5. QED
    BY <1>2, <1>3, <1>4 DEF CountsInv

LEMMA MovingCounts ==
    ASSUME Inv, AnswersInv, CountsInv, ~Conflates, DownloadTells = "nothing",
           NEW id, NEW x, NEW e, Moving(id, x, e), UNCHANGED posVars
    PROVE  CountsInv' /\ (linked' /\ Promise => Promise')
<1>1. /\ UNCHANGED <<orders, out, linked>>
      /\ id \in DOMAIN live /\ id \in Ids /\ x.side = live[id].side
      /\ x.traded \in Nat /\ live[id].traded \in Nat
      /\ NewsOf(e, id, x, seen[id])
      /\ inbox' = IF linked THEN Append(inbox, e) ELSE inbox
    BY LotsFacts DEF Moving, Slipped, LiveOrder
<1>2. linked \in BOOLEAN
    BY DEF Inv, PathsInv, XTypes
<1>3. CASE ~linked
    <2>1. inbox' = <<>> /\ out' = <<>> /\ ~linked'
        BY <1>1, <1>3 DEF Inv, PathsInv, LinkInv
    <2>2. QED
        BY <2>1, UnlinkedCounts
<1>4. CASE linked
    <2> DEFINE before == live[id].traded
    <2>1. before \in Nat /\ before <= x.traded
        BY <1>1 DEF Moving
    <2>2. \A i \in News(id) :
              /\ inbox[i].value.side = x.side
              /\ IsLast(id, i) => inbox[i].value.traded = before
        BY <1>1 DEF AnswersInv, SidesInv, CountsInv, TradedInv
    <2>3. News(id) = {} => Known(id) /\ orders[id].traded = before
        <3>1. News(id) = {} => Known(id)
            BY <1>1, <1>4 DEF AnswersInv, LiveInv, Known, Fresh
        <3>2. QED
            BY <1>1, <3>1 DEF CountsInv, TradedInv
    <2>4. /\ NewsOf(e, id, x, e.value.response) /\ inbox' = Append(inbox, e)
          /\ e.value.status = "CANCELED" => x.traded = before
          /\ position' = position + Signed(x.side, x.traded - before)
          /\ Stored(live, live', id, x) \/ Dropped(live, live', id)
        BY <1>1, <1>4 DEF Moving, NewsOf
    <2>5. \A i : CreateAsked(i)' => CreateAsked(i)
        BY <1>1, SameOut DEF CreateAsked
    <2> HIDE DEF before
    <2>6. Telling(id, x, e, before)
        BY <1>1, <1>4, <2>1, <2>2, <2>3, <2>4, <2>5 DEF Telling
    <2>7. QED
        BY <2>6, ToldCounts
<1>5. QED
    BY <1>2, <1>3, <1>4

LEMMA AnnouncingCounts ==
    ASSUME Inv, CountsInv, NEW e, Announcing(e), UNCHANGED posVars
    PROVE  CountsInv' /\ (Promise => Promise')
<1>1. /\ UNCHANGED <<orders, out, live, linked, position>>
      /\ UNCHANGED <<position_by_orders, position_by_account>>
      /\ \A i : CreateAsked(i)' <=> CreateAsked(i)
    BY SameOut DEF Announcing, CreateAsked, posVars
<1>2. e \in Events /\ e.kind = "GatewayStatus"
    BY DEF Announcing, Events, Statuses
<1>3. Grows(e)
    BY <1>2, GrowsFacts, Numbers DEF Announcing
<1>4. /\ \A i \in DOMAIN inbox : inbox'[i] = inbox[i]
      /\ Begins' = Begins /\ Ends' = Ends /\ \A i : News(i)' = News(i)
      /\ Posns' = Posns
    BY <1>2, <1>3 DEF Grows, Posns
<1>5. /\ \A i : \A j \in News(i) : inbox'[j] = inbox[j]
      /\ \A p \in Posns : inbox'[p] = inbox[p]
    BY <1>4 DEF News, Posns
<1>6. \A i : Known(i)' <=> Known(i)
    BY <1>1, <1>4 DEF Known, Fresh
<1>7. \A i \in Ids : \A j \in News(i) : Base(i, j)' = Base(i, j)
    BY <1>1, <1>5, <1>6 DEF Base
<1>8. \A i, j : (IsLast(i, j)' <=> IsLast(i, j)) /\ (IsFirst(i, j)' <=> IsFirst(i, j))
    BY <1>4 DEF IsLast, IsFirst
<1> USE DEF CountsInv
<1>9. OnceInv'
    BY <1>4, <1>6 DEF OnceInv
<1>10. TradedInv'
    BY <1>1, <1>4, <1>5, <1>6, <1>8 DEF TradedInv
<1>11. CanceledInv'
    BY <1>1, <1>4, <1>5, <1>6 DEF CanceledInv
<1>12. \A x \in Int : Start(x) => Start(x)'
    BY <1>1, <1>4, <1>5 DEF Start
<1>13. ASSUME NEW i \in Ids, NEW d \in Int, Due(i, d) PROVE Due(i, d)'
    BY <1>4, <1>5, <1>7, <1>8, <1>13 DEF Due
<1>14. QED
    BY <1>1, <1>9, <1>10, <1>11, <1>12, <1>13, PromiseKeeps

LEMMA JoiningCounts ==
    ASSUME Inv, Joining
    PROVE  CountsInv' /\ Promise'
<1>1. PICK last \in Nat :
          /\ Ends' = {last}
          /\ \A i \in DOMAIN inbox' : inbox'[i].kind = "PositionUpdate" <=> i = last - 2
          /\ last - 2 \in DOMAIN inbox' /\ inbox'[last - 2].value = position
    BY DEF Joining, Downloads
<1>2. /\ Begins' = {1} /\ UNCHANGED <<live, position>>
      /\ \A i : \A j, k \in News(i)' : j = k
      /\ \A i : \A j \in News(i)' :
            /\ i \in DOMAIN live
            /\ NewsOf(inbox'[j], i, live[i], seen[i])
            /\ inbox'[j].value.status = "WORKING"
    BY DEF Joining, Downloads
<1>3. Posns' = {last - 2} /\ \A p \in Posns' : p < last
    BY <1>1 DEF Posns
<1>4. \A i : ~CreateAsked(i)' /\ ~Known(i)'
    <2>1. out' = <<>>
        BY DEF Joining, Inv, PathsInv, LinkInv
    <2>2. QED
        BY <1>2, <2>1, NothingFacts DEF CreateAsked, Known, Fresh
<1>5. \A i : \A j \in News(i)' : inbox'[j].value.traded = live[i].traded
                                 /\ live[i].traded \in Nat
    BY <1>2, LotsFacts DEF NewsOf
<1>6. OnceInv'
    BY <1>1, <1>2, <1>3, <1>4 DEF OnceInv
<1>7. TradedInv'
    BY <1>2, <1>4, <1>5 DEF TradedInv
<1>8. CanceledInv'
    BY <1>2 DEF CanceledInv
<1>9. PICK x \in Int : x = position
    BY LotsFacts
<1>10. Start(x)'
    BY <1>1, <1>3, <1>9 DEF Start
<1>11. ASSUME NEW i \in Ids PROVE Due(i, 0)'
    <2>1. ASSUME NEW j \in News(i)', NEW k \in News(i)'
          PROVE  Signed(inbox'[k].value.side, inbox'[k].value.traded - Base(i, j)') = 0
        <3>1. j = k /\ Base(i, j)' = inbox'[j].value.traded /\ inbox'[j].value.traded \in Nat
            BY <1>2, <1>4, <1>5 DEF Base
        <3>2. inbox'[k].value.traded - Base(i, j)' = 0
            BY <3>1
        <3>3. QED
            BY <3>2, SignedFacts
    <2>2. QED
        BY <2>1 DEF Due
<1> DEFINE f == [i \in Ids |-> 0]
<1>12. f \in [Ids -> Int] /\ \A i \in Ids : f[i] = 0
    OBVIOUS
<1>13. IsSum(f, position' - x)
    <2>1. position' - x = 0
        BY <1>2, <1>9
    <2>2. QED
        BY <2>1, SumOfNothing
<1> HIDE DEF f
<1>14. Promise'
    BY <1>11, <1>12, <1>13, <1>10 DEF Promise
<1>15. QED
    BY <1>6, <1>7, <1>8, <1>14 DEF CountsInv

(* What is told and known of an order, without the others.                 *)
TracedOf(id) ==
    /\ \A i, j \in News(id) :
          i <= j => inbox[i].value.traded <= inbox[j].value.traded
    /\ \A i \in News(id) :
          Known(id) => orders[id].traded <= inbox[i].value.traded
    /\ id \in DOMAIN live =>
          /\ \A i \in News(id) :
                IsLast(id, i) => inbox[i].value.traded = live[id].traded
          /\ Known(id) /\ News(id) = {} => orders[id].traded = live[id].traded
    /\ \A j \in News(id) :
          inbox[j].value.status = "CANCELED" =>
             \/ \E i \in News(id) : i < j /\ inbox[i].value.traded = inbox[j].value.traded
             \/ Known(id) /\ orders[id].traded = inbox[j].value.traded

(* The order of the events that are left when the first is taken.          *)
LEMMA LeftFacts ==
    ASSUME Inv, inbox # <<>>, inbox' = Tail(inbox), UNCHANGED linked
    PROVE  /\ linked /\ linked' /\ Begins' = {}
           /\ 1 \in DOMAIN inbox /\ Head(inbox) = inbox[1]
           /\ \A id : \A i \in News(id)' :
                 i \in Nat \ {0} /\ i + 1 \in News(id) /\ inbox'[i] = inbox[i + 1]
           /\ \A id : \A i \in News(id) :
                 /\ i \in Nat \ {0}
                 /\ i # 1 => i - 1 \in News(id)' /\ inbox'[i - 1] = inbox[i]
           /\ \A i \in Posns' :
                 i \in Nat \ {0} /\ i + 1 \in Posns /\ inbox'[i] = inbox[i + 1]
           /\ \A i \in Posns : i \in Nat \ {0} /\ (i # 1 => i - 1 \in Posns')
           /\ \A i \in Ends' : i \in Nat \ {0} /\ i + 1 \in Ends
           /\ \A i \in Ends : i \in Nat \ {0} /\ (i # 1 => i - 1 \in Ends')
<1>1. Shrinks
    BY ShrinksFacts, Numbers
<1>2. /\ linked /\ Begins' = {} /\ 1 \in DOMAIN inbox /\ Head(inbox) = inbox[1]
      /\ \A id : \A i \in News(id)' :
            i \in Nat \ {0} /\ i + 1 \in News(id) /\ inbox'[i] = inbox[i + 1]
      /\ \A id : \A i \in News(id) : i # 1 => i - 1 \in News(id)'
      /\ \A i \in Ends' : i + 1 \in Ends
      /\ \A i \in Ends : i # 1 => i - 1 \in Ends'
    BY ShiftedFacts
<1>3. /\ \A i \in DOMAIN inbox : i \in Nat \ {0} /\ (i # 1 => i - 1 \in DOMAIN inbox')
      /\ \A i \in DOMAIN inbox' :
            i \in Nat \ {0} /\ i + 1 \in DOMAIN inbox /\ inbox'[i] = inbox[i + 1]
    BY <1>1 DEF Shrinks
<1>4. /\ \A i \in Ends : i \in DOMAIN inbox
      /\ \A i \in Ends' : i \in DOMAIN inbox'
      /\ \A id : \A i \in News(id) : i \in DOMAIN inbox
    BY DEF Ends, News
<1>5. \A i \in DOMAIN inbox : i # 1 => inbox'[i - 1] = inbox[i]
    <2>1. ASSUME NEW i \in DOMAIN inbox, i # 1 PROVE inbox'[i - 1] = inbox[i]
        <3>1. i - 1 \in DOMAIN inbox' /\ (i - 1) + 1 = i
            BY <1>3, <2>1
        <3>2. inbox'[i - 1] = inbox[(i - 1) + 1]
            BY <1>3, <3>1
        <3>3. QED
            BY <3>1, <3>2
    <2>2. QED
        BY <2>1
<1>6. \A i \in Posns' :
          i \in Nat \ {0} /\ i + 1 \in Posns /\ inbox'[i] = inbox[i + 1]
    BY <1>3 DEF Posns
<1>7. \A i \in Posns : i \in Nat \ {0} /\ (i # 1 => i - 1 \in Posns')
    BY <1>3, <1>5 DEF Posns
<1>8. \A i \in Ends' : i \in Nat \ {0} /\ i + 1 \in Ends
    BY <1>2, <1>3, <1>4
<1>9. \A i \in Ends : i \in Nat \ {0} /\ (i # 1 => i - 1 \in Ends')
    BY <1>2, <1>3, <1>4
<1>10. \A id : \A i \in News(id) :
          /\ i \in Nat \ {0}
          /\ i # 1 => i - 1 \in News(id)' /\ inbox'[i - 1] = inbox[i]
    BY <1>2, <1>3, <1>4, <1>5
<1>11. QED
    BY <1>2, <1>6, <1>7, <1>8, <1>9, <1>10

(* What it takes for the counts of all the orders to be kept.              *)
LEMMA LeftCounts ==
    ASSUME Inv, CountsInv, inbox # <<>>, inbox' = Tail(inbox), UNCHANGED linked,
           \A id \in Ids : TracedOf(id)', DOMAIN live' \subseteq Ids,
           \A id \in DOMAIN orders' : CreateAsked(id)' => orders'[id].traded = 0,
           Ends # {} => \A id \in Ids : Known(id)' => Known(id) \/ 1 \in News(id)
    PROVE  CountsInv'
<1>1. OnceInv'
    <2>1. ASSUME NEW e \in Ends', NEW p \in Posns' PROVE p < e
        <3>1. e + 1 \in Ends /\ p + 1 \in Posns /\ e \in Nat /\ p \in Nat
            BY LeftFacts
        <3>2. p + 1 < e + 1
            BY <3>1 DEF CountsInv, OnceInv
        <3>3. QED
            BY <3>1, <3>2
    <2>2. ASSUME NEW e \in Ends', NEW id \in Ids, NEW i \in News(id)', i < e
          PROVE  ~Known(id)' /\ \A j \in News(id)' : j < e => j = i
        <3>1. e + 1 \in Ends /\ e \in Nat /\ i + 1 \in News(id) /\ i \in Nat \ {0}
            BY LeftFacts
        <3>2. i + 1 < e + 1
            BY <2>2, <3>1
        <3>3. ~Known(id) /\ \A j \in News(id) : j < e + 1 => j = i + 1
            BY <3>1, <3>2 DEF CountsInv, OnceInv
        <3>4. 1 \notin News(id)
            <4>1. 1 < e + 1 /\ i + 1 # 1
                BY <3>1, <3>2
            <4>2. QED
                BY <3>3, <4>1
        <3>5. ~Known(id)'
            BY <3>1, <3>3, <3>4
        <3>6. ASSUME NEW j \in News(id)', j < e PROVE j = i
            <4>1. j + 1 \in News(id) /\ j \in Nat
                BY LeftFacts
            <4>2. j + 1 < e + 1
                BY <3>1, <3>6, <4>1
            <4>3. j + 1 = i + 1
                BY <3>3, <4>1, <4>2
            <4>4. QED
                BY <3>1, <4>1, <4>3
        <3>7. QED
            BY <3>5, <3>6
    <2>3. Begins' = {}
        BY LeftFacts
    <2>4. QED
        BY <2>1, <2>2, <2>3 DEF OnceInv
<1>2. TradedInv'
    BY DEF TracedOf, TradedInv
<1>3. CanceledInv'
    BY DEF TracedOf, CanceledInv
<1>4. QED
    BY <1>1, <1>2, <1>3 DEF CountsInv

LEMMA CountsTraced ==
    ASSUME CountsInv, NEW id \in Ids
    PROVE  TracedOf(id)
    BY DEF CountsInv, TradedInv, CanceledInv, TracedOf

(* An order that the event is not about keeps its due.                     *)
LEMMA OthersLeft ==
    ASSUME Inv, CountsInv, inbox # <<>>, inbox' = Tail(inbox), UNCHANGED <<linked, live>>,
           NEW id \in Ids, 1 \notin News(id), Known(id)' <=> Known(id),
           Known(id) => orders'[id].traded = orders[id].traded
    PROVE  TracedOf(id)' /\ \A d \in Int : Due(id, d) => Due(id, d)'
<1>1. /\ \A i \in News(id)' :
            i \in Nat \ {0} /\ i + 1 \in News(id) /\ inbox'[i] = inbox[i + 1]
      /\ \A i \in News(id) :
            i \in Nat \ {0} /\ i - 1 \in News(id)' /\ inbox'[i - 1] = inbox[i]
    BY LeftFacts
<1>2. TracedOf(id)
    BY CountsTraced
<1>3. \A i \in News(id)' : IsLast(id, i)' => IsLast(id, i + 1)
    BY <1>1 DEF IsLast
<1>4. \A i \in News(id)' : IsFirst(id, i)' => IsFirst(id, i + 1)
    BY <1>1 DEF IsFirst
<1>5. News(id)' = {} <=> News(id) = {}
    BY <1>1
<1>6. ASSUME NEW i \in News(id)', NEW j \in News(id)', i <= j
      PROVE  inbox'[i].value.traded <= inbox'[j].value.traded
    <2>1. i + 1 <= j + 1
        BY <1>1, <1>6
    <2>2. QED
        BY <1>1, <1>2, <2>1 DEF TracedOf
<1>7. ASSUME NEW j \in News(id)', inbox'[j].value.status = "CANCELED"
      PROVE  \/ \E i \in News(id)' : i < j /\ inbox'[i].value.traded = inbox'[j].value.traded
             \/ Known(id)' /\ orders'[id].traded = inbox'[j].value.traded
    <2>1. j \in Nat /\ j + 1 \in News(id) /\ inbox'[j] = inbox[j + 1]
        BY <1>1
    <2>2. CASE Known(id) /\ orders[id].traded = inbox[j + 1].value.traded
        BY <2>1, <2>2
    <2>3. ASSUME NEW i \in News(id), i < j + 1,
                 inbox[i].value.traded = inbox[j + 1].value.traded
          PROVE  \E k \in News(id)' : k < j /\ inbox'[k].value.traded = inbox'[j].value.traded
        <3>1. i - 1 \in News(id)' /\ inbox'[i - 1] = inbox[i] /\ i \in Nat
            BY <1>1, <2>3
        <3>2. i - 1 < j
            BY <2>1, <2>3, <3>1
        <3>3. QED
            BY <2>1, <2>3, <3>1, <3>2
    <2>4. QED
        BY <1>2, <1>7, <2>1, <2>2, <2>3 DEF TracedOf
<1>8. TracedOf(id)'
    <2>1. \A i \in News(id)' : Known(id)' => orders'[id].traded <= inbox'[i].value.traded
        BY <1>1, <1>2 DEF TracedOf
    <2>2. id \in DOMAIN live' =>
             /\ \A i \in News(id)' :
                   IsLast(id, i)' => inbox'[i].value.traded = live'[id].traded
             /\ Known(id)' /\ News(id)' = {} => orders'[id].traded = live'[id].traded
        BY <1>1, <1>2, <1>3, <1>5 DEF TracedOf
    <2>3. QED
        BY <1>6, <1>7, <2>1, <2>2 DEF TracedOf
<1>9. ASSUME NEW d \in Int, Due(id, d) PROVE Due(id, d)'
    <2>1. ASSUME NEW i \in News(id)', NEW j \in News(id)', IsFirst(id, i)', IsLast(id, j)'
          PROVE  d = Signed(inbox'[j].value.side, inbox'[j].value.traded - Base(id, i)')
        <3>1. Base(id, i)' = Base(id, i + 1)
            BY <1>1, <2>1 DEF Base
        <3>2. d = Signed(inbox[j + 1].value.side, inbox[j + 1].value.traded - Base(id, i + 1))
            BY <1>1, <1>3, <1>4, <1>9, <2>1 DEF Due
        <3>3. QED
            BY <1>1, <2>1, <3>1, <3>2
    <2>2. QED
        BY <1>5, <1>9, <2>1 DEF Due
<1>10. QED
    BY <1>8, <1>9

(* What concerns no order leaves what is due of every order.               *)
LEMMA PassedCounts ==
    ASSUME Inv, CountsInv, Passes, UNCHANGED position,
           \A x \in Int : Start(x) => Start(x)'
    PROVE  CountsInv' /\ (Promise => Promise')
<1>1. /\ inbox # <<>> /\ inbox' = Tail(inbox)
      /\ Head(inbox).kind # "OrderUpdate"
      /\ UNCHANGED <<out, live, linked>>
    BY DEF Passes
<1>2. /\ linked /\ linked' /\ Begins' = {} /\ Head(inbox) = inbox[1]
      /\ \A id : 1 \notin News(id)
    BY <1>1, LeftFacts DEF News
<1>3. /\ DOMAIN orders' \subseteq DOMAIN orders
      /\ \A i \in DOMAIN orders' : orders'[i] = orders[i]
      /\ Begins = {} => DOMAIN orders' = DOMAIN orders
      /\ Begins # {} => DOMAIN orders' = {}
    BY EmptyFacts DEF Passes
<1>4. \A id : Known(id)' <=> Known(id)
    BY <1>2, <1>3 DEF Known, Fresh
<1>5. \A id : Known(id) => orders'[id].traded = orders[id].traded
    BY <1>3, <1>4 DEF Known
<1>6. \A id \in Ids : TracedOf(id)' /\ \A d \in Int : Due(id, d) => Due(id, d)'
    BY <1>1, <1>2, <1>4, <1>5, OthersLeft
<1>7. \A id : CreateAsked(id)' <=> CreateAsked(id)
    BY <1>1, SameOut DEF CreateAsked
<1>8. \A id \in DOMAIN orders' : CreateAsked(id)' => orders'[id].traded = 0
    BY <1>3, <1>7 DEF CountsInv, TradedInv
<1>9. DOMAIN live' \subseteq Ids
    BY <1>1 DEF Inv, PathsInv, XTypes
<1>10. CountsInv'
    BY <1>1, <1>4, <1>6, <1>8, <1>9, LeftCounts
<1>11. QED
    BY <1>6, <1>10, PromiseKeeps

LEMMA PositionsCounts ==
    ASSUME Inv, CountsInv, Positions \/ Beginning \/ \E last : Concludes(last)
    PROVE  CountsInv' /\ (Promise => Promise')
<1>1. /\ inbox # <<>> /\ inbox' = Tail(inbox)
      /\ Head(inbox).kind # "OrderUpdate"
      /\ UNCHANGED <<out, live, seen, acks, linked, position>>
      /\ \/ orders' = orders /\ Head(inbox).kind # "DownloadBegin"
         \/ orders' = <<>> /\ Head(inbox).kind = "DownloadBegin"
    BY DEF Positions, Passing, Beginning, Concludes, Ending
<1>2. Passes
    <2>1. Head(inbox).kind # "DownloadBegin" => Begins = {}
        BY <1>1, ShiftedFacts
    <2>2. Head(inbox).kind = "DownloadBegin" => Begins # {}
        BY <1>1, ShiftedFacts DEF Begins
    <2>3. QED
        BY <1>1, <2>1, <2>2 DEF Passes
<1>3. /\ 1 \in DOMAIN inbox /\ Head(inbox) = inbox[1]
      /\ \A i \in Posns' :
            i \in Nat \ {0} /\ i + 1 \in Posns /\ inbox'[i] = inbox[i + 1]
      /\ \A i \in Posns : i \in Nat \ {0} /\ (i # 1 => i - 1 \in Posns')
      /\ \A i \in Ends' : i \in Nat \ {0} /\ i + 1 \in Ends
      /\ \A i \in Ends : i \in Nat \ {0} /\ (i # 1 => i - 1 \in Ends')
    BY <1>1, LeftFacts
<1>4. (1 \in Ends <=> Head(inbox).kind = "DownloadEnd")
      /\ (1 \in Posns <=> Head(inbox).kind = "PositionUpdate")
    BY <1>3 DEF Ends, Posns
<1>5. \A x \in Int : Start(x) => Start(x)'
    <2>1. CASE Positions
        <3>1. 1 \notin Ends
            BY <1>4, <2>1 DEF Positions, Passing
        <3>2. /\ position_by_orders' = position_by_orders
              /\ 1 \in Posns => position_by_account' = inbox[1].value
              /\ 1 \notin Posns => position_by_account' = position_by_account
            BY <1>3, <1>4, <2>1 DEF Positions
        <3>3. Ends = {} <=> Ends' = {}
            BY <1>3, <3>1
        <3>4. QED
            BY <1>3, <3>2, <3>3 DEF Start
    <2>2. CASE Beginning
        <3>1. 1 \notin Ends /\ 1 \notin Posns /\ 1 \in Begins
            BY <1>3, <1>4, <2>2 DEF Beginning, Begins
        <3>2. Ends # {} /\ Posns # {}
            BY <3>1 DEF Inv, PathsInv, DownloadInv, CountsInv, OnceInv
        <3>3. Ends' # {} /\ Posns' # {}
            BY <1>3, <3>1, <3>2
        <3>4. QED
            BY <1>3, <3>2, <3>3 DEF Start
    <2>3. ASSUME NEW last, Concludes(last)
          PROVE  \A x \in Int : Start(x) => Start(x)'
        <3>1. 1 \in Ends /\ position_by_orders' = position_by_account
            BY <1>4, <2>3 DEF Concludes, Ending
        <3>2. \A e \in Ends : e = 1
            BY <3>1 DEF Inv, PathsInv, DownloadInv
        <3>3. Ends' = {}
            BY <1>3, <3>2
        <3>4. Posns = {}
            <4>1. \A p \in Posns : p < 1 /\ p \in Nat \ {0}
                BY <1>3, <3>1 DEF CountsInv, OnceInv
            <4>2. QED
                BY <4>1
        <3>5. QED
            BY <3>1, <3>3, <3>4 DEF Start
    <2>4. QED
        BY <2>1, <2>2, <2>3
<1>6. QED
    BY <1>1, <1>2, <1>5, PassedCounts

(* What is heard of an order and counted is no longer due.                 *)
LEMMA HearingCounts ==
    ASSUME Inv, KnownInv, AnswersInv, CountsInv, NEW u, Counts(u)
    PROVE  CountsInv' /\ (Promise => Promise')
<1> DEFINE id == u.id
           base == Base(id, 1)
<1>1. /\ inbox # <<>> /\ inbox' = Tail(inbox)
      /\ UNCHANGED <<out, live, linked, position>>
      /\ Head(inbox).kind = "OrderUpdate" /\ u = Head(inbox).value
      /\ position_by_account' = position_by_account
      /\ position_by_orders' = position_by_orders + Signed(u.side, Fill(u))
    BY DEF Counts, Hearing
<1>2. /\ linked /\ linked' /\ Begins = {} /\ Begins' = {} /\ 1 \in DOMAIN inbox
      /\ u = inbox[1].value /\ inbox[1].kind = "OrderUpdate"
      /\ 1 \in News(id) /\ id \in Ids
      /\ u.status \in {"WORKING", "COMPLETED", "CANCELED"}
      /\ known /\ Fresh /\ Fresh'
    <2>1. /\ linked /\ linked' /\ Begins' = {} /\ 1 \in DOMAIN inbox
          /\ Head(inbox) = inbox[1]
        BY <1>1, LeftFacts
    <2>2. Begins = {}
        BY <1>1, ShiftedFacts
    <2>3. /\ u = inbox[1].value /\ 1 \in News(id) /\ id \in Ids
          /\ u.status \in {"WORKING", "COMPLETED", "CANCELED"}
        BY <1>1, <2>1, UpdateFacts
    <2>4. QED
        BY <1>1, <2>1, <2>2, <2>3 DEF KnownInv, Fresh
<1>3. /\ \A i : \A j \in News(i)' :
            j \in Nat \ {0} /\ j + 1 \in News(i) /\ inbox'[j] = inbox[j + 1]
      /\ \A i : \A j \in News(i) :
            /\ j \in Nat \ {0}
            /\ j # 1 => j - 1 \in News(i)' /\ inbox'[j - 1] = inbox[j]
      /\ \A i \in Posns' : i \in Nat \ {0} /\ i + 1 \in Posns /\ inbox'[i] = inbox[i + 1]
      /\ \A i \in Posns : i \in Nat \ {0} /\ (i # 1 => i - 1 \in Posns')
      /\ \A i \in Ends' : i \in Nat \ {0} /\ i + 1 \in Ends
      /\ \A i \in Ends : i \in Nat \ {0} /\ (i # 1 => i - 1 \in Ends')
    BY <1>1, LeftFacts
<1>4. 1 \notin Ends /\ 1 \notin Posns /\ \A i : 1 \in News(i) => i = id
    BY <1>2 DEF Ends, Posns, News
<1>5. /\ \A i \in DOMAIN orders : i # id => i \in DOMAIN orders'
      /\ \A i \in DOMAIN orders' : i # id => i \in DOMAIN orders /\ orders'[i] = orders[i]
      /\ id \in DOMAIN orders' => u.status = "WORKING" /\ orders'[id].traded = u.traded
      /\ u.status = "WORKING" => id \in DOMAIN orders'
    <2>1. CASE /\ u.status = "WORKING" /\ id \notin DOMAIN orders
               /\ Stored(orders, orders', id, Reported(u))
        BY <2>1 DEF Stored, Reported
    <2>2. CASE /\ u.status = "WORKING" /\ id \in DOMAIN orders
               /\ Stored(orders, orders', id, Confirmed(orders[id], u))
        <3>1. Confirmed(orders[id], u).traded = u.traded
            <4>1. orders[id] \in Order
                BY <2>2, Numbers
            <4>2. QED
                BY <4>1 DEF Confirmed, Order
        <3>2. QED
            BY <2>2, <3>1 DEF Stored
    <2>3. CASE u.status # "WORKING" /\ Dropped(orders, orders', id)
        BY <2>3 DEF Dropped
    <2>4. QED
        BY <1>2, <2>1, <2>2, <2>3 DEF Counts, Hearing
<1>6. \A i : Known(i) <=> i \in DOMAIN orders
    BY <1>2 DEF Known
<1>7. \A i : Known(i)' <=> i \in DOMAIN orders'
    BY <1>2 DEF Known
<1>8. u.traded \in Nat /\ base \in Nat /\ base <= u.traded
    <2>1. u.traded \in Nat /\ base \in Nat
        BY <1>2, DueFacts
    <2>2. base <= u.traded
        BY <1>2, <1>6, <2>1 DEF Base, CountsInv, TradedInv
    <2>3. QED
        BY <2>1, <2>2
<1>9. Fill(u) = u.traded - base
    <2>1. CASE id \notin DOMAIN orders
        <3>1. base = u.traded /\ Fill(u) = 0
            BY <1>2, <1>6, <2>1 DEF Base, Fill
        <3>2. QED
            BY <1>8, <3>1
    <2>2. CASE id \in DOMAIN orders
        <3>1. base = orders[id].traded
            BY <1>6, <2>2 DEF Base
        <3>2. u.status = "CANCELED" => u.traded = base
            <4>1. \A i \in News(id) : ~(i < 1)
                BY <1>3
            <4>2. QED
                BY <1>2, <3>1, <4>1 DEF CountsInv, CanceledInv
        <3>3. CASE u.traded = base
            BY <1>8, <3>1, <3>3 DEF Fill
        <3>4. CASE u.traded > base
            BY <2>2, <1>8, <3>1, <3>2, <3>4 DEF Fill
        <3>5. QED
            BY <1>8, <3>3, <3>4
    <2>3. QED
        BY <2>1, <2>2
<1>10. u.status # "WORKING" => News(id)' = {} /\ id \notin DOMAIN live
    <2>1. u.status # "WORKING" =>
              id \notin DOMAIN live /\ \A j \in News(id) : j <= 1
        BY <1>2 DEF Inv, PathsInv, FinalInv, IsFinal
    <2>2. \A j \in News(id)' : j + 1 \in News(id) /\ ~(j + 1 <= 1)
        BY <1>3
    <2>3. QED
        BY <2>1, <2>2
<1>11. \A i : IsLast(id, i)' /\ i \in News(id)' => IsLast(id, i + 1)
    <2>1. ASSUME NEW i \in News(id)', IsLast(id, i)', NEW j \in News(id) PROVE j <= i + 1
        <3>1. i \in Nat /\ j \in Nat \ {0}
            BY <1>3
        <3>2. CASE j = 1
            BY <3>1, <3>2
        <3>3. CASE j # 1
            <4>1. j - 1 <= i
                BY <1>3, <2>1, <3>3 DEF IsLast
            <4>2. QED
                BY <3>1, <4>1
        <3>4. QED
            BY <3>2, <3>3
    <2>2. QED
        BY <2>1 DEF IsLast
<1>12. News(id)' = {} => IsLast(id, 1)
    <2>1. News(id)' = {} => \A j \in News(id) : j = 1
        BY <1>3
    <2>2. QED
        BY <2>1 DEF IsLast
<1>13. IsFirst(id, 1)
    <2>1. \A j \in News(id) : 1 <= j
        BY <1>3
    <2>2. QED
        BY <2>1 DEF IsFirst
<1>14. TracedOf(id)
    BY <1>2, CountsTraced
<1>15. \A i \in Ids \ {id} : TracedOf(i)' /\ \A d \in Int : Due(i, d) => Due(i, d)'
    <2>1. ASSUME NEW i \in Ids, i # id
          PROVE  /\ Known(i)' <=> Known(i)
                 /\ Known(i) => orders'[i].traded = orders[i].traded
        BY <1>5, <1>6, <1>7, <2>1
    <2> HIDE DEF id
    <2>2. QED
        BY <1>1, <1>4, <2>1, OthersLeft
<1> HIDE DEF id, base
<1>16. TracedOf(id)'
    <2>1. ASSUME NEW i \in News(id)', NEW j \in News(id)', i <= j
          PROVE  inbox'[i].value.traded <= inbox'[j].value.traded
        <3>1. i + 1 <= j + 1
            BY <1>3, <2>1
        <3>2. QED
            BY <1>3, <1>14, <3>1 DEF TracedOf
    <2>2. \A i \in News(id)' : u.traded <= inbox'[i].value.traded
        <3>1. ASSUME NEW i \in News(id)' PROVE u.traded <= inbox'[i].value.traded
            <4>1. i + 1 \in News(id) /\ inbox'[i] = inbox[i + 1] /\ 1 <= i + 1
                BY <1>3
            <4>2. QED
                BY <1>2, <1>14, <4>1 DEF TracedOf
        <3>2. QED
            BY <3>1
    <2>3. \A i \in News(id)' : Known(id)' => orders'[id].traded <= inbox'[i].value.traded
        BY <1>5, <1>7, <2>2
    <2>4. id \in DOMAIN live' =>
              /\ \A i \in News(id)' :
                    IsLast(id, i)' => inbox'[i].value.traded = live'[id].traded
              /\ Known(id)' /\ News(id)' = {} => orders'[id].traded = live'[id].traded
        <3>1. id \in DOMAIN live => \A i \in News(id)' :
                  IsLast(id, i)' => inbox'[i].value.traded = live[id].traded
            BY <1>3, <1>11, <1>14 DEF TracedOf
        <3>2. id \in DOMAIN live /\ News(id)' = {} => u.traded = live[id].traded
            BY <1>2, <1>12, <1>14 DEF TracedOf
        <3>3. QED
            BY <1>1, <1>5, <1>7, <3>1, <3>2
    <2>5. ASSUME NEW j \in News(id)', inbox'[j].value.status = "CANCELED"
          PROVE  \/ \E i \in News(id)' : /\ i < j
                                         /\ inbox'[i].value.traded = inbox'[j].value.traded
                 \/ Known(id)' /\ orders'[id].traded = inbox'[j].value.traded
        <3>1. j \in Nat /\ j + 1 \in News(id) /\ inbox'[j] = inbox[j + 1]
            BY <1>3
        <3>2. Known(id)' /\ orders'[id].traded = u.traded
            BY <1>5, <1>7, <1>10, <2>5
        <3>3. CASE Known(id) /\ orders[id].traded = inbox[j + 1].value.traded
            <4>1. orders[id].traded <= u.traded /\ u.traded <= inbox'[j].value.traded
                BY <1>2, <1>14, <2>2, <3>3 DEF TracedOf
            <4>2. inbox[j + 1].value.traded \in Nat
                BY <1>2, <3>1, DueFacts
            <4>3. u.traded = inbox'[j].value.traded
                BY <1>8, <3>1, <3>3, <4>1, <4>2
            <4>4. QED
                BY <3>2, <4>3
        <3>4. ASSUME NEW i \in News(id), i < j + 1,
                     inbox[i].value.traded = inbox[j + 1].value.traded
              PROVE  \/ \E k \in News(id)' : /\ k < j
                                             /\ inbox'[k].value.traded = inbox'[j].value.traded
                     \/ Known(id)' /\ orders'[id].traded = inbox'[j].value.traded
            <4>1. CASE i = 1
                BY <1>2, <3>1, <3>2, <3>4, <4>1
            <4>2. CASE i # 1
                <5>1. i - 1 \in News(id)' /\ inbox'[i - 1] = inbox[i] /\ i \in Nat
                    BY <1>3, <3>4, <4>2
                <5>2. i - 1 < j
                    BY <3>1, <3>4, <5>1
                <5>3. QED
                    BY <3>1, <3>4, <5>1, <5>2
            <4>3. QED
                BY <4>1, <4>2
        <3>5. \/ \E i \in News(id) : /\ i < j + 1
                                     /\ inbox[i].value.traded = inbox[j + 1].value.traded
              \/ Known(id) /\ orders[id].traded = inbox[j + 1].value.traded
            BY <1>14, <2>5, <3>1 DEF TracedOf
        <3>6. QED
            BY <3>3, <3>4, <3>5
    <2>6. QED
        BY <2>1, <2>3, <2>4, <2>5 DEF TracedOf
<1>17. \A i \in DOMAIN orders' : CreateAsked(i)' => orders'[i].traded = 0
    <2>1. \A i : CreateAsked(i)' <=> CreateAsked(i)
        BY <1>1, SameOut DEF CreateAsked
    <2>2. ~CreateAsked(id)
        <3>1. seen[id] \in Nat /\ seen[id] >= 1
            <4>1. /\ 1 <= inbox[1].value.response /\ inbox[1].value.response <= seen[id]
                  /\ inbox[1].value.response \in Nat /\ seen[id] \in Nat
                BY <1>2, Numbers DEF Inv, PathsInv, VersionsInv
            <4>2. QED
                BY <4>1
        <3>2. ASSUME NEW k \in Asked(id) PROVE out[k].type # "CREATE"
            <4>1. k \in DOMAIN out /\ out[k].id = id
                BY DEF Asked
            <4>2. out[k].version > seen[id] /\ (out[k].type = "CREATE" <=> out[k].version = 1)
                BY <4>1 DEF Inv, PathsInv, VersionsInv
            <4>3. QED
                BY <3>1, <4>2
        <3>3. QED
            BY <3>2 DEF CreateAsked
    <2>3. QED
        BY <1>5, <2>1, <2>2 DEF CountsInv, TradedInv
<1>18. CountsInv'
    <2>1. \A i \in Ids : TracedOf(i)'
        BY <1>15, <1>16
    <2>2. \A i \in Ids : Known(i)' => Known(i) \/ 1 \in News(i)
        BY <1>2, <1>5, <1>6, <1>7
    <2>3. DOMAIN live' \subseteq Ids
        BY <1>1 DEF Inv, PathsInv, XTypes
    <2>4. QED
        BY <1>1, <1>17, <2>1, <2>2, <2>3, LeftCounts
<1>19. PICK c \in Int, b \in Int :
           /\ c = Signed(u.side, u.traded - base) /\ b = -c
           /\ u.traded - base = 0 => c = 0
    <2>1. /\ Signed(u.side, u.traded - base) \in Int
          /\ u.traded - base = 0 => Signed(u.side, u.traded - base) = 0
        BY <1>8, SignedFacts
    <2> DEFINE gain == Signed(u.side, u.traded - base)
    <2> HIDE DEF gain
    <2>2. gain \in Int /\ -gain \in Int
        BY <2>1 DEF gain
    <2>3. QED
        BY <2>1, <2>2 DEF gain
<1>20. ASSUME NEW d \in Int, Due(id, d) PROVE Due(id, d + b)'
    <2>1. CASE News(id)' = {}
        <3>1. d = c
            BY <1>2, <1>12, <1>13, <1>19, <1>20, <2>1 DEF Due, base
        <3>2. d + b = 0
            BY <1>19, <3>1
        <3>3. QED
            BY <2>1, <3>2 DEF Due
    <2>2. CASE News(id)' # {}
        <3>1. Known(id)' /\ orders'[id].traded = u.traded
            BY <1>2, <1>5, <1>7, <1>10, <2>2
        <3>2. ASSUME NEW i \in News(id)', NEW j \in News(id)', IsFirst(id, i)', IsLast(id, j)'
              PROVE  d + b = Signed(inbox'[j].value.side,
                                       inbox'[j].value.traded - Base(id, i)')
            <4>1. j + 1 \in News(id) /\ inbox'[j] = inbox[j + 1] /\ IsLast(id, j + 1)
                BY <1>3, <1>11, <3>2
            <4> DEFINE t == inbox[j + 1].value.traded
            <4>2. t \in Nat /\ inbox[j + 1].value.side = u.side
                BY <1>2, <4>1, DueFacts DEF AnswersInv, SidesInv
            <4>3. d = Signed(u.side, t - base)
                BY <1>2, <1>13, <1>20, <4>1, <4>2 DEF Due, base
            <4>4. Base(id, i)' = u.traded
                BY <3>1 DEF Base
            <4> HIDE DEF t
            <4>5. (t - u.traded) + (u.traded - base) = t - base
                BY <1>8, <4>2
            <4>6. Signed(u.side, t - u.traded) + c = d
                <5>1. t - u.traded \in Int /\ u.traded - base \in Int
                    BY <1>8, <4>2
                <5>2. QED
                    BY <1>19, <4>3, <4>5, <5>1, SignedAdds
            <4>7. Signed(u.side, t - u.traded) \in Int
                BY <1>8, <4>2, SignedFacts
            <4>8. d + b = Signed(u.side, t - u.traded)
                BY <1>19, <1>20, <4>6, <4>7
            <4>9. QED
                BY <4>1, <4>2, <4>4, <4>8 DEF t
        <3>3. QED
            BY <2>2, <3>2 DEF Due
    <2>3. QED
        BY <2>1, <2>2
<1>21. Ends # {} => u.traded - base = 0
    <2>1. ASSUME NEW e \in Ends PROVE ~Known(id)
        <3>1. 1 < e
            BY <1>3, <1>4, <2>1
        <3>2. QED
            BY <1>2, <2>1, <3>1 DEF CountsInv, OnceInv
    <2>2. ~Known(id) => base = u.traded
        BY <1>2 DEF Base, base
    <2>3. QED
        BY <1>8, <2>1, <2>2
<1>22. ASSUME NEW x \in Int, Start(x) PROVE Start(x + c)'
    <2>1. Ends = {} <=> Ends' = {}
        BY <1>3, <1>4
    <2>2. CASE Ends = {}
        BY <1>1, <1>9, <1>19, <1>22, <2>1, <2>2 DEF Start
    <2>3. CASE Ends # {}
        <3>1. x + c = x
            BY <1>19, <1>21, <2>3
        <3>2. Start(x)'
            BY <1>1, <1>3, <1>4, <1>22, <2>1, <2>3 DEF Start
        <3>3. QED
            BY <3>1, <3>2
    <2>4. QED
        BY <2>2, <2>3
<1>23. position' = position + (c + b)
    BY <1>1, <1>19, LotsFacts
<1>24. ASSUME Promise PROVE Promise'
    BY <1>2, <1>15, <1>19, <1>20, <1>22, <1>23, <1>24, PromiseMoves
<1>25. QED
    BY <1>18, <1>24
-----------------------------------------------------------------------------
LEMMA HoldsInit == XInit => HoldsInv
<1> SUFFICES ASSUME XInit PROVE HoldsInv
    OBVIOUS
<1>1. DOMAIN orders = {} /\ DOMAIN live = {} /\ DOMAIN inbox = {} /\ ~linked
    BY EmptyFacts DEF XInit, Init
<1>2. Begins = {} /\ Ends = {} /\ \A id : News(id) = {}
    BY <1>1 DEF Begins, Ends, News
<1>3. CountsInv
    BY <1>1, <1>2 DEF CountsInv, OnceInv, TradedInv, CanceledInv
<1>4. PositionInv
    BY <1>1 DEF PositionInv
<1>5. QED
    BY <1>3, <1>4, AgreementInit DEF HoldsInv

LEMMA HoldsStep ==
    ASSUME HoldsInv, ~EraseOnNotReady, BookAtStart, ~Conflates,
           DownloadTells = "nothing", [XNext]_vars
    PROVE  HoldsInv'
<1>1. AgreementInv' /\ Inv /\ KnownInv /\ AnswersInv /\ CountsInv
    BY AgreementStep DEF HoldsInv, AgreementInv
<1>2. Accounted
    BY <1>1, PositionShapes
<1>3. CASE CountsNothing
    <2> USE <1>3 DEF CountsNothing
    <2>1. CASE Still
        <3>1. linked' = linked
            BY <2>1 DEF Still
        <3>2. QED
            BY <1>1, <2>1, <3>1, StillCounts DEF HoldsInv, PositionInv
    <2>2. ASSUME NEW id, NEW o, NEW r, Amending(id, o, r) \/ Creating(id, o, r)
          PROVE  HoldsInv'
        <3>1. linked' = linked
            BY <2>2 DEF Amending, Creating
        <3>2. QED
            BY <1>1, <2>2, <3>1, AmendingCounts, CreatingCounts DEF HoldsInv, PositionInv
    <2>3. ASSUME NEW r, NEW x, NEW e, Accepting(r, x, e) PROVE HoldsInv'
        <3>1. linked' = linked
            BY <2>3 DEF Accepting, Taking
        <3>2. QED
            BY <1>1, <2>3, <3>1, AcceptingCounts DEF HoldsInv, PositionInv
    <2>4. ASSUME NEW r, NEW a, Refusing(r, a) PROVE HoldsInv'
        <3>1. linked' = linked
            BY <2>4 DEF Refusing, Taking
        <3>2. QED
            BY <1>1, <2>4, <3>1, RefusingCounts DEF HoldsInv, PositionInv
    <2>5. ASSUME NEW id, NEW x, NEW e, Moving(id, x, e) PROVE HoldsInv'
        <3>1. linked' = linked
            BY <2>5 DEF Moving
        <3>2. QED
            BY <1>1, <2>5, <3>1, MovingCounts DEF HoldsInv, PositionInv
    <2>6. ASSUME NEW e, Announcing(e) PROVE HoldsInv'
        <3>1. linked' = linked
            BY <2>6 DEF Announcing
        <3>2. QED
            BY <1>1, <2>6, <3>1, AnnouncingCounts DEF HoldsInv, PositionInv
    <2>7. CASE Joining
        BY <1>1, <2>7, JoiningCounts DEF HoldsInv, PositionInv
    <2>8. ASSUME NEW a, Answering(a) PROVE HoldsInv'
        <3>1. linked' = linked
            BY <2>8 DEF Answering
        <3>2. QED
            BY <1>1, <2>8, <3>1, AnsweringCounts DEF HoldsInv, PositionInv
    <2>9. QED
        BY <2>1, <2>2, <2>3, <2>4, <2>5, <2>6, <2>7, <2>8
<1>4. CASE Losing
    BY <1>1, <1>4, UnlinkedCounts DEF Losing, HoldsInv, PositionInv
<1>5. CASE Positions \/ Beginning \/ \E last : Concludes(last)
    <2>1. linked' = linked
        BY <1>5 DEF Positions, Passing, Beginning, Concludes, Ending
    <2>2. QED
        BY <1>1, <1>5, <2>1, PositionsCounts DEF HoldsInv, PositionInv
<1>6. ASSUME NEW u, Counts(u) PROVE HoldsInv'
    <2>1. linked' = linked
        BY <1>6 DEF Counts, Hearing
    <2>2. QED
        BY <1>1, <1>6, <2>1, HearingCounts DEF HoldsInv, PositionInv
<1>7. QED
    BY <1>2, <1>3, <1>4, <1>5, <1>6 DEF Accounted

(* Once every message has been handled, the position counted from fills is *)
(* the account's: no fill is lost or counted twice, whatever was refused,  *)
(* lost or raced before, if the gateway tells every fill before it tells   *)
(* of the cancellation of what remains, and nothing within a download that *)
(* happened after its position was taken.                                  *)
(* (manager.cpp order_fills, DownloadEnd)                                  *)
THEOREM PositionHolds ==
    ASSUME ~EraseOnNotReady, BookAtStart, ~Conflates, DownloadTells = "nothing"
    PROVE  XSpec => []PositionAgrees
<1>1. ASSUME HoldsInv, Quiet PROVE position_by_orders = position
    <2>1. Inv /\ Promise /\ inbox = <<>>
        BY <1>1 DEF HoldsInv, AgreementInv, PositionInv, Quiet
    <2>2. Ends = {} /\ \A id : News(id) = {}
        BY <2>1, EmptyFacts DEF Ends, News
    <2>3. PICK x \in Int, f \in [Ids -> Int] :
              Start(x) /\ (\A id \in Ids : Due(id, f[id])) /\ IsSum(f, position - x)
        BY <2>1 DEF Promise
    <2>4. \A id \in Ids : f[id] = 0
        BY <2>2, <2>3 DEF Due
    <2>5. x = position_by_orders
        BY <2>2, <2>3 DEF Start
    <2>6. position - x = 0
        BY <2>3, <2>4, SumOfZeros
    <2>7. position \in Int
        BY <2>1, LotsFacts
    <2>8. QED
        BY <2>3, <2>5, <2>6, <2>7
<1>2. HoldsInv => PositionAgrees
    BY <1>1 DEF PositionAgrees
<1>3. HoldsInv /\ [XNext]_vars => HoldsInv'
    BY HoldsStep
<1>4. QED
    BY <1>2, <1>3, HoldsInit, PTL DEF XSpec
-----------------------------------------------------------------------------
(* New orders fit into their levels.                                       *)

(* What is told of an order while it works.                                *)
Working(id) == {i \in News(id) : inbox[i].value.status = "WORKING"}

(* Once the download has been received, every live order is in the book;   *)
(* before that, it is told of ahead of the end of the download.            *)
HeldInv ==
    linked => \A id \in DOMAIN live :
                 \/ Begins = {} /\ id \in DOMAIN orders
                 \/ \E i \in News(id), j \in Ends : i < j

(* No order is told twice to work: the fills that are told are whole.      *)
ToldOnce == \A id \in Ids : \A i, j \in Working(id) : i = j

(* A request is on its way, or refused, or accepted, or none is: then the  *)
(* order waits for nothing.                                                *)
OneUnderWay(id) ==
    /\ \A k, l \in Asked(id) : k = l
    /\ \A k, l \in Refused(id) : k = l
    /\ Asked(id) # {} => Refused(id) = {}
    /\ Asked(id) # {} \/ Refused(id) # {} => Working(id) = {}
    /\ Asked(id) # {} \/ Refused(id) # {} \/ Working(id) # {} => IsPending(orders[id])
    /\ \A k \in Asked(id) : /\ out[k].price = orders[id].pending.price
                           /\ out[k].side = orders[id].side

FlightInv == Fresh => \A id \in DOMAIN orders : OneUnderWay(id)

UnderWayInv == HeldInv /\ ToldOnce /\ FlightInv
-----------------------------------------------------------------------------
(* Each of the steps keeps to one request at a time.                       *)

LEMMA StillUnderWay ==
    ASSUME UnderWayInv, Still
    PROVE  UnderWayInv'
<1>1. /\ Begins' = Begins /\ Ends' = Ends /\ \A id : News(id)' = News(id)
      /\ \A id : Asked(id)' = Asked(id) /\ Refused(id)' = Refused(id)
      /\ UNCHANGED <<orders, out, live, inbox, linked>>
    BY SameInbox, SameOut DEF Still, Refused
<1>2. \A id : Working(id)' = Working(id)
    BY <1>1 DEF Working
<1>3. \A id : OneUnderWay(id)' <=> OneUnderWay(id)
    BY <1>1, <1>2 DEF OneUnderWay, IsPending
<1>4. QED
    BY <1>1, <1>2, <1>3 DEF UnderWayInv, HeldInv, ToldOnce, FlightInv, Fresh

LEMMA AmendingUnderWay ==
    ASSUME Inv, UnderWayInv, NEW id, NEW o, NEW r, Amending(id, o, r)
    PROVE  UnderWayInv'
<1> DEFINE n == Len(out) + 1
<1>1. /\ UNCHANGED <<live, inbox, acks, linked>>
      /\ Begins' = Begins /\ Ends' = Ends /\ \A i : News(i)' = News(i)
      /\ \A i : Refused(i)' = Refused(i)
      /\ id \in DOMAIN orders /\ Stored(orders, orders', id, o)
      /\ r.id = id /\ r.price = o.pending.price /\ r.side = o.side
      /\ ~IsPending(orders[id]) /\ IsPending(o)
    BY SameInbox DEF Amending, Refused
<1>2. /\ n \notin DOMAIN out
      /\ \A k \in DOMAIN out : out'[k] = out[k]
      /\ out'[n] = r
      /\ \A i : Asked(i)' = IF i = id THEN Asked(i) \cup {n} ELSE Asked(i)
    <2>1. OutGrows(r)
        BY OutGrowsFacts, Numbers DEF Amending
    <2>2. QED
        BY <1>1, <2>1 DEF OutGrows
<1>3. /\ DOMAIN orders' = DOMAIN orders
      /\ orders'[id] = o
      /\ \A i \in DOMAIN orders : i # id => orders'[i] = orders[i]
    BY <1>1 DEF Stored
<1>4. \A i : \A k \in Asked(i) : k \in DOMAIN out
    BY DEF Asked
<1>5. \A i : Working(i)' = Working(i)
    BY <1>1 DEF Working
<1> HIDE DEF n
<1>6. HeldInv' /\ ToldOnce'
    BY <1>1, <1>3, <1>5 DEF UnderWayInv, HeldInv, ToldOnce
<1>7. ASSUME NEW i \in DOMAIN orders, OneUnderWay(i) PROVE OneUnderWay(i)'
    <2>1. CASE i = id
        <3>1. Asked(id) = {} /\ Refused(id) = {} /\ Working(id) = {}
            BY <1>1, <1>7, <2>1 DEF OneUnderWay
        <3>2. Asked(id)' = {n} /\ Refused(id)' = {} /\ Working(id)' = {}
            BY <1>1, <1>2, <1>5, <3>1
        <3>3. QED
            BY <1>1, <1>2, <1>3, <2>1, <3>2 DEF OneUnderWay, IsPending
    <2>2. CASE i # id
        <3>1. /\ Asked(i)' = Asked(i) /\ Refused(i)' = Refused(i)
              /\ Working(i)' = Working(i) /\ orders'[i] = orders[i]
            BY <1>1, <1>2, <1>3, <1>5, <2>2
        <3>2. \A k \in Asked(i) : out'[k] = out[k]
            BY <1>2, <1>4
        <3>3. QED
            BY <1>7, <3>1, <3>2 DEF OneUnderWay, IsPending
    <2>3. QED
        BY <2>1, <2>2
<1>8. FlightInv'
    BY <1>1, <1>3, <1>7 DEF UnderWayInv, FlightInv, Fresh
<1>9. QED
    BY <1>6, <1>8 DEF UnderWayInv

LEMMA CreatingUnderWay ==
    ASSUME Inv, UnderWayInv, NEW id, NEW o, NEW r, Creating(id, o, r)
    PROVE  UnderWayInv'
<1> DEFINE n == Len(out) + 1
<1>1. /\ UNCHANGED <<live, inbox, acks, linked>>
      /\ Begins' = Begins /\ Ends' = Ends /\ \A i : News(i)' = News(i)
      /\ \A i : Refused(i)' = Refused(i)
      /\ id \notin DOMAIN orders /\ Stored(orders, orders', id, o)
      /\ id = max_order_id + 1 /\ id <= MaxOrderId
      /\ r.id = id /\ r.price = o.pending.price /\ r.side = o.side /\ IsPending(o)
    BY SameInbox DEF Creating, Refused
<1>2. /\ \A k \in DOMAIN out : out'[k] = out[k]
      /\ out'[n] = r
      /\ \A i : Asked(i)' = IF i = id THEN Asked(i) \cup {n} ELSE Asked(i)
    <2>1. OutGrows(r)
        BY OutGrowsFacts, Numbers DEF Creating
    <2>2. QED
        BY <1>1, <2>1 DEF OutGrows
<1>3. /\ DOMAIN orders' = DOMAIN orders \cup {id}
      /\ orders'[id] = o
      /\ \A i \in DOMAIN orders : i # id /\ orders'[i] = orders[i]
    BY <1>1 DEF Stored
<1>4. \A i : \A k \in Asked(i) : k \in DOMAIN out
    BY DEF Asked
<1>5. \A i : Working(i)' = Working(i)
    BY <1>1 DEF Working
<1>6. Working(id) = {} /\ Asked(id) = {} /\ Refused(id) = {}
    <2>1. /\ \A i \in Ids : seen[i] > 0 => i <= max_order_id
          /\ \A k \in DOMAIN out : out[k].id <= max_order_id
        BY OpenFacts DEF Creating, Inv, PathsInv, IdsInv
    <2>2. max_order_id \in Nat /\ MaxOrderId \in Nat
        BY Numbers
    <2>3. id \in Ids /\ ~(id <= max_order_id)
        BY <1>1, <2>2 DEF Ids
    <2>4. seen[id] = 0
        BY <2>1, <2>3, Numbers
    <2>5. Asked(id) = {}
        BY <2>1, <2>3 DEF Asked
    <2>6. News(id) = {} /\ \A k \in DOMAIN acks : acks[k].id # id
        BY <2>3, <2>4, UnseenFacts
    <2>7. QED
        BY <2>5, <2>6 DEF Working, Refused
<1> HIDE DEF n
<1>7. HeldInv' /\ ToldOnce'
    BY <1>1, <1>3, <1>5 DEF UnderWayInv, HeldInv, ToldOnce
<1>8. OneUnderWay(id)'
    <2>1. Asked(id)' = {n} /\ Refused(id)' = {} /\ Working(id)' = {}
        BY <1>1, <1>2, <1>5, <1>6
    <2>2. QED
        BY <1>1, <1>2, <1>3, <2>1 DEF OneUnderWay, IsPending
<1>9. ASSUME NEW i \in DOMAIN orders, OneUnderWay(i) PROVE OneUnderWay(i)'
    <2>1. /\ Asked(i)' = Asked(i) /\ Refused(i)' = Refused(i)
          /\ Working(i)' = Working(i) /\ orders'[i] = orders[i]
        BY <1>1, <1>2, <1>3, <1>5
    <2>2. \A k \in Asked(i) : out'[k] = out[k]
        BY <1>2, <1>4
    <2>3. QED
        BY <1>9, <2>1, <2>2 DEF OneUnderWay, IsPending
<1>10. FlightInv'
    BY <1>1, <1>3, <1>8, <1>9 DEF UnderWayInv, FlightInv, Fresh
<1>11. QED
    BY <1>7, <1>10 DEF UnderWayInv

(* The request that is taken was the order's only one.                     *)
LEMMA TakenUnderWay ==
    ASSUME Inv, UnderWayInv, NEW r, Taking(r)
    PROVE  /\ Fresh
           /\ \A i : \A k \in Asked(i)' : k + 1 \in Asked(i) /\ out'[k] = out[k + 1]
           /\ \A i : \A k, l \in Asked(i)' : k + 1 = l + 1 => k = l
           /\ r.id \in DOMAIN orders =>
                 /\ Asked(r.id) # {} /\ Asked(r.id)' = {}
                 /\ Refused(r.id) = {} /\ Working(r.id) = {}
                 /\ IsPending(orders[r.id])
           /\ r.type = "CREATE" \/ r.id \in DOMAIN live => r.id \in DOMAIN orders
<1>1. /\ linked /\ Begins = {}
      /\ 1 \in Asked(r.id) /\ r = out[1] /\ 1 \in DOMAIN out
      /\ \A k \in DOMAIN out' :
            k \in Nat \ {0} /\ k + 1 \in DOMAIN out /\ out'[k] = out[k + 1]
      /\ \A i : Asked(i)' = {k \in DOMAIN out' : k + 1 \in Asked(i)}
    BY TakenFacts
<1>2. Fresh
    BY <1>1 DEF Fresh
<1>3. \A i : \A k \in Asked(i)' :
          k \in Nat \ {0} /\ k + 1 \in Asked(i) /\ out'[k] = out[k + 1]
    BY <1>1
<1>4. ASSUME r.id \in DOMAIN orders
      PROVE  /\ Asked(r.id) # {} /\ Asked(r.id)' = {}
             /\ Refused(r.id) = {} /\ Working(r.id) = {}
             /\ IsPending(orders[r.id])
    <2>1. OneUnderWay(r.id)
        BY <1>2, <1>4 DEF UnderWayInv, FlightInv
    <2>2. ASSUME NEW k \in Asked(r.id)' PROVE FALSE
        <3>1. k + 1 = 1
            BY <1>1, <1>3, <2>1 DEF OneUnderWay
        <3>2. QED
            BY <1>3, <3>1
    <2>3. QED
        BY <1>1, <2>1, <2>2 DEF OneUnderWay
<1>5. r.type = "CREATE" \/ r.id \in DOMAIN live => r.id \in DOMAIN orders
    BY <1>1 DEF Inv, PathsInv, ForgottenInv
<1>6. QED
    BY <1>2, <1>3, <1>4, <1>5

(* Nothing has been asked of the other orders that was not before.         *)
LEMMA OthersUnderWay ==
    ASSUME Inv, UnderWayInv, NEW r, Taking(r), NEW i \in DOMAIN orders, i # r.id,
           Working(i)' = Working(i), Refused(i)' = Refused(i)
    PROVE  OneUnderWay(i)'
<1>1. OneUnderWay(i)
    BY TakenUnderWay DEF UnderWayInv, FlightInv
<1>2. /\ \A k \in Asked(i)' : k + 1 \in Asked(i) /\ out'[k] = out[k + 1]
      /\ \A k, l \in Asked(i)' : k + 1 = l + 1 => k = l
    BY TakenUnderWay
<1>3. UNCHANGED orders
    BY DEF Taking
<1>4. \A k, l \in Asked(i)' : k = l
    BY <1>1, <1>2 DEF OneUnderWay
<1>5. Asked(i)' # {} => Asked(i) # {}
    BY <1>2
<1>6. IsPending(orders'[i]) <=> IsPending(orders[i])
    BY <1>3
<1>7. QED
    BY <1>1, <1>2, <1>3, <1>4, <1>5, <1>6 DEF OneUnderWay

LEMMA AcceptingUnderWay ==
    ASSUME Inv, UnderWayInv, NEW r, NEW x, NEW e, Accepting(r, x, e)
    PROVE  UnderWayInv'
<1> DEFINE id == r.id
           m == Len(inbox) + 1
<1>1. /\ Taking(r) /\ UNCHANGED <<orders, acks, linked>>
      /\ NewsOf(e, id, x, r.version) /\ inbox' = Append(inbox, e)
      /\ \A i : Refused(i)' = Refused(i)
      /\ r.type = "CREATE" \/ id \in DOMAIN live
      /\ DOMAIN live' \subseteq DOMAIN live \cup {id}
    BY DEF Accepting, Taking, Refused, Stored, Dropped
<1>2. /\ linked /\ Begins = {} /\ Ends = {} /\ id \in Ids
    BY <1>1, TakenFacts
<1>3. /\ \A i \in DOMAIN inbox : inbox'[i] = inbox[i]
      /\ inbox'[m] = e /\ Begins' = Begins /\ Ends' = Ends
      /\ \A i : News(i)' = IF i = id THEN News(i) \cup {m} ELSE News(i)
    BY <1>1, <1>2, ToldFacts
<1>4. /\ Fresh /\ id \in DOMAIN orders
      /\ Asked(id)' = {} /\ Refused(id) = {} /\ Working(id) = {}
      /\ IsPending(orders[id])
    BY <1>1, TakenUnderWay
<1>5. \A i : \A j \in News(i) : j \in DOMAIN inbox
    BY DEF News
<1>6. /\ \A i : i # id => Working(i)' = Working(i)
      /\ Working(id)' \subseteq {m}
    BY <1>3, <1>4, <1>5 DEF Working
<1> HIDE DEF m, id
<1>7. HeldInv'
    <2>1. \A i \in DOMAIN live : i \in DOMAIN orders
        BY <1>2 DEF UnderWayInv, HeldInv
    <2>2. QED
        BY <1>1, <1>2, <1>3, <1>4, <2>1 DEF HeldInv
<1>8. ToldOnce'
    BY <1>6 DEF UnderWayInv, ToldOnce
<1>9. OneUnderWay(id)'
    <2>1. IsPending(orders'[id]) /\ Refused(id)' = {}
        BY <1>1, <1>4
    <2>2. QED
        BY <1>4, <2>1 DEF OneUnderWay
<1>10. \A i \in DOMAIN orders : i # id => OneUnderWay(i)'
    BY <1>1, <1>6, OthersUnderWay DEF id
<1>11. FlightInv'
    BY <1>1, <1>9, <1>10 DEF FlightInv
<1>12. QED
    BY <1>7, <1>8, <1>11 DEF UnderWayInv

LEMMA RefusingUnderWay ==
    ASSUME Inv, UnderWayInv, NEW r, NEW a, Refusing(r, a)
    PROVE  UnderWayInv'
<1> DEFINE id == r.id
           n == Len(acks) + 1
<1>1. /\ Taking(r) /\ UNCHANGED <<orders, live, inbox, linked>>
      /\ Begins' = Begins /\ Ends' = Ends /\ \A i : News(i)' = News(i)
      /\ a.id = id
    BY SameInbox DEF Refusing, Taking
<1>2. \A i : Refused(i)' = IF id = i THEN Refused(i) \cup {n} ELSE Refused(i)
    <2>1. AcksGrow(a)
        BY Numbers, AcksGrowFacts DEF Refusing
    <2>2. QED
        BY <1>1, <2>1 DEF AcksGrow
<1>3. \A i : Working(i)' = Working(i)
    BY <1>1 DEF Working
<1>4. id \in DOMAIN orders => /\ Asked(id)' = {} /\ Refused(id) = {} /\ Working(id) = {}
                              /\ IsPending(orders[id])
    BY <1>1, TakenUnderWay
<1> HIDE DEF n, id
<1>5. HeldInv' /\ ToldOnce'
    BY <1>1, <1>3 DEF UnderWayInv, HeldInv, ToldOnce
<1>6. id \in DOMAIN orders => OneUnderWay(id)'
    <2>1. ASSUME id \in DOMAIN orders
          PROVE  /\ Asked(id)' = {} /\ Refused(id)' = {n} /\ Working(id)' = {}
                 /\ IsPending(orders'[id])
        BY <1>1, <1>2, <1>3, <1>4, <2>1
    <2>2. QED
        BY <2>1 DEF OneUnderWay
<1>7. \A i \in DOMAIN orders : i # id => OneUnderWay(i)'
    BY <1>1, <1>2, <1>3, OthersUnderWay DEF id
<1>8. FlightInv'
    BY <1>1, <1>6, <1>7 DEF FlightInv
<1>9. QED
    BY <1>5, <1>8 DEF UnderWayInv

LEMMA MovingUnderWay ==
    ASSUME Inv, UnderWayInv, ~PartialFills, NEW id, NEW x, NEW e, Moving(id, x, e)
    PROVE  UnderWayInv'
<1>1. /\ UNCHANGED <<orders, out, acks, linked>>
      /\ id \in DOMAIN live /\ id \in Ids /\ IsFinal(e.value)
      /\ NewsOf(e, id, x, seen[id])
      /\ ~linked => inbox' = inbox
      /\ \A i : Asked(i)' = Asked(i) /\ Refused(i)' = Refused(i)
    BY SameOut DEF Moving, Slipped, Refused, Inv, PathsInv, XTypes
<1>2. DOMAIN live' \subseteq DOMAIN live
    BY DEF Moving, Stored, Dropped
<1>3. /\ Begins' = Begins
      /\ \A i : \A l \in News(i), j \in Ends : l < j =>
                    \E k \in Ends' : l \in News(i)' /\ l < k
      /\ \A i : Working(i)' = Working(i)
      /\ \A i : \A j \in Working(i) : inbox'[j] = inbox[j]
    <2>1. CASE ~linked
        <3>1. UNCHANGED inbox
            BY <1>1, <2>1
        <3>2. QED
            BY <3>1, SameInbox DEF Working
    <2>2. CASE linked
        <3>1. PICK m : ToldAt(m, id, e)
            BY <2>2, MovingTold
        <3>2. /\ m \in Nat /\ inbox'[m] = e /\ Begins' = Begins
              /\ \A i : News(i)' = IF i = id THEN News(i) \cup {m} ELSE News(i)
              /\ \A i : \A j \in News(i) : j \in Nat /\ inbox'[j] = inbox[j]
              /\ Ends \subseteq Nat /\ Ends' \subseteq Nat
              /\ \A i \in Ends : \E j \in Ends' : i <= j
            BY <3>1 DEF ToldAt
        <3>3. e.value.status # "WORKING"
            BY <1>1 DEF IsFinal
        <3>4. \A i : News(i) \subseteq News(i)' /\ Working(i)' = Working(i)
            BY <3>2, <3>3 DEF Working
        <3>5. ASSUME NEW i, NEW l \in News(i), NEW j \in Ends, l < j
              PROVE  \E k \in Ends' : l \in News(i)' /\ l < k
            <4>1. PICK k \in Ends' : j <= k
                BY <3>2
            <4>2. l < k
                BY <3>2, <3>5, <4>1
            <4>3. QED
                BY <3>4, <4>1, <4>2
        <3>6. QED
            BY <3>2, <3>4, <3>5 DEF Working
    <2>3. QED
        BY <2>1, <2>2
<1>4. HeldInv' /\ ToldOnce'
    <2>1. HeldInv'
        BY <1>1, <1>2, <1>3 DEF UnderWayInv, HeldInv
    <2>2. QED
        BY <1>3, <2>1 DEF UnderWayInv, ToldOnce
<1>5. \A i : OneUnderWay(i)' <=> OneUnderWay(i)
    BY <1>1, <1>3 DEF OneUnderWay, IsPending
<1>6. FlightInv'
    BY <1>1, <1>3, <1>5 DEF UnderWayInv, FlightInv, Fresh
<1>7. QED
    BY <1>4, <1>6 DEF UnderWayInv

LEMMA AnnouncingUnderWay ==
    ASSUME Inv, UnderWayInv, NEW e, Announcing(e)
    PROVE  UnderWayInv'
<1>1. /\ UNCHANGED <<orders, out, live, acks, linked>>
      /\ \A i : Asked(i)' = Asked(i) /\ Refused(i)' = Refused(i)
    BY SameOut DEF Announcing, Refused
<1>2. /\ \A i \in DOMAIN inbox : inbox'[i] = inbox[i]
      /\ Begins' = Begins /\ Ends' = Ends
      /\ \A i : News(i)' = News(i)
    <2>1. e \in Events /\ e.kind = "GatewayStatus"
        BY DEF Announcing, Events, Statuses
    <2>2. Grows(e)
        BY <2>1, GrowsFacts, Numbers DEF Announcing
    <2>3. QED
        BY <2>1, <2>2 DEF Grows
<1>3. \A i : Working(i)' = Working(i)
    <2>1. \A i : \A j \in News(i) : inbox'[j] = inbox[j]
        BY <1>2 DEF News
    <2>2. QED
        BY <1>2, <2>1 DEF Working
<1>4. HeldInv' /\ ToldOnce'
    BY <1>1, <1>2, <1>3 DEF UnderWayInv, HeldInv, ToldOnce
<1>5. \A i : OneUnderWay(i)' <=> OneUnderWay(i)
    BY <1>1, <1>3 DEF OneUnderWay, IsPending
<1>6. FlightInv'
    BY <1>1, <1>2, <1>5 DEF UnderWayInv, FlightInv, Fresh
<1>7. QED
    BY <1>4, <1>6 DEF UnderWayInv

LEMMA LosingUnderWay ==
    ASSUME Losing
    PROVE  UnderWayInv'
<1>1. ~linked' /\ \A i : News(i)' = {}
    BY NothingFacts DEF Losing
<1>2. QED
    BY <1>1 DEF UnderWayInv, HeldInv, ToldOnce, FlightInv, Fresh, Working

LEMMA JoiningUnderWay ==
    ASSUME Joining
    PROVE  UnderWayInv'
<1>1. /\ UNCHANGED live /\ ~Fresh'
      /\ \A id : \A i, j \in News(id)' : i = j
      /\ \A id \in DOMAIN live : News(id)' # {}
    BY DEF Joining, Downloads, Fresh
<1>2. PICK last \in Nat : Ends' = {last} /\ DOMAIN inbox' = 1..last
    BY DEF Joining, Downloads
<1>3. \A id : \A i \in News(id)' : i < last
    <2>1. inbox'[last].kind = "DownloadEnd"
        BY <1>2 DEF Ends
    <2>2. \A id : \A i \in News(id)' : i \in 1..last /\ inbox'[i].kind = "OrderUpdate"
        BY <1>2 DEF News
    <2>3. QED
        BY <2>1, <2>2
<1>4. HeldInv'
    <2>1. ASSUME NEW id \in DOMAIN live PROVE \E i \in News(id)', j \in Ends' : i < j
        <3>1. PICK i \in News(id)' : TRUE
            BY <1>1
        <3>2. i < last /\ last \in Ends'
            BY <1>2, <1>3
        <3>3. QED
            BY <3>2
    <2>2. QED
        BY <1>1, <2>1 DEF HeldInv
<1>5. ToldOnce' /\ FlightInv'
    BY <1>1 DEF ToldOnce, Working, FlightInv
<1>6. QED
    BY <1>4, <1>5 DEF UnderWayInv

(* An event has been taken from the head of the inbox.                     *)
LEMMA ShiftedUnderWay ==
    ASSUME Inv, UnderWayInv, inbox # <<>>, inbox' = Tail(inbox),
           UNCHANGED <<out, live, acks, linked>>
    PROVE  /\ ToldOnce'
           /\ linked /\ Begins' = {}
           /\ \A i : Asked(i)' = Asked(i) /\ Refused(i)' = Refused(i)
           /\ \A i : Working(i)' # {} => Working(i) # {}
           /\ \A i \in DOMAIN live :
                 \/ \E j \in News(i)', k \in Ends' : j < k
                 \/ 1 \in News(i)
                 \/ Begins = {} /\ i \in DOMAIN orders
<1>1. /\ linked /\ Begins' = {}
      /\ \A id : \A i \in News(id)' :
            i \in Nat \ {0} /\ i + 1 \in News(id) /\ inbox'[i] = inbox[i + 1]
      /\ \A id : \A i \in News(id) : i # 1 => i - 1 \in News(id)'
      /\ \A i \in Ends : i # 1 => i - 1 \in Ends'
    BY ShiftedFacts
<1>2. \A i : Asked(i)' = Asked(i) /\ Refused(i)' = Refused(i)
    BY SameOut DEF Refused
<1>3. \A i : \A j \in Working(i)' : j \in Nat /\ j + 1 \in Working(i)
    BY <1>1 DEF Working
<1>4. ToldOnce'
    <2>1. ASSUME NEW i \in Ids, NEW j \in Working(i)', NEW k \in Working(i)'
          PROVE  j = k
        <3>1. j \in Nat /\ k \in Nat /\ j + 1 = k + 1
            BY <1>3 DEF UnderWayInv, ToldOnce
        <3>2. QED
            BY <3>1
    <2>2. QED
        BY <2>1 DEF ToldOnce
<1>5. ASSUME NEW i \in DOMAIN live
      PROVE  \/ \E j \in News(i)', k \in Ends' : j < k
             \/ 1 \in News(i)
             \/ Begins = {} /\ i \in DOMAIN orders
    <2>1. CASE Begins = {} /\ i \in DOMAIN orders
        BY <2>1
    <2>2. ASSUME NEW j \in News(i), NEW k \in Ends, j < k, j # 1
          PROVE  \E m \in News(i)', l \in Ends' : m < l
        <3>1. j \in Nat \ {0} /\ k \in Nat \ {0}
            BY Numbers DEF News, Ends
        <3>2. k # 1 /\ j - 1 < k - 1
            BY <2>2, <3>1
        <3>3. j - 1 \in News(i)' /\ k - 1 \in Ends'
            BY <1>1, <2>2, <3>2
        <3>4. QED
            BY <3>2, <3>3
    <2>3. QED
        BY <1>1, <2>1, <2>2 DEF UnderWayInv, HeldInv
<1>6. QED
    BY <1>1, <1>2, <1>3, <1>4, <1>5

LEMMA PassingUnderWay ==
    ASSUME Inv, UnderWayInv, Passing \/ Beginning \/ \E last : Ending(last)
    PROVE  UnderWayInv'
<1>1. /\ inbox # <<>> /\ inbox' = Tail(inbox)
      /\ Head(inbox).kind # "OrderUpdate"
      /\ UNCHANGED <<out, live, seen, acks, linked>>
      /\ \/ orders' = orders /\ Head(inbox).kind # "DownloadBegin"
         \/ orders' = <<>> /\ Head(inbox).kind = "DownloadBegin"
    BY DEF Passing, Beginning, Ending
<1>2. /\ Head(inbox).kind # "DownloadBegin" => Begins = {}
      /\ 1 \in DOMAIN inbox /\ Head(inbox) = inbox[1]
    BY <1>1, ShiftedFacts
<1>3. /\ ToldOnce'
      /\ linked /\ Begins' = {}
      /\ \A i : Asked(i)' = Asked(i) /\ Refused(i)' = Refused(i)
      /\ \A i : Working(i)' # {} => Working(i) # {}
      /\ \A i \in DOMAIN live :
            \/ \E j \in News(i)', k \in Ends' : j < k
            \/ 1 \in News(i)
            \/ Begins = {} /\ i \in DOMAIN orders
    BY <1>1, ShiftedUnderWay
<1>4. \A i : 1 \notin News(i)
    BY <1>1, <1>2 DEF News
<1>5. CASE orders' = orders /\ Begins = {}
    <2>1. HeldInv'
        BY <1>1, <1>3, <1>4, <1>5 DEF HeldInv
    <2>2. \A i \in DOMAIN orders : OneUnderWay(i) => OneUnderWay(i)'
        BY <1>1, <1>3, <1>5 DEF OneUnderWay, IsPending
    <2>3. FlightInv'
        BY <1>3, <1>5, <2>2 DEF UnderWayInv, FlightInv, Fresh
    <2>4. QED
        BY <1>3, <2>1, <2>3 DEF UnderWayInv
<1>6. CASE orders' = <<>> /\ Begins # {}
    <2>1. HeldInv'
        BY <1>1, <1>3, <1>4, <1>6 DEF HeldInv
    <2>2. FlightInv'
        BY <1>6, EmptyFacts DEF FlightInv
    <2>3. QED
        BY <1>3, <2>1, <2>2 DEF UnderWayInv
<1>7. Head(inbox).kind = "DownloadBegin" => Begins # {}
    BY <1>2 DEF Begins
<1>8. QED
    BY <1>1, <1>2, <1>5, <1>6, <1>7

LEMMA HearingUnderWay ==
    ASSUME Inv, KnownInv, UnderWayInv, NEW u, Hearing(u)
    PROVE  UnderWayInv'
<1> DEFINE id == u.id
<1>1. /\ inbox # <<>> /\ inbox' = Tail(inbox)
      /\ UNCHANGED <<out, live, seen, acks, linked>>
      /\ Head(inbox).kind = "OrderUpdate" /\ u = Head(inbox).value
    BY DEF Hearing
<1>2. /\ ToldOnce'
      /\ linked /\ Begins' = {}
      /\ \A i : Asked(i)' = Asked(i) /\ Refused(i)' = Refused(i)
      /\ \A i : Working(i)' # {} => Working(i) # {}
      /\ \A i \in DOMAIN live :
            \/ \E j \in News(i)', k \in Ends' : j < k
            \/ 1 \in News(i)
            \/ Begins = {} /\ i \in DOMAIN orders
    BY <1>1, ShiftedUnderWay
<1>3. /\ Begins = {} /\ u = inbox[1].value
      /\ 1 \in News(id) /\ id \in Ids
      /\ u.status \in {"WORKING", "COMPLETED", "CANCELED"}
    <2>1. Begins = {} /\ 1 \in DOMAIN inbox /\ Head(inbox) = inbox[1]
        BY <1>1, ShiftedFacts
    <2>2. QED
        BY <1>1, <2>1, UpdateFacts
<1>4. \A i : 1 \in News(i) => i = id
    BY <1>3 DEF News
<1>5. \/ /\ u.status = "WORKING" /\ id \notin DOMAIN orders
         /\ Stored(orders, orders', id, Reported(u))
      \/ /\ u.status = "WORKING" /\ id \in DOMAIN orders
         /\ Stored(orders, orders', id, Confirmed(orders[id], u))
      \/ IsFinal(u) /\ Dropped(orders, orders', id)
    BY <1>2, <1>3 DEF Hearing, KnownInv, IsFinal
<1>6. /\ \A i \in DOMAIN orders : i # id => i \in DOMAIN orders'
      /\ \A i \in DOMAIN orders' : i # id => i \in DOMAIN orders /\ orders'[i] = orders[i]
      /\ id \in DOMAIN orders' => u.status = "WORKING"
      /\ id \notin DOMAIN orders' => IsFinal(u)
    BY <1>5, Zenon DEF Stored, Dropped
<1>7. id \in DOMAIN live => ~IsFinal(u)
    BY <1>3 DEF Inv, PathsInv, FinalInv
<1>8. u.status = "WORKING" =>
          Asked(id) = {} /\ Refused(id) = {} /\ Working(id)' = {}
    <2>1. SUFFICES ASSUME u.status = "WORKING"
                   PROVE  Asked(id) = {} /\ Refused(id) = {} /\ Working(id)' = {}
        OBVIOUS
    <2>2. 1 \in Working(id)
        BY <1>3, <2>1 DEF Working
    <2>3. Asked(id) = {} /\ Refused(id) = {}
        <3>1. CASE id \in DOMAIN orders
            <4>1. OneUnderWay(id)
                BY <1>2, <1>3, <3>1 DEF UnderWayInv, FlightInv, Fresh
            <4>2. QED
                BY <2>2, <4>1 DEF OneUnderWay
        <3>2. CASE id \notin DOMAIN orders
            <4>1. Asked(id) = {}
                BY <1>3, <2>1, <3>2 DEF Inv, PathsInv, ForgottenInv
            <4>2. Refused(id) = {}
                BY <1>3, <3>2 DEF Inv, PathsInv, ForgottenInv, Refused
            <4>3. QED
                BY <4>1, <4>2
        <3>3. QED
            BY <3>1, <3>2
    <2>4. ASSUME NEW j \in Working(id)' PROVE FALSE
        <3>1. j \in Nat \ {0} /\ j + 1 \in Working(id)
            BY <1>1, ShiftedFacts DEF Working
        <3>2. j + 1 = 1
            BY <1>3, <2>2, <3>1 DEF UnderWayInv, ToldOnce
        <3>3. QED
            BY <3>1, <3>2
    <2>5. QED
        BY <2>3, <2>4
<1> HIDE DEF id
<1>9. HeldInv'
    BY <1>1, <1>2, <1>3, <1>4, <1>6, <1>7 DEF HeldInv
<1>10. ASSUME NEW i \in DOMAIN orders' PROVE OneUnderWay(i)'
    <2>1. CASE i = id
        BY <1>2, <1>6, <1>8, <2>1 DEF OneUnderWay
    <2>2. CASE i # id
        <3>1. i \in DOMAIN orders /\ orders'[i] = orders[i]
            BY <1>6, <2>2
        <3>2. OneUnderWay(i)
            BY <1>2, <1>3, <3>1 DEF UnderWayInv, FlightInv, Fresh
        <3>3. QED
            BY <1>1, <1>2, <3>1, <3>2 DEF OneUnderWay, IsPending
    <2>3. QED
        BY <2>1, <2>2
<1>11. FlightInv'
    BY <1>10 DEF FlightInv
<1>12. QED
    BY <1>2, <1>9, <1>11 DEF UnderWayInv

LEMMA AnsweringUnderWay ==
    ASSUME Inv, UnderWayInv, NEW a, Answering(a)
    PROVE  UnderWayInv'
<1> DEFINE id == a.id
<1>1. /\ acks # <<>> /\ acks' = Tail(acks) /\ a = Head(acks)
      /\ UNCHANGED <<out, live, inbox, linked>>
      /\ Begins' = Begins /\ Ends' = Ends
      /\ \A i : News(i)' = News(i) /\ Asked(i)' = Asked(i)
    BY SameInbox, SameOut DEF Answering
<1>2. /\ 1 \in DOMAIN acks /\ acks[1] = a
      /\ \A k \in DOMAIN acks' : k \in Nat \ {0}
      /\ \A i : Refused(i)' = {k \in DOMAIN acks' : k + 1 \in Refused(i)}
    <2>1. AcksShrink
        BY <1>1, Numbers, AcksShrinkFacts
    <2>2. QED
        BY <1>1, <2>1 DEF AcksShrink
<1>3. \A i : Working(i)' = Working(i)
    BY <1>1 DEF Working
<1>4. /\ a.type = "CREATE" => id \notin DOMAIN live
      /\ 1 \in Refused(id)
    BY <1>2 DEF Inv, PathsInv, ForgottenInv, Refused
<1>5. /\ \A i \in DOMAIN orders : i # id => i \in DOMAIN orders'
      /\ \A i \in DOMAIN orders' : i # id => i \in DOMAIN orders /\ orders'[i] = orders[i]
      /\ id \in DOMAIN orders' => id \in DOMAIN orders
      /\ id \in DOMAIN orders /\ id \notin DOMAIN orders' => a.type = "CREATE"
    <2>1. CASE id \notin DOMAIN orders /\ UNCHANGED orders
        BY <2>1
    <2>2. CASE a.type = "CREATE" /\ Dropped(orders, orders', id)
        BY <2>2 DEF Dropped
    <2>3. ASSUME id \in DOMAIN orders, NEW o, Stored(orders, orders', id, o)
          PROVE  /\ DOMAIN orders' = DOMAIN orders
                 /\ \A i \in DOMAIN orders' : i # id => orders'[i] = orders[i]
        BY <2>3 DEF Stored
    <2>4. QED
        BY <2>1, <2>2, <2>3 DEF Answering
<1> HIDE DEF id
<1>6. HeldInv' /\ ToldOnce'
    BY <1>1, <1>3, <1>4, <1>5 DEF UnderWayInv, HeldInv, ToldOnce
<1>7. ASSUME NEW i \in DOMAIN orders', i \in DOMAIN orders, OneUnderWay(i)
      PROVE  OneUnderWay(i)'
    <2>1. \A k, l \in Refused(i)' : k = l
        <3>1. ASSUME NEW k \in Refused(i)', NEW l \in Refused(i)' PROVE k = l
            <4>1. k \in Nat /\ l \in Nat /\ k + 1 = l + 1
                BY <1>2, <1>7 DEF OneUnderWay
            <4>2. QED
                BY <4>1
        <3>2. QED
            BY <3>1
    <2>2. Refused(i)' # {} => Refused(i) # {}
        BY <1>2
    <2>3. CASE i # id
        BY <1>1, <1>3, <1>5, <1>7, <2>1, <2>2, <2>3 DEF OneUnderWay, IsPending
    <2>4. CASE i = id
        <3>1. Asked(id) = {} /\ Working(id) = {}
            BY <1>4, <1>7, <2>4 DEF OneUnderWay
        <3>2. ASSUME NEW k \in Refused(id)' PROVE FALSE
            <4>1. k \in Nat \ {0} /\ k + 1 \in Refused(id)
                BY <1>2
            <4>2. k + 1 = 1
                BY <1>4, <1>7, <2>4, <4>1 DEF OneUnderWay
            <4>3. QED
                BY <4>1, <4>2
        <3>3. QED
            BY <1>1, <1>3, <2>4, <3>1, <3>2 DEF OneUnderWay
    <2>5. QED
        BY <2>3, <2>4
<1>8. FlightInv'
    <2>1. \A i \in DOMAIN orders' : i \in DOMAIN orders
        BY <1>5
    <2>2. QED
        BY <1>1, <1>7, <2>1 DEF UnderWayInv, FlightInv, Fresh
<1>9. QED
    BY <1>6, <1>8 DEF UnderWayInv

LEMMA UnderWayInit == XInit => UnderWayInv
<1> SUFFICES ASSUME XInit PROVE UnderWayInv
    OBVIOUS
<1>1. ~linked /\ \A id : News(id) = {}
    BY EmptyFacts DEF XInit, News
<1>2. QED
    BY <1>1 DEF UnderWayInv, HeldInv, ToldOnce, FlightInv, Fresh, Working

LEMMA UnderWayStep ==
    ASSUME AgreementInv, UnderWayInv, ~EraseOnNotReady, ~PartialFills, [XNext]_vars
    PROVE  UnderWayInv'
<1>1. Inv /\ KnownInv
    BY DEF AgreementInv
<1>2. QED
    BY <1>1, Shapes, StillUnderWay, AmendingUnderWay, CreatingUnderWay, AcceptingUnderWay,
       RefusingUnderWay, MovingUnderWay, AnnouncingUnderWay, LosingUnderWay,
       JoiningUnderWay, PassingUnderWay, HearingUnderWay, AnsweringUnderWay DEF Happened
-----------------------------------------------------------------------------
(* On a side that orders are created on nothing waits for an answer but    *)
(* what has just been created, on other levels.                            *)
PlaceInv ==
    \A h \in holes : \A id \in DOMAIN orders :
        Waits(orders[id]) /\ orders[id].side = h[1] =>
           \E k \in Asked(id) : out[k].type = "CREATE" /\ orders[id].pending.price # h[2]

LEMMA NoHolesNoPlace == ASSUME holes' = {} PROVE PlaceInv'
    BY DEF PlaceInv

LEMMA CreatePlaces ==
    ASSUME TypeInv, PlaceInv, NEW s \in Sides, NEW p \in Prices, create_order(s, p)
    PROVE  PlaceInv'
<1> DEFINE id == max_order_id + 1
           o == Created(s, p)
           n == Len(out) + 1
           r == [type |-> o.pending.type, id |-> id, version |-> o.pending.version,
                 conditional |-> o.confirmed.version, side |-> o.side,
                 price |-> o.pending.price, quantity |-> o.pending.quantity]
<1>1. /\ id \notin DOMAIN orders
      /\ orders' = Put(orders, id, o)
      /\ holes' = holes \ {<<s, p>>}
      /\ Send(id, o)
    BY DEF create_order
<1>2. o.side = s /\ o.pending.price = p /\ o.pending.type = "CREATE"
    BY DEF Created
<1> HIDE DEF o
<1>3. /\ n \in DOMAIN out' /\ out'[n] = r /\ r.id = id /\ r.type = o.pending.type
      /\ \A k \in DOMAIN out : k \in DOMAIN out' /\ out'[k] = out[k]
    BY <1>1 DEF Send, TypeInv, TypeOK
<1> HIDE DEF n, r, id
<1>4. /\ \A i : i = id => n \in Asked(i)'
      /\ out'[n].type = "CREATE"
      /\ \A i : \A k \in Asked(i) : k \in Asked(i)'
      /\ \A i : \A k \in Asked(i) : out'[k] = out[k]
    <2>1. \A i : i = id => n \in Asked(i)'
        BY <1>3 DEF Asked
    <2>2. \A i : \A k \in Asked(i) : k \in Asked(i)' /\ out'[k] = out[k]
        BY <1>3 DEF Asked
    <2>3. QED
        BY <1>2, <1>3, <2>1, <2>2
<1>5. /\ DOMAIN orders' = DOMAIN orders \cup {id} /\ orders'[id] = o
      /\ \A i \in DOMAIN orders : orders'[i] = orders[i]
    BY <1>1 DEF Put
<1>6. ASSUME NEW h \in holes', NEW i \in DOMAIN orders',
             Waits(orders'[i]), orders'[i].side = h[1]
      PROVE  \E k \in Asked(i)' : out'[k].type = "CREATE" /\ orders'[i].pending.price # h[2]
    <2>1. h \in holes /\ h # <<s, p>> /\ h = <<h[1], h[2]>>
        BY <1>1, <1>6 DEF TypeInv, TypeOK
    <2>2. CASE i = id
        <3>1. orders'[i].side = s /\ orders'[i].pending.price = p
            BY <1>2, <1>5, <2>2
        <3>2. orders'[i].pending.price # h[2]
            BY <1>6, <2>1, <3>1
        <3>3. QED
            BY <1>4, <2>2, <3>2
    <2>3. CASE i # id
        BY <1>4, <1>5, <1>6, <2>1, <2>3 DEF PlaceInv
    <2>4. QED
        BY <2>2, <2>3
<1>7. QED
    BY <1>6 DEF PlaceInv, Waits, IsPending, IsOver

LEMMA PlaceStep ==
    ASSUME TypeInv, HolesInv, CountInv, PlaceInv, ManagerStep
    PROVE  PlaceInv'
<1> USE DEF bookVars, procVars
<1>1. CASE Process
    <2>1. CASE ProcessReturns \/ ProcessBegins \/ CountEnds \/ ProcessEnds
        <3>1. holes' = {}
            BY <2>1 DEF ProcessReturns, ProcessBegins, CountAgain, CountEnds, ProcessEnds,
                        HolesInv
        <3>2. QED
            BY <3>1, NoHolesNoPlace
    <2>2. CASE AdjustEnds
        <3>1. /\ UNCHANGED <<orders, out>>
              /\ phase = "adjust" /\ uncounted = {}
              /\ \A h \in holes' : pending[h[1]] = 0
            BY <2>2 DEF AdjustEnds, can_create, TypeInv, Counted
        <3>2. \A id \in DOMAIN orders : Waits(orders[id]) => pending[orders[id].side] > 0
            BY <3>1 DEF CountInv
        <3>3. QED
            BY <3>1, <3>2 DEF PlaceInv, Waits, IsPending, IsOver
    <2>3. ASSUME NEW id \in DOMAIN orders,
                 CountOrder(id) \/ modify_order(id) \/ cancel_order(id)
          PROVE  PlaceInv'
        <3>1. holes' = {}
            BY <2>3 DEF CountOrder, modify_order, cancel_order, Amend, CountAgain, HolesInv
        <3>2. QED
            BY <3>1, NoHolesNoPlace
    <2>4. ASSUME NEW s \in Sides, NEW p \in Prices, CreateAsserts(s, p)
          PROVE  PlaceInv'
        <3>1. UNCHANGED <<orders, out, holes>>
            BY <2>4 DEF CreateAsserts
        <3>2. QED
            BY <3>1, SameOut DEF PlaceInv, Waits, IsPending, IsOver
    <2>5. QED
        BY <1>1, <2>1, <2>2, <2>3, <2>4, CreatePlaces DEF Process
<1>2. CASE QuietStep \/ Init'
    <2>1. holes' = {}
        BY <1>2 DEF QuietStep, Init, HolesInv
    <2>2. QED
        BY <2>1, NoHolesNoPlace
<1>3. CASE UNCHANGED omsVars
    <2>1. UNCHANGED <<orders, out, holes>>
        BY <1>3 DEF omsVars
    <2>2. QED
        BY <2>1, SameOut DEF PlaceInv, Waits, IsPending, IsOver
<1>4. QED
    BY <1>1, <1>2, <1>3, Steps
-----------------------------------------------------------------------------
(* The sums of the counting loop miss nothing of the orders visited.       *)

Visited(s, p) == {id \in DOMAIN orders \ uncounted :
                     /\ ~IsOver(orders[id])
                     /\ orders[id].side = s /\ orders[id].expected.price = p}

Wanted == [id \in DOMAIN orders |-> orders[id].expected.quantity]

Covered(s, p) == SumUp(Wanted, Visited(s, p)) <= expected[s][p]

SumInv ==
    /\ phase \in {"count", "adjust"} => \A s \in Sides, p \in Prices : Covered(s, p)
    /\ \A h \in holes : Covered(h[1], h[2])

LEMMA WantedFacts ==
    ASSUME TypeInv, IsFiniteSet(DOMAIN orders), NEW s, NEW p
    PROVE  /\ Visited(s, p) \subseteq DOMAIN orders /\ IsFiniteSet(Visited(s, p))
           /\ \A id \in DOMAIN orders : Wanted[id] \in Nat
           /\ SumUp(Wanted, Visited(s, p)) \in Int
<1>1. Visited(s, p) \subseteq DOMAIN orders
    BY DEF Visited
<1>2. IsFiniteSet(Visited(s, p))
    BY <1>1, FS_Subset
<1>3. \A id \in DOMAIN orders : Wanted[id] \in Nat
    <2>1. \A id \in DOMAIN orders : orders[id].expected \in ExpectedState
        BY DEF TypeInv, TypeOK, Order
    <2>2. QED
        BY <2>1 DEF Wanted, ExpectedState
<1>4. PICK sum : /\ IsSumOver(Visited(s, p), [x \in Visited(s, p) |-> Wanted[x]], sum)
                 /\ SumUp(Wanted, Visited(s, p)) = sum[Visited(s, p)]
    BY <1>1, <1>2, <1>3, SumUpFacts
<1>5. sum[Visited(s, p)] \in Int
    BY <1>4, SumFacts
<1>6. QED
    BY <1>1, <1>2, <1>3, <1>4, <1>5

(* Nothing has been visited yet.                                           *)
LEMMA NothingVisited ==
    ASSUME TypeInv', uncounted' = DOMAIN orders', holes' = {}
    PROVE  SumInv'
<1>1. ASSUME NEW s \in Sides, NEW p \in Prices PROVE Covered(s, p)'
    <2>1. Visited(s, p)' = {}
        BY DEF Visited
    <2>2. SumUp(Wanted', Visited(s, p)') = 0
        BY <2>1, SumOfNone
    <2>3. expected'[s][p] \in Nat
        BY DEF TypeInv, TypeOK
    <2>4. QED
        BY <2>2, <2>3 DEF Covered
<1>2. QED
    BY <1>1 DEF SumInv

(* What has been visited stays, and so do the sums.                        *)
LEMMA StillCovered ==
    ASSUME TypeInv, IsFiniteSet(DOMAIN orders), NEW s \in Sides, NEW p \in Prices,
           Covered(s, p), UNCHANGED expected,
           Visited(s, p)' \subseteq Visited(s, p),
           \A id \in Visited(s, p) : id \in DOMAIN orders' /\ orders'[id] = orders[id]
    PROVE  Covered(s, p)'
<1> DEFINE S == Visited(s, p)
           T == Visited(s, p)'
           F == Wanted
           G == Wanted'
<1>1. /\ IsFiniteSet(S) /\ S \subseteq DOMAIN orders
      /\ \A x \in S : F[x] \in Nat
      /\ SumUp(F, S) \in Int
    BY WantedFacts
<1>2. T \subseteq S /\ \A x \in T : G[x] = F[x]
    BY <1>1 DEF Wanted
<1> HIDE DEF S, T, F, G
<1>3. SumUp(G, T) <= SumUp(F, S)
    <2>1. T \in SUBSET S /\ \A x \in T : G[x] \in Int /\ G[x] <= F[x]
        BY <1>1, <1>2
    <2>2. QED
        BY <1>1, <2>1, SumOrder
<1>4. SumUp(G, T) \in Int
    <2>1. IsFiniteSet(T) /\ \A x \in T : G[x] \in Int
        BY <1>1, <1>2, FS_Subset
    <2>2. PICK sum : IsSumOver(T, [x \in T |-> G[x]], sum) /\ SumUp(G, T) = sum[T]
        BY <2>1, SumUpFacts
    <2>3. QED
        BY <2>2, SumFacts
<1>5. expected[s][p] \in Nat
    BY DEF TypeInv, TypeOK
<1>6. SumUp(F, S) <= expected[s][p]
    BY DEF Covered, F, S
<1>7. SumUp(G, T) <= expected[s][p]
    BY <1>1, <1>3, <1>4, <1>5, <1>6
<1>8. QED
    BY <1>7 DEF Covered, G, T

(* The order visited is added to the sum of its level.                     *)
LEMMA VisitCovers ==
    ASSUME TypeInv, IsFiniteSet(DOMAIN orders), NEW id \in DOMAIN orders, CountOrder(id),
           NEW s \in Sides, NEW p \in Prices, Covered(s, p)
    PROVE  Covered(s, p)'
<1> DEFINE o == orders[id]
           S == Visited(s, p)
<1>1. /\ UNCHANGED orders /\ uncounted' = uncounted \ {id} /\ id \in uncounted
    BY DEF CountOrder, bookVars
<1>2. /\ IsFiniteSet(S) /\ S \subseteq DOMAIN orders
      /\ \A x \in DOMAIN orders : Wanted[x] \in Nat
      /\ SumUp(Wanted, S) \in Int
    BY WantedFacts
<1>3. Wanted' = Wanted /\ id \notin S /\ Wanted[id] = o.expected.quantity
    BY <1>1 DEF Wanted, Visited
<1>4. o.side \in Sides /\ o.expected.price \in Prices
    BY DEF TypeInv, TypeOK, PricedOrders, Priced, Order
<1>5. expected \in [Sides -> [Prices -> Nat]]
    BY DEF TypeInv, TypeOK
<1>6. SumUp(Wanted, S) <= expected[s][p] /\ expected[s][p] \in Nat
    BY <1>5 DEF Covered
<1>7. CASE ~IsOver(o) /\ o.side = s /\ o.expected.price = p
    <2>1. Visited(s, p)' = S \cup {id}
        BY <1>1, <1>7 DEF Visited, IsOver
    <2>2. expected'[s][p] = expected[s][p] + o.expected.quantity
        <3>1. expected' = [expected EXCEPT
                              ![o.side][o.expected.price] = @ + o.expected.quantity]
            BY <1>7 DEF CountOrder
        <3>2. QED
            BY <1>5, <1>7, <3>1
    <2> HIDE DEF S, o
    <2>3. SumUp(Wanted, S \cup {id}) = Wanted[id] + SumUp(Wanted, S)
        <3>1. \A x \in S \cup {id} : Wanted[x] \in Nat
            BY <1>2
        <3>2. QED
            BY <1>2, <1>3, <3>1, SumOfMore
    <2>4. Wanted[id] \in Nat
        BY <1>2
    <2>5. SumUp(Wanted, S \cup {id}) <= expected'[s][p]
        BY <1>2, <1>3, <1>6, <2>2, <2>3, <2>4
    <2>6. QED
        BY <1>3, <2>1, <2>5 DEF Covered
<1>8. CASE ~(~IsOver(o) /\ o.side = s /\ o.expected.price = p)
    <2>1. Visited(s, p)' = S
        BY <1>1, <1>8 DEF Visited, IsOver
    <2>2. expected'[s][p] = expected[s][p]
        <3>1. CASE IsOver(o)
            BY <3>1 DEF CountOrder
        <3>2. CASE ~IsOver(o)
            <4>1. expected' = [expected EXCEPT
                                  ![o.side][o.expected.price] = @ + o.expected.quantity]
                BY <3>2 DEF CountOrder
            <4>2. QED
                BY <1>4, <1>5, <1>8, <3>2, <4>1
        <3>3. QED
            BY <3>1, <3>2
    <2>3. QED
        BY <1>3, <1>6, <2>1, <2>2 DEF Covered
<1>9. QED
    BY <1>7, <1>8

LEMMA UnchangedCovers ==
    ASSUME UNCHANGED <<orders, uncounted, expected>>, NEW s, NEW p, Covered(s, p)
    PROVE  Covered(s, p)'
<1>1. Visited(s, p)' = Visited(s, p) /\ Wanted' = Wanted
    BY DEF Visited, Wanted, IsOver
<1>2. QED
    BY <1>1 DEF Covered

LEMMA CreateCovers ==
    ASSUME TypeInv, IsFiniteSet(DOMAIN orders), SumInv,
           NEW s \in Sides, NEW p \in Prices, create_order(s, p)
    PROVE  SumInv'
<1> DEFINE id == max_order_id + 1
           o == Created(s, p)
<1>1. /\ id \notin DOMAIN orders
      /\ orders' = Put(orders, id, o)
      /\ holes' = holes \ {<<s, p>>}
      /\ UNCHANGED <<expected, uncounted>>
      /\ phase' = "place"
    BY DEF create_order, NextHole
<1>2. o.side = s /\ o.expected.price = p
    BY DEF Created
<1> HIDE DEF id, o
<1>3. /\ DOMAIN orders' = DOMAIN orders \cup {id} /\ orders'[id] = o
      /\ \A i \in DOMAIN orders : orders'[i] = orders[i]
    BY <1>1 DEF Put
<1>4. ASSUME NEW h \in holes' PROVE Covered(h[1], h[2])'
    <2>1. /\ h \in holes /\ h # <<s, p>> /\ h = <<h[1], h[2]>>
          /\ h[1] \in Sides /\ h[2] \in Prices
        BY <1>1 DEF TypeInv, TypeOK
    <2>2. Visited(h[1], h[2])' \subseteq Visited(h[1], h[2])
        <3>1. ASSUME NEW i \in DOMAIN orders' \ uncounted', ~IsOver(orders'[i]),
                     orders'[i].side = h[1], orders'[i].expected.price = h[2]
              PROVE  /\ i \in DOMAIN orders \ uncounted /\ ~IsOver(orders[i])
                     /\ orders[i].side = h[1] /\ orders[i].expected.price = h[2]
            <4>1. i # id
                BY <1>2, <1>3, <2>1, <3>1
            <4>2. QED
                BY <1>1, <1>3, <3>1, <4>1
        <3>2. QED
            BY <3>1 DEF Visited, IsOver
    <2>3. \A i \in Visited(h[1], h[2]) : i \in DOMAIN orders' /\ orders'[i] = orders[i]
        BY <1>3 DEF Visited
    <2>4. Covered(h[1], h[2])
        BY <2>1 DEF SumInv
    <2>5. QED
        BY <1>1, <2>1, <2>2, <2>3, <2>4, StillCovered
<1>5. QED
    BY <1>1, <1>4 DEF SumInv

LEMMA SumStep ==
    ASSUME TypeInv, TypeInv', HolesInv, HolesInv', IsFiniteSet(DOMAIN orders), SumInv,
           ManagerStep
    PROVE  SumInv'
<1> USE DEF bookVars, procVars
<1>1. CASE phase' \notin {"count", "adjust"} /\ holes' = {}
    BY <1>1 DEF SumInv
<1>2. CASE Process
    <2>1. CASE ProcessReturns \/ ProcessEnds
        <3>1. phase' = "idle"
            BY <2>1 DEF ProcessReturns, ProcessEnds
        <3>2. QED
            BY <1>1, <3>1 DEF HolesInv
    <2>2. CASE ProcessBegins \/ \E id \in DOMAIN orders : modify_order(id) \/ cancel_order(id)
        <3>1. phase' = "count" /\ uncounted' = DOMAIN orders /\ DOMAIN orders' = DOMAIN orders
            BY <2>2 DEF ProcessBegins, modify_order, cancel_order, Amend, CountAgain
        <3>2. holes' = {}
            BY <3>1 DEF HolesInv
        <3>3. QED
            BY <3>1, <3>2, NothingVisited
    <2>3. ASSUME NEW id \in DOMAIN orders, CountOrder(id) PROVE SumInv'
        <3>1. phase = "count" /\ phase' = "count"
            BY <2>3 DEF CountOrder
        <3>2. holes' = {}
            BY <3>1 DEF HolesInv
        <3>3. \A s \in Sides, p \in Prices : Covered(s, p)'
            BY <2>3, <3>1, VisitCovers DEF SumInv
        <3>4. QED
            BY <3>2, <3>3 DEF SumInv
    <2>4. CASE CountEnds \/ AdjustEnds
        <3>1. /\ phase \in {"count", "adjust"}
              /\ UNCHANGED <<orders, uncounted, expected>>
            BY <2>4 DEF CountEnds, AdjustEnds
        <3>2. \A s \in Sides, p \in Prices : Covered(s, p)'
            BY <3>1, UnchangedCovers DEF SumInv
        <3>3. \A h \in holes' : h[1] \in Sides /\ h[2] \in Prices
            BY DEF TypeInv, TypeOK
        <3>4. QED
            BY <3>2, <3>3 DEF SumInv
    <2>5. ASSUME NEW s \in Sides, NEW p \in Prices, CreateAsserts(s, p) PROVE SumInv'
        <3>1. phase' = "abort" /\ UNCHANGED <<orders, uncounted, expected, holes>>
            BY <2>5 DEF CreateAsserts
        <3>2. \A h \in holes' : Covered(h[1], h[2])'
            BY <3>1, UnchangedCovers DEF SumInv
        <3>3. QED
            BY <3>1, <3>2 DEF SumInv
    <2>6. QED
        BY <1>2, <2>1, <2>2, <2>3, <2>4, <2>5, CreateCovers DEF Process
<1>3. CASE QuietStep \/ Init'
    <2>1. phase' \in {"idle", "begin"}
        BY <1>3 DEF QuietStep, Init
    <2>2. QED
        BY <1>1, <2>1 DEF HolesInv
<1>4. CASE UNCHANGED omsVars
    <2>1. UNCHANGED <<orders, uncounted, expected, holes, phase>>
        BY <1>4 DEF omsVars
    <2>2. QED
        BY <2>1, UnchangedCovers DEF SumInv
<1>5. QED
    BY <1>2, <1>3, <1>4, Steps
-----------------------------------------------------------------------------
(* What an order is created for is missing at the exchange.                *)

RestingAt(s, p) == {id \in DOMAIN live : live[id].side = s /\ live[id].price = p}

LEMMA RestingIsSum ==
    ASSUME NEW s, NEW p, IsFiniteSet(RestingAt(s, p)), NEW F \in [RestingAt(s, p) -> Int],
           \A id \in RestingAt(s, p) : F[id] = live[id].remaining
    PROVE  \E sum : /\ IsSumOver(RestingAt(s, p), F, sum)
                    /\ Resting(s, p) = sum[RestingAt(s, p)]
<1> DEFINE S == RestingAt(s, p)
           Added(f) == [c \in SUBSET S |->
                           IF c = {} THEN 0
                           ELSE live[Chosen(c)].remaining + f[c \ {Chosen(c)}]]
           sum == CHOOSE f : f = Added(f)
<1>1. Resting(s, p) = sum[S]
    BY DEF Resting, RestingAt, MapThenSumSet, MapThenFoldSet, Chosen
<1> HIDE DEF S
<1>2. ASSUME NEW f
      PROVE  Added(f) = [c \in SUBSET S |->
                            IF c = {} THEN 0 ELSE F[Chosen(c)] + f[c \ {Chosen(c)}]]
    <2>1. \A c \in SUBSET S : c # {} => F[Chosen(c)] = live[Chosen(c)].remaining
        BY DEF Chosen, S
    <2>2. QED
        BY <2>1
<1> HIDE DEF Added
<1>3. \A f : f = Added(f) <=> IsSumOver(S, F, f)
    BY <1>2 DEF IsSumOver, S
<1>4. \E f : f = Added(f)
    BY <1>3, SumExists DEF S
<1>5. sum = Added(sum)
    BY <1>4
<1> HIDE DEF sum
<1>6. QED
    BY <1>1, <1>3, <1>5 DEF S

LEMMA OneRequestSum ==
    ASSUME NEW n, out'[n].quantity \in Int
    PROVE  MapThenSumSet(LAMBDA i : out'[i].quantity, {n}) = out'[n].quantity
<1> DEFINE F == [i \in {n} |-> out'[i].quantity]
           Added(f) == [c \in SUBSET {n} |->
                           IF c = {} THEN 0
                           ELSE out'[Chosen(c)].quantity + f[c \ {Chosen(c)}]]
           sum == CHOOSE f : f = Added(f)
<1>1. MapThenSumSet(LAMBDA i : out'[i].quantity, {n}) = sum[{n}]
    BY DEF MapThenSumSet, MapThenFoldSet, Chosen
<1>2. F \in [{n} -> Int] /\ F[n] = out'[n].quantity
    OBVIOUS
<1>3. ASSUME NEW f
      PROVE  Added(f) = [c \in SUBSET {n} |->
                            IF c = {} THEN 0 ELSE F[Chosen(c)] + f[c \ {Chosen(c)}]]
    <2>1. \A c \in SUBSET {n} : c # {} => F[Chosen(c)] = out'[Chosen(c)].quantity
        BY DEF Chosen
    <2> HIDE DEF F
    <2>2. QED
        BY <2>1
<1> HIDE DEF Added, F
<1>4. IsFiniteSet({n})
    BY FS_Singleton
<1>5. \A f : f = Added(f) <=> IsSumOver({n}, F, f)
    BY <1>2, <1>3, <1>4 DEF IsSumOver
<1>6. \E f : f = Added(f)
    BY <1>2, <1>4, <1>5, SumExists
<1>7. sum = Added(sum)
    BY <1>6
<1> HIDE DEF sum
<1>8. IsSumOver({n}, F, sum)
    BY <1>5, <1>7
<1>9. sum[{n}] = F[n] + sum[{n} \ {n}] /\ sum[{}] = 0
    <2> DEFINE S == {n}
    <2>1. S \subseteq S /\ n \in S
        OBVIOUS
    <2> HIDE DEF S
    <2>2. /\ sum[{}] = 0
          /\ \A c : c \subseteq S => \A y \in c : sum[c] = F[y] + sum[c \ {y}]
        BY <1>8, SumFacts DEF S
    <2>3. sum[S] = F[n] + sum[S \ {n}]
        BY <2>1, <2>2
    <2>4. QED
        BY <2>2, <2>3 DEF S
<1>10. {n} \ {n} = {}
    OBVIOUS
<1>11. QED
    BY <1>1, <1>2, <1>9, <1>10

(* Only create_order asks for a creation.                                  *)
LEMMA CreatesStep ==
    ASSUME TypeInv, ManagerStep, Len(out') > Len(out), out'[Len(out')].type = "CREATE"
    PROVE  \E s \in Sides, p \in Prices : create_order(s, p)
<1>1. /\ out \in Seq(Request) /\ \A id \in DOMAIN orders : orders[id] \in Order
    BY DEF TypeInv, TypeOK
<1>2. ~(UNCHANGED out \/ out' = <<>> \/ (out # <<>> /\ out' = Tail(out)))
    BY <1>1
<1>3. Process
    BY <1>2, Steps DEF QuietStep, Init, omsVars
<1>4. ASSUME NEW id \in DOMAIN orders, modify_order(id) \/ cancel_order(id) PROVE FALSE
    <2>1. PICK type \in {"MODIFY", "CANCEL"} :
              \E p, q : Amend(id, Requested(orders[id], type, p, q))
        BY <1>4 DEF modify_order, cancel_order
    <2>2. PICK p, q : Amend(id, Requested(orders[id], type, p, q))
        BY <2>1
    <2> DEFINE o == Requested(orders[id], type, p, q)
    <2>3. Send(id, o) /\ o.pending.type = type
        BY <1>1, <2>2, RequestedPending DEF Amend
    <2> HIDE DEF o
    <2>4. out'[Len(out')].type = type
        BY <1>1, <2>3, SendLast
    <2>5. QED
        BY <2>4
<1>5. QED
    BY <1>2, <1>3, <1>4
       DEF Process, ProcessReturns, ProcessBegins, CountEnds, AdjustEnds, ProcessEnds,
           CountOrder, CreateAsserts

FitInv == /\ AgreementInv /\ CountInv /\ UnderWayInv /\ PlaceInv /\ SumInv
          /\ IsFiniteSet(DOMAIN orders)

(* When orders are created on a side, the book knows what its live orders  *)
(* are, and waits for none of them.                                        *)
LEMMA SettledFacts ==
    ASSUME FitInv, NEW s \in Sides, NEW p \in Prices, create_order(s, p)
    PROVE  /\ <<s, p>> \in holes /\ uncounted = {} /\ Fresh
           /\ \A id \in DOMAIN live : live[id].side = s =>
                 /\ id \in DOMAIN orders
                 /\ ~IsOver(orders[id]) /\ ~IsPending(orders[id])
                 /\ orders[id].side = s
                 /\ orders[id].expected.price = live[id].price
                 /\ orders[id].expected.quantity = live[id].remaining
<1>1. <<s, p>> \in holes /\ phase = "place" /\ uncounted = {}
    BY DEF create_order, NextHole, FitInv, AgreementInv, Inv, ManagerInv, TypeInv, Counted
<1>2. Fresh /\ Ends = {}
    <2>1. ~downloading /\ available # {}
        BY <1>1 DEF FitInv, AgreementInv, Inv, ManagerInv, Allowed, IsReady
    <2>2. QED
        BY <2>1, OpenFacts DEF FitInv, AgreementInv, Inv, Fresh
<1>3. ASSUME NEW id \in DOMAIN live, live[id].side = s
      PROVE  /\ id \in DOMAIN orders
             /\ ~IsOver(orders[id]) /\ ~IsPending(orders[id])
             /\ orders[id].side = s
             /\ orders[id].expected.price = live[id].price
             /\ orders[id].expected.quantity = live[id].remaining
    <2>1. id \in DOMAIN orders /\ id \in Ids
        BY <1>2 DEF FitInv, UnderWayInv, HeldInv, Fresh, AgreementInv, Inv, PathsInv, XTypes
    <2>2. ~IsOver(orders[id]) /\ orders[id].side = s
        BY <1>3, <2>1 DEF FitInv, AgreementInv, AnswersInv, OverInv, SidesInv
    <2>3. ASSUME IsPending(orders[id]) PROVE FALSE
        <3>1. PICK k \in Asked(id) : out[k].type = "CREATE"
            BY <1>1, <2>1, <2>2, <2>3 DEF FitInv, PlaceInv, Waits
        <3>2. k \in DOMAIN out /\ out[k].id = id
            BY DEF Asked
        <3>3. out[k].version = 1 /\ out[k].version > seen[id] /\ seen[id] >= 1
            BY <3>1, <3>2 DEF FitInv, AgreementInv, Inv, PathsInv, VersionsInv
        <3>4. seen[id] \in Nat
            BY <2>1, Numbers DEF FitInv, AgreementInv
        <3>5. QED
            BY <3>3, <3>4
    <2>4. OneUnderWay(id)
        BY <1>2, <2>1 DEF FitInv, UnderWayInv, FlightInv
    <2>5. News(id) = {}
        <3>1. ASSUME NEW i \in News(id) PROVE FALSE
            <4>1. inbox[i].value.status \in {"WORKING", "COMPLETED", "CANCELED"}
                BY <2>1, <3>1 DEF FitInv, AgreementInv, Inv, PathsInv, VersionsInv
            <4>2. ~IsFinal(inbox[i].value)
                BY <2>1, <3>1 DEF FitInv, AgreementInv, Inv, PathsInv, FinalInv
            <4>3. i \in Working(id)
                BY <4>1, <4>2 DEF Working, IsFinal
            <4>4. QED
                BY <2>3, <2>4, <4>3 DEF OneUnderWay
        <3>2. QED
            BY <3>1
    <2>6. orders[id].expected = State(orders[id].confirmed)
        BY <2>1, <2>2, <2>3 DEF FitInv, AgreementInv, BelievedOrders, Believed
    <2>7. /\ orders[id].confirmed.price = live[id].price
          /\ orders[id].confirmed.quantity = live[id].remaining
        BY <1>2, <2>1, <2>5 DEF FitInv, AgreementInv, AnswersInv, ConfirmedInv
    <2>8. QED
        BY <2>1, <2>2, <2>3, <2>6, <2>7 DEF State
<1>4. QED
    BY <1>1, <1>2, <1>3

(* The level expects all that rests on it.                                 *)
LEMMA RestingExpected ==
    ASSUME FitInv, NEW s \in Sides, NEW p \in Prices, create_order(s, p)
    PROVE  Resting(s, p) \in Int /\ Resting(s, p) <= expected[s][p]
<1> DEFINE R == RestingAt(s, p)
           V == Visited(s, p)
           F == [id \in R |-> live[id].remaining]
<1>1. /\ <<s, p>> \in holes /\ uncounted = {}
      /\ \A id \in R : /\ id \in DOMAIN orders /\ ~IsOver(orders[id])
                        /\ orders[id].side = s
                        /\ orders[id].expected.price = p
                        /\ orders[id].expected.quantity = live[id].remaining
    BY SettledFacts DEF RestingAt
<1>2. R \subseteq V
    BY <1>1 DEF Visited
<1>3. /\ V \subseteq DOMAIN orders /\ IsFiniteSet(V)
      /\ \A id \in DOMAIN orders : Wanted[id] \in Nat
      /\ SumUp(Wanted, V) \in Int
    BY WantedFacts DEF FitInv, AgreementInv, Inv, ManagerInv
<1>4. \A id \in R : F[id] = Wanted[id] /\ F[id] \in Nat /\ F[id] = live[id].remaining
    BY <1>1, <1>3 DEF Wanted
<1>5. F \in [R -> Int]
    BY <1>4
<1>6. IsFiniteSet(R)
    BY <1>2, <1>3, FS_Subset
<1> HIDE DEF F
<1>7. PICK sum : IsSumOver(R, F, sum) /\ Resting(s, p) = sum[R]
    BY <1>4, <1>5, <1>6, RestingIsSum
<1>8. PICK all : IsSumOver(V, [x \in V |-> Wanted[x]], all) /\ SumUp(Wanted, V) = all[V]
    BY <1>3, SumUpFacts
<1> HIDE DEF R, V
<1>9. sum[R] <= all[V]
    <2> DEFINE G == [x \in V |-> Wanted[x]]
    <2>1. (\A x \in V : G[x] \in Nat) /\ (\A x \in R : F[x] <= G[x])
        BY <1>2, <1>3, <1>4
    <2> HIDE DEF G
    <2>2. QED
        BY <1>2, <1>7, <1>8, <2>1, SumsOrdered DEF G
<1>10. SumUp(Wanted, V) <= expected[s][p]
    BY <1>1 DEF FitInv, SumInv, Covered, V
<1>11. expected[s][p] \in Int
    BY DEF FitInv, AgreementInv, Inv, ManagerInv, TypeInv, TypeOK
<1>12. sum[R] \in Int
    BY <1>7, SumFacts
<1>13. QED
    BY <1>3, <1>7, <1>8, <1>9, <1>10, <1>11, <1>12

(* Nothing that was asked before asks for the same level.                  *)
LEMMA NothingElseAsked ==
    ASSUME FitInv, NEW s \in Sides, NEW p \in Prices, create_order(s, p),
           NEW i \in DOMAIN out, out[i].type = "CREATE" \/ out[i].id \in DOMAIN live,
           out[i].side = s
    PROVE  out[i].price # p
<1> DEFINE id == out[i].id
<1>1. <<s, p>> \in holes /\ Fresh
    BY SettledFacts
<1>2. id \in Ids /\ id \in DOMAIN orders /\ i \in Asked(id)
    BY DEF FitInv, AgreementInv, Inv, PathsInv, IdsInv, ForgottenInv, Asked
<1>3. OneUnderWay(id)
    BY <1>1, <1>2 DEF FitInv, UnderWayInv, FlightInv
<1>4. /\ IsPending(orders[id])
      /\ out[i].price = orders[id].pending.price /\ orders[id].side = s
    BY <1>2, <1>3 DEF OneUnderWay
<1>5. ~IsOver(orders[id])
    <2>1. SUFFICES ASSUME IsOver(orders[id]) PROVE FALSE
        OBVIOUS
    <2>2. id \notin DOMAIN live /\ seen[id] >= 1
        BY <1>2, <2>1 DEF FitInv, AgreementInv, AnswersInv, OverInv
    <2>3. out[i].version = 1 /\ out[i].version > seen[id] /\ seen[id] \in Nat
        BY <1>2, <2>2, Numbers DEF FitInv, AgreementInv, Inv, PathsInv, VersionsInv
    <2>4. QED
        BY <2>2, <2>3
<1>6. orders[id].pending.price # p
    BY <1>1, <1>2, <1>4, <1>5 DEF FitInv, PlaceInv, Waits
<1>7. QED
    BY <1>4, <1>6

LEMMA NewOrderFits ==
    ASSUME FitInv, NEW s \in Sides, NEW p \in Prices, create_order(s, p)
    PROVE  LET r == out'[Len(out')]
               OnItsWay == {i \in DOMAIN out' : /\ \/ out'[i].type = "CREATE"
                                                   \/ out'[i].id \in DOMAIN live
                                                /\ out'[i].side = r.side
                                                /\ out'[i].price = r.price}
           IN  Resting(r.side, r.price)
                 + MapThenSumSet(LAMBDA i : out'[i].quantity, OnItsWay)
               <= target[r.side][r.price]
<1> DEFINE n == Len(out')
           o == Created(s, p)
           OnItsWay == {i \in DOMAIN out' : /\ \/ out'[i].type = "CREATE"
                                               \/ out'[i].id \in DOMAIN live
                                            /\ out'[i].side = out'[n].side
                                            /\ out'[i].price = out'[n].price}
<1>1. /\ o.side = s /\ o.pending.price = p /\ o.pending.type = "CREATE"
      /\ o.pending.quantity = Hole(s, p)
    BY DEF Created
<1>2. out \in Seq(Request) /\ target[s][p] \in Int /\ expected[s][p] \in Int
    BY DEF FitInv, AgreementInv, Inv, ManagerInv, TypeInv, TypeOK
<1> HIDE DEF o
<1>3. Send(max_order_id + 1, o)
    BY DEF create_order, o
<1>4. /\ n \in DOMAIN out'
      /\ out'[n].type = "CREATE" /\ out'[n].side = s /\ out'[n].price = p
      /\ out'[n].quantity = target[s][p] - expected[s][p]
      /\ \A i \in DOMAIN out' : i # n => i \in DOMAIN out /\ out'[i] = out[i]
    <2> DEFINE r == [type |-> o.pending.type, id |-> max_order_id + 1,
                     version |-> o.pending.version,
                     conditional |-> o.confirmed.version, side |-> o.side,
                     price |-> o.pending.price, quantity |-> o.pending.quantity]
    <2>1. out' = Append(out, r)
        BY <1>3 DEF Send
    <2>2. /\ r.type = "CREATE" /\ r.side = s /\ r.price = p
          /\ r.quantity = target[s][p] - expected[s][p]
        BY <1>1 DEF Hole
    <2> HIDE DEF r
    <2>3. out'[n] = r /\ n \in DOMAIN out'
          /\ \A i \in DOMAIN out' : i # n => i \in DOMAIN out /\ out'[i] = out[i]
        BY <1>2, <2>1
    <2>4. QED
        BY <2>2, <2>3
<1> HIDE DEF n
<1>5. OnItsWay = {n}
    <2>1. ASSUME NEW i \in OnItsWay, i # n PROVE FALSE
        <3>1. /\ i \in DOMAIN out /\ out[i].side = s /\ out[i].price = p
              /\ out[i].type = "CREATE" \/ out[i].id \in DOMAIN live
            BY <1>4, <2>1
        <3>2. QED
            BY <3>1, NothingElseAsked
    <2>2. n \in OnItsWay
        BY <1>4
    <2>3. QED
        BY <2>1, <2>2
<1>6. out'[n].quantity \in Int
    BY <1>2, <1>4
<1>7. MapThenSumSet(LAMBDA i : out'[i].quantity, {n}) = out'[n].quantity
    BY <1>6, OneRequestSum
<1>8. Resting(s, p) \in Int /\ Resting(s, p) <= expected[s][p]
    BY RestingExpected
<1>9. Resting(s, p) + out'[n].quantity <= target[s][p]
    BY <1>2, <1>4, <1>8
<1>10. Resting(out'[n].side, out'[n].price)
         + MapThenSumSet(LAMBDA i : out'[i].quantity, OnItsWay)
       <= target[out'[n].side][out'[n].price]
    BY <1>4, <1>5, <1>7, <1>9
<1>11. QED
    BY <1>10 DEF n

LEMMA FitInit == XInit => FitInv
<1> SUFFICES ASSUME XInit PROVE FitInv
    OBVIOUS
<1>1. phase = "idle" /\ holes = {} /\ DOMAIN orders = {}
    BY EmptyFacts DEF XInit, Init
<1>2. QED
    BY <1>1, AgreementInit, UnderWayInit, FS_EmptySet
       DEF FitInv, CountInv, PlaceInv, SumInv

LEMMA FitStep ==
    ASSUME FitInv, ~EraseOnNotReady, BookAtStart, ~PartialFills, [XNext]_vars
    PROVE  FitInv'
<1>1. AgreementInv' /\ UnderWayInv'
    BY AgreementStep, UnderWayStep DEF FitInv
<1>2. /\ ManagerStep
      /\ TypeInv /\ HolesInv /\ TypeInv' /\ HolesInv'
    BY <1>1, ManagerSteps DEF FitInv, AgreementInv, Inv, ManagerInv
<1>3. CountInv' /\ PlaceInv' /\ SumInv'
    BY <1>2, CountStep, PlaceStep, SumStep DEF FitInv
<1>4. IsFiniteSet(DOMAIN orders')
    <2>1. DOMAIN orders' \subseteq 1..MaxOrderId
        BY <1>1 DEF AgreementInv, Inv, PathsInv, IdsInv, Ids
    <2>2. IsFiniteSet(1..MaxOrderId)
        BY ConstantsAssumption, FS_Interval
    <2>3. QED
        BY <2>1, <2>2, FS_Subset
<1>5. QED
    BY <1>1, <1>3, <1>4 DEF FitInv

(* What an order is created for is missing at the exchange: together with  *)
(* what rests and what is on its way there, the new order is within the    *)
(* target of its level, if orders are filled whole. (manager.cpp process,  *)
(* can_create)                                                             *)
THEOREM CreatesWithinTarget ==
    ASSUME ~EraseOnNotReady, BookAtStart, ~PartialFills
    PROVE  XSpec => CreatesFit
<1>1. FitInv /\ [XNext]_vars => FitInv'
    BY FitStep
<1> DEFINE Fits == Len(out') > Len(out) /\ out'[Len(out')].type = "CREATE" =>
         LET r == out'[Len(out')]
             OnItsWay == {i \in DOMAIN out' : /\ \/ out'[i].type = "CREATE"
                                                 \/ out'[i].id \in DOMAIN live
                                              /\ out'[i].side = r.side
                                              /\ out'[i].price = r.price}
         IN  Resting(r.side, r.price)
               + MapThenSumSet(LAMBDA i : out'[i].quantity, OnItsWay)
             <= target[r.side][r.price]
<1>2. FitInv /\ [XNext]_vars => Fits
    <2>1. SUFFICES ASSUME FitInv, [XNext]_vars,
                          Len(out') > Len(out), out'[Len(out')].type = "CREATE"
                   PROVE  Fits
        OBVIOUS
    <2>2. PICK s \in Sides, p \in Prices : create_order(s, p)
        BY <2>1, ManagerSteps, CreatesStep DEF FitInv, AgreementInv, Inv, ManagerInv
    <2>3. QED
        BY <2>1, <2>2, NewOrderFits
<1>3. FitInv /\ [XNext]_vars => [Fits]_vars
    BY <1>2
<1>4. [][Fits]_vars <=> CreatesFit
    BY DEF CreatesFit
<1> HIDE DEF Fits
<1>5. QED
    BY <1>1, <1>3, <1>4, FitInit, PTL DEF XSpec
=============================================================================
