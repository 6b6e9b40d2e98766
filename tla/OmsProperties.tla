--------------------------- MODULE OmsProperties ---------------------------
(***************************************************************************)
(* What the order manager and the exchange are to achieve together.        *)
(***************************************************************************)
EXTENDS OmsExchange

(* What rests at the exchange on a level.                                  *)
Resting(s, p) ==
    MapThenSumSet(LAMBDA id : live[id].remaining,
                  {id \in DOMAIN live : live[id].side = s /\ live[id].price = p})

(* Every variable keeps its type, those of the environment included.       *)
XTypeOK ==
    /\ TypeOK
    /\ DOMAIN live \subseteq Ids
    /\ seen \in [Ids -> 0..MaxVersion]
    /\ position \in Int
    /\ linked \in BOOLEAN
    /\ \A what \in DOMAIN Budget : used[what] \in 0..Budget[what]

Quiet ==
    /\ phase = "idle" /\ linked /\ ~downloading
    /\ out = <<>> /\ inbox = <<>> /\ acks = <<>>

(* Once every message has been handled, the book holds exactly the orders  *)
(* that work at the exchange, expects of each what really rests there, and *)
(* waits for nothing: whatever was filled, refused, lost or raced before.  *)
(* (manager.cpp OrderUpdate, OrderAck, DownloadBegin)                      *)
QuietAgreement ==
    Quiet =>
        /\ DOMAIN orders = DOMAIN live
        /\ \A id \in DOMAIN live :
              /\ ~IsPending(orders[id])
              /\ orders[id].expected = [price |-> live[id].price,
                                        quantity |-> live[id].remaining]
              /\ orders[id].side = live[id].side

(* Once every message has been handled, the position counted from fills is *)
(* the account's. (manager.cpp order_fills, DownloadEnd)                   *)
PositionAgrees == Quiet => position_by_orders = position

(* What an order is created for is missing at the exchange: together with  *)
(* what rests and what is on its way there, the new order is within the    *)
(* target of its level.  Orders that are refused, raced, filled whole or   *)
(* lost with the connection do not break this; partial fills do.           *)
(* (manager.cpp process, can_create)                                       *)
CreatesFit ==
    [][Len(out') > Len(out) /\ out'[Len(out')].type = "CREATE" =>
         LET r == out'[Len(out')]
             OnItsWay == {i \in DOMAIN out' : /\ \/ out'[i].type = "CREATE"
                                                 \/ out'[i].id \in DOMAIN live
                                              /\ out'[i].side = r.side
                                              /\ out'[i].price = r.price}
         IN  Resting(r.side, r.price)
               + MapThenSumSet(LAMBDA i : out'[i].quantity, OnItsWay)
             <= target[r.side][r.price]]_vars

(* No assert of the order manager fails.                                   *)
NeverAborts == phase # "abort"
-----------------------------------------------------------------------------
SentRequests == [i \in DOMAIN out |-> [id |-> out[i].id, version |-> out[i].version]]

Requests == INSTANCE OrderRequests WITH sent <- SentRequests, last <- seen

(* What the gateway is sent is an instance of OrderRequests: ids are taken *)
(* in ascending order and once, versions of an order only grow, whatever   *)
(* is lost and however often either side restarts.                         *)
(* (manager.cpp create_order, modify_order, cancel_order, DownloadEnd)     *)
RequestsInOrder == Requests!Spec
-----------------------------------------------------------------------------
(* The program loads its configuration when it starts.                     *)
IsConfigured == ~known /\ \E p \in ParamSets : ReceivesParameters(p)

(* The program's event loop handles what is delivered to it and its timer  *)
(* keeps firing; the gateway answers what it is sent and, when the         *)
(* connection is lost, is connected again.  Fills, refusals, lost          *)
(* connections and crashes are never forced: they are bounded.             *)
Fairness ==
    /\ WF_vars(Processes)
    /\ SF_vars(IsConfigured)
    /\ SF_vars(ReceivesInbox) /\ SF_vars(ReceivesAck)
    /\ SF_vars(Answers)
    /\ SF_vars(Connecting)
    /\ SF_vars(Ticks(TRUE))

FairSpec == XSpec /\ Fairness

OutOfBounds ==
    \/ max_order_id = MaxOrderId
    \/ \E id \in DOMAIN orders : orders[id].pending.version = MaxVersion

(* In the end the exchange has resting, on every level, what the pricer    *)
(* asked for, however the orders were refused, raced, filled or lost.      *)
(* (manager.cpp process, Timer)                                            *)
Converges ==
    <>[](OutOfBounds \/ \A s \in Sides, p \in Prices : Resting(s, p) = target[s][p])
=============================================================================
