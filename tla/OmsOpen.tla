------------------------------ MODULE OmsOpen ------------------------------
(***************************************************************************)
(* The order manager under any gateway: updates, refusals, downloads and   *)
(* status changes come in any order and with any content of the given      *)
(* sets, duplicated, stale, for orders of other sessions, or never.        *)
(***************************************************************************)
EXTENDS Oms

CONSTANTS
    Updates,      \* the order updates a gateway may send
    Positions,    \* the positions it may report
    Masks,        \* what it may announce as available
    MaxPosition   \* bound on the position counted from fills

ASSUME OpenAssumption ==
    /\ Updates \subseteq OrderUpdate
    /\ \A u \in Updates : u.status = "WORKING" => u.accepted > 0
    /\ Positions \subseteq Int
    /\ Masks \subseteq SUBSET SupportTypes
    /\ MaxPosition \in Nat

(* A refusal of an amendment answers one that was sent: the order has been *)
(* confirmed, and a request for it has left since it entered the book.  A  *)
(* creation is never too late.                                             *)
Answers(a) ==
    /\ a.type = "CREATE" => a.error # "TOO_LATE_TO_MODIFY_OR_CANCEL"
    /\ a.type # "CREATE" /\ a.id \in DOMAIN orders =>
          /\ orders[a.id].confirmed.version # 0
          /\ orders[a.id].pending.price # NoPrice

Acks == [id : 1..MaxOrderId, type : RequestTypes, error : Errors]

(* The gateway takes the requests before it sends its next event.          *)
GatewayTakes ==
    /\ phase = "idle"
    /\ out # <<>>
    /\ out' = <<>>
    /\ UNCHANGED <<bookVars, posVars, procVars, gwVars, max_order_id, ban, phase>>

Handles ==
    \/ \E t \in Targets : TargetQuotes(t)
    \/ TargetsDropped
    \/ ReferenceData
    \/ \E p \in ParamSets : ParametersUpdate(p)
    \/ \E due \in BOOLEAN : Timer(1, due)
    \/ \E d \in 0..MaxBan : RateLimitTrigger(d)
    \/ \E mask \in Masks : GatewayStatus(mask)
    \/ Disconnected
    \/ DownloadBegin
    \/ \E last \in 0..MaxOrderId : DownloadEnd(last)
    \/ \E x \in Positions : PositionUpdate(x)
    \/ \E u \in Updates : OrderUpdated(u)
    \/ \E a \in Acks : Answers(a) /\ OrderAcked(a)

Next ==
    \/ Process
    \/ GatewayTakes
    \/ /\ out = <<>>
       /\ Handles
       /\ position_by_orders' \in -MaxPosition..MaxPosition    \* bound
    \/ Restart

Spec == Init /\ [][Next]_omsVars
-----------------------------------------------------------------------------
(* market_by_order_ finds an order exactly when the book holds it.         *)
(* (manager.cpp create_order, erase_order, erase_all_orders, OrderUpdate)  *)
IndexAgrees == indexed = DOMAIN orders

(* What is expected of an order is the request under way, or else the last *)
(* report of the exchange (order.hpp, the comments on pending, confirmed   *)
(* and expected); an order given up as too late to amend is excepted.      *)
ExpectedIsRequestOrReport ==
    \A id \in DOMAIN orders :
        LET o == orders[id]
        IN  ~IsOver(o) =>
              o.expected = IF IsPending(o) THEN State(o.pending)
                                           ELSE State(o.confirmed)

LiveRequestOn(s) ==
    \E id \in DOMAIN orders :
        orders[id].side = s /\ IsPending(orders[id]) /\ ~IsOver(orders[id])

(* A side on which any request is under way gets no new orders, however    *)
(* the orders are walked and however often the loop starts over.           *)
(* (manager.cpp process, can_create)                                       *)
CreatesOnSettledSide ==
    [][\A h \in holes' \ holes : ~LiveRequestOn(h[1])]_omsVars

(* Requests leave only for a book that is known, through a gateway that is *)
(* not downloading and offers them, and while no ban is in force.          *)
(* (manager.cpp process)                                                   *)
RequestsOnlyWhenAllowed ==
    [][Len(out') > Len(out) =>
         known /\ ban = 0 /\ ~downloading /\ out'[Len(out')].type \in available]_omsVars
=============================================================================
