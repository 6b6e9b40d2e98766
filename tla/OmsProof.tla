------------------------------ MODULE OmsProof ------------------------------
(***************************************************************************)
(* Proofs about the order manager under any gateway, for every value of    *)
(* the constants.                                                          *)
(***************************************************************************)
EXTENDS OmsOpen, OmsLemmas

(* Every step is one of the manager, or one that any gateway may cause.    *)
LEMMA AnyGateway == [Next]_omsVars => ManagerStep
<1>1. SUFFICES ASSUME [Next]_omsVars PROVE ManagerStep
    OBVIOUS
<1>2. Handles => AnyEvent
    <2>1. /\ Updates \subseteq OrderUpdate
          /\ Positions \subseteq Int
          /\ Masks \subseteq SUBSET SupportTypes
        BY OpenAssumption
    <2>2. 0..MaxBan \subseteq Nat /\ 0..MaxOrderId \subseteq Nat
        OBVIOUS
    <2>3. ASSUME NEW a \in Acks, Answers(a)
          PROVE  a \in Refusals /\ Answerable(a)
        BY <2>3 DEF Acks, Refusals, Answers, Answerable
    <2>4. QED
        BY <2>1, <2>2, <2>3 DEF Handles, AnyEvent
<1>3. GatewayTakes => OutLeaves
    BY DEF GatewayTakes, OutLeaves, gwVars
<1>4. QED
    BY <1>1, <1>2, <1>3 DEF Next, ManagerStep

(* The order manager keeps its types, whatever the gateway sends.          *)
THEOREM TypeCorrect == Spec => []TypeOK
<1>1. Init => TypeInv /\ HolesInv
    BY TypeInit DEF Init, HolesInv
<1>2. TypeInv /\ HolesInv /\ [Next]_omsVars => TypeInv' /\ HolesInv'
    BY AnyGateway, TypeStep, HolesStep
<1>3. TypeInv => TypeOK
    BY DEF TypeInv
<1>4. QED
    BY <1>1, <1>2, <1>3, PTL DEF Spec
-----------------------------------------------------------------------------
(* market_by_order_ finds an order exactly when the book holds it.         *)
THEOREM IndexCorrect == Spec => []IndexAgrees
<1>1. Init => IndexAgrees
    BY DEF Init, IndexAgrees
<1>2. IndexAgrees /\ [Next]_omsVars => IndexAgrees'
    BY AnyGateway, IndexStep DEF IndexAgrees
<1>3. QED
    BY <1>1, <1>2, PTL DEF Spec
-----------------------------------------------------------------------------
(* Requests leave only for a known book, through a gateway that offers     *)
(* them and is not downloading, and while no ban is in force.              *)
THEOREM RequestsCorrect == Spec => RequestsOnlyWhenAllowed
<1>1. Init => TypeInv /\ HolesInv /\ Allowed
    BY TypeInit DEF Init, HolesInv, Allowed
<1>2. TypeInv /\ HolesInv /\ Allowed /\ [Next]_omsVars
         => TypeInv' /\ HolesInv' /\ Allowed'
    BY AnyGateway, TypeStep, HolesStep, AllowedStep
<1>3. TypeInv /\ Allowed /\ [Next]_omsVars => [SendsAllowed]_omsVars
    BY AnyGateway, SendsStep
<1>4. QED
    BY <1>1, <1>2, <1>3, PTL DEF Spec, RequestsOnlyWhenAllowed, SendsAllowed
-----------------------------------------------------------------------------
(* What is expected of an order is the request under way, or else the last *)
(* report, whatever the gateway sends and in whatever order.               *)
THEOREM ExpectedCorrect == Spec => []ExpectedIsRequestOrReport
<1>1. Init => TypeInv /\ HolesInv /\ BelievedOrders
    BY TypeInit DEF Init, HolesInv, BelievedOrders
<1>2. TypeInv /\ HolesInv /\ BelievedOrders /\ [Next]_omsVars
         => TypeInv' /\ HolesInv' /\ BelievedOrders'
    BY AnyGateway, TypeStep, HolesStep, BelievedStep
<1>3. BelievedOrders => ExpectedIsRequestOrReport
    BY DEF BelievedOrders, Believed, ExpectedIsRequestOrReport
<1>4. QED
    BY <1>1, <1>2, <1>3, PTL DEF Spec
-----------------------------------------------------------------------------
(* The levels chosen for new orders are on sides with nothing under way.   *)
ChoosesSettled == \A h \in holes' \ holes : ~LiveRequestOn(h[1])

LEMMA ChooseStep ==
    ASSUME TypeInv, HolesInv, CountInv, ManagerStep
    PROVE  ChoosesSettled
<1>1. CASE AdjustEnds
    <2>1. /\ phase = "adjust" /\ uncounted = {}
        BY <1>1 DEF AdjustEnds, TypeInv, Counted
    <2>2. ASSUME NEW h \in holes', LiveRequestOn(h[1])
          PROVE  FALSE
        <3>1. pending[h[1]] = 0
            BY <1>1 DEF AdjustEnds, can_create
        <3>2. PICK id \in DOMAIN orders :
                  orders[id].side = h[1] /\ Waits(orders[id])
            BY <2>2 DEF LiveRequestOn, Waits
        <3>3. QED
            BY <2>1, <3>1, <3>2 DEF CountInv
    <2>3. QED
        BY <2>2 DEF ChoosesSettled
<1>2. CASE \/ ProcessReturns \/ ProcessBegins \/ CountEnds \/ ProcessEnds
           \/ \E id \in DOMAIN orders :
                 CountOrder(id) \/ modify_order(id) \/ cancel_order(id)
           \/ \E s \in Sides, p \in Prices : create_order(s, p) \/ CreateAsserts(s, p)
    BY <1>2 DEF ChoosesSettled, ProcessReturns, ProcessBegins, CountAgain,
                CountEnds, ProcessEnds, CountOrder, modify_order, cancel_order,
                Amend, create_order, CreateAsserts, procVars
<1>3. CASE QuietStep \/ Init' \/ UNCHANGED omsVars
    BY <1>3 DEF ChoosesSettled, QuietStep, Init, omsVars, procVars
<1>4. QED
    BY <1>1, <1>2, <1>3, Steps DEF Process

(* No level of a side is chosen for a new order while a request of that    *)
(* side is under way, however the orders are walked and however often the  *)
(* loop starts over.                                                       *)
THEOREM CreatesCorrect == Spec => CreatesOnSettledSide
<1>1. Init => TypeInv /\ HolesInv /\ CountInv
    BY TypeInit DEF Init, HolesInv, CountInv
<1>2. TypeInv /\ HolesInv /\ CountInv /\ [Next]_omsVars
         => TypeInv' /\ HolesInv' /\ CountInv'
    BY AnyGateway, TypeStep, HolesStep, CountStep
<1>3. TypeInv /\ HolesInv /\ CountInv /\ [Next]_omsVars => [ChoosesSettled]_omsVars
    BY AnyGateway, ChooseStep
<1>4. QED
    BY <1>1, <1>2, <1>3, PTL DEF Spec, CreatesOnSettledSide, ChoosesSettled
=============================================================================
