----------------------------- MODULE MCOmsOpen -----------------------------
(* A small instance of the order manager under any gateway.                *)
EXTENDS OmsOpen

(* One price of one lot on one side at a time, or one of two lots.         *)
SomeTargets ==
    {NoLevels} \cup
    {[s \in Sides |-> [p \in Prices |-> IF p = q THEN n ELSE 0]] :
        q \in Prices, n \in {2}}

SomeParams ==
    {[ban_modify |-> FALSE, post_fill |-> 1, post_cancel |-> 0]}

Sent(id, price, remaining, traded, status, stale) ==
    [id |-> id, side |-> "BUY", price |-> price, remaining |-> remaining,
     traded |-> traded, status |-> status, accepted |-> 1, response |-> 1,
     stale |-> stale]

SomeMasks == {{"CREATE", "CANCEL"}, SupportTypes}

SomeUpdates ==
    {Sent(id, 1, 1, 0, status, FALSE) :
        id \in 1..MaxOrderId, status \in OrderStatuses \ {"COMPLETED"}}
    \cup {Sent(id, 1, 0, 1, "COMPLETED", FALSE) : id \in 1..MaxOrderId}
    \cup {Sent(id, 1, 1, 0, "WORKING", TRUE) : id \in 1..MaxOrderId}
=============================================================================
