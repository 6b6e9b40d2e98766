------------------------------- MODULE MCOms -------------------------------
(* Small instances of the order manager and its exchange.                  *)
EXTENDS OmsClaims

Quotes(q) == [s \in Sides |-> [p \in Prices |-> IF p = q THEN 1 ELSE 0]]

(* One lot quoted at any one price of each side, or nothing.               *)
OneLot == {Quotes(q) : q \in Prices \cup {NoPrice}}

(* Any quotes of at most two lots.                                          *)
TwoLots == [Sides -> [Prices -> 0..2]]
Ladder == {t \in TwoLots : \A s \in Sides : t[s][1] + t[s][2] <= 2}

(* One lot quoted on each side, the bid below the ask, or nothing.         *)
TwoSided ==
    {NoLevels} \cup
    {[s \in Sides |-> [p \in Prices |->
        IF p = (IF s = "BUY" THEN bid ELSE bid + 1) THEN 1 ELSE 0]] : bid \in {1, 2}}

AllOrNothing == {SupportTypes, {}}
AllOnly == {SupportTypes}

PlainParams == {DefaultParams}
FillBan == {[DefaultParams EXCEPT !.post_fill = 1]}
Bans == {[ban_modify |-> FALSE, post_fill |-> 1, post_cancel |-> 1]}
EitherWay == {DefaultParams} \cup {[p EXCEPT !.ban_modify = TRUE] : p \in Bans}
=============================================================================
