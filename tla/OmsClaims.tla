----------------------------- MODULE OmsClaims -----------------------------
(***************************************************************************)
(* What a comment says of the order manager and the code does not do: the  *)
(* run that checks it finds the behaviour that breaks it.                  *)
(***************************************************************************)
EXTENDS OmsProperties

(* An order with something in flight is neither modified nor cancelled:    *)
(* no two requests of an order are on their way. (manager.cpp:149 and 165) *)
OneInFlight ==
    \A i, j \in DOMAIN out : i # j => out[i].id # out[j].id
=============================================================================
