--------------------------- MODULE OrderRequests ---------------------------
(***************************************************************************)
(* What a gateway may rely on in the requests of its client, whatever the  *)
(* client remembers of them: an order is created under an id above all the *)
(* ids it has used before, and amended with ever higher versions.  The     *)
(* requests arrive in the order they were sent, or they are all lost.      *)
(***************************************************************************)
EXTENDS Naturals, Sequences

CONSTANTS MaxOrderId, MaxVersion

VARIABLES
    sent,   \* the requests on their way: [id, version]
    last    \* the version of the last request received for every id

Ids == 1..MaxOrderId
Request == [id : Ids, version : 1..MaxVersion]

Init == sent = <<>> /\ last = [id \in Ids |-> 0]

(* The highest version used for an id is below v.                          *)
Unused(id, v) ==
    /\ last[id] < v
    /\ \A i \in DOMAIN sent : sent[i].id = id => sent[i].version < v

Creates(id) ==
    /\ \A other \in Ids : other >= id => Unused(other, 1)
    /\ sent' = Append(sent, [id |-> id, version |-> 1])
    /\ UNCHANGED last

Amends(id, v) ==
    /\ v > 1
    /\ Unused(id, v)
    /\ sent' = Append(sent, [id |-> id, version |-> v])
    /\ UNCHANGED last

Arrives ==
    /\ sent # <<>>
    /\ sent' = Tail(sent)
    /\ last' = [last EXCEPT ![Head(sent).id] = Head(sent).version]

Lost == sent' = <<>> /\ UNCHANGED last

Next ==
    \/ \E id \in Ids : Creates(id) \/ \E v \in 1..MaxVersion : Amends(id, v)
    \/ Arrives \/ Lost

Spec == Init /\ [][Next]_<<sent, last>>
=============================================================================
