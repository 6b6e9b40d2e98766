---------------------------- MODULE OmsExchange ----------------------------
(***************************************************************************)
(* The order manager together with the gateway and the exchange behind it. *)
(* The gateway and the exchange are not in the repository: they are        *)
(* modelled from the requests the manager sends and the events it handles. *)
(*                                                                         *)
(* Requests are answered in order.  A refused request is answered by an    *)
(* OrderAck, everything that happens to an order is told by OrderUpdates.  *)
(* The two travel apart: an ack may overtake or be overtaken by an update, *)
(* which is the race the TOO_LATE branch of the ack handler is written     *)
(* for.  On (re)connecting the client is sent a download: DownloadBegin,   *)
(* reference data, the live orders, the position, the status, DownloadEnd. *)
(* What happens to an order while the download is on its way is told       *)
(* before its end (DownloadTells): the position of the download may then   *)
(* be older than the orders the client knows when the end comes.           *)
(*                                                                         *)
(* The exchange steps only while no handler runs.  Nothing a handler reads *)
(* is changed by the exchange, so nothing is lost by it.                   *)
(***************************************************************************)
EXTENDS Oms, SequencesExt

CONSTANTS
    Masks,        \* what the gateway may announce as available
    BookAtStart,  \* the book's parameters arrive before the first download
    PartialFills, \* orders may be filled in parts
    Conflates,    \* a fill and the cancellation after it may share an update
    DownloadTells, \* what a download that takes its time tells meanwhile
    MaxFills,     \* bound on the fills
    MaxRejects,   \* bound on the requests refused although the order is live
    MaxCancels,   \* bound on the cancellations nobody asked for
    MaxDrops,     \* bound on the connections lost and the status changes
    MaxChanges    \* bound on the changes of the targets

ASSUME ExchangeAssumption ==
    /\ Masks \subseteq SUBSET SupportTypes
    /\ Masks # {}
    /\ BookAtStart \in BOOLEAN
    /\ {PartialFills, Conflates} \subseteq BOOLEAN
    /\ DownloadTells \in {"nothing", "reports", "positions"}
    /\ {MaxFills, MaxRejects, MaxCancels, MaxDrops, MaxChanges} \subseteq Nat

VARIABLES
    live,       \* the working orders of the exchange
    seen,       \* version of the last request received for every order id
    position,   \* the account's position
    inbox,      \* events on their way to the client
    acks,       \* refusals on their way to the client
    linked,     \* the client is connected to the gateway
    used        \* what has been used of every bound

xVars == <<live, seen, position, inbox, acks, linked, used>>
vars == <<omsVars, xVars>>

Ids == 1..MaxOrderId
Budget == [fills |-> MaxFills, rejects |-> MaxRejects, cancels |-> MaxCancels,
           drops |-> MaxDrops, changes |-> MaxChanges]

Spend(what) ==
    /\ used[what] < Budget[what]
    /\ used' = [used EXCEPT ![what] = @ + 1]

LastId == Max({0} \cup {id \in Ids : seen[id] > 0})
-----------------------------------------------------------------------------
(* Events                                                                  *)

Report(id, x, status) ==
    [kind |-> "OrderUpdate",
     value |-> [id |-> id, side |-> x.side, price |-> x.price,
                remaining |-> IF status = "WORKING" THEN x.remaining ELSE 0,
                traded |-> x.traded, status |-> status,
                accepted |-> x.accepted, response |-> seen[id],
                stale |-> FALSE]]

Event(kind, value) == [kind |-> kind, value |-> value]

Download(mask) ==
    LET ids == SetToSeq(DOMAIN live)
    IN  <<Event("DownloadBegin", 0), Event("ReferenceData", 0)>>
        \o [i \in 1..Len(ids) |-> Report(ids[i], live[ids[i]], "WORKING")]
        \o <<Event("PositionUpdate", position), Event("GatewayStatus", mask),
             Event("DownloadEnd", LastId)>>
-----------------------------------------------------------------------------
(* The gateway and the exchange                                            *)

XIdle == phase = "idle" /\ UNCHANGED omsVars

Request0 == Head(out)   \* the request next in line

TakesRequest ==
    /\ phase = "idle"
    /\ linked
    /\ out # <<>>
    /\ out' = Tail(out)
    /\ seen' = [seen EXCEPT ![Request0.id] = Request0.version]
    /\ UNCHANGED <<bookVars, posVars, procVars, gwVars, max_order_id, ban, phase,
                   linked, position>>

Accepted(r, x) == [x EXCEPT !.price = r.price, !.remaining = r.quantity,
                            !.accepted = r.version]

Tell(id, x, status) ==
    inbox' = Append(inbox,
        [Report(id, x, status) EXCEPT !.value.response = seen'[id]])

AcceptsCreate ==
    LET r == Request0
        x == [side |-> r.side, price |-> r.price, remaining |-> r.quantity,
              traded |-> 0, accepted |-> r.version]
    IN  /\ TakesRequest
        /\ r.type = "CREATE"
        /\ live' = Put(live, r.id, x)
        /\ Tell(r.id, x, "WORKING")
        /\ UNCHANGED <<acks, used>>

AcceptsModify ==
    LET r == Request0
    IN  /\ TakesRequest
        /\ r.type = "MODIFY"
        /\ r.id \in DOMAIN live
        /\ live' = [live EXCEPT ![r.id] = Accepted(r, @)]
        /\ Tell(r.id, live'[r.id], "WORKING")
        /\ UNCHANGED <<acks, used>>

AcceptsCancel ==
    LET r == Request0
    IN  /\ TakesRequest
        /\ r.type = "CANCEL"
        /\ r.id \in DOMAIN live
        /\ live' = Drop(live, r.id)
        /\ Tell(r.id, [live[r.id] EXCEPT !.accepted = r.version], "CANCELED")
        /\ UNCHANGED <<acks, used>>

Refuse(error) ==
    /\ acks' = Append(acks, [id |-> Request0.id, type |-> Request0.type,
                             error |-> error])
    /\ UNCHANGED <<live, inbox>>

Refuses(error) ==
    /\ TakesRequest
    /\ error # "TOO_LATE_TO_MODIFY_OR_CANCEL"
    /\ Request0.type = "CREATE" \/ Request0.id \in DOMAIN live
    /\ Spend("rejects")
    /\ Refuse(error)

RefusesLate ==
    /\ TakesRequest
    /\ Request0.type # "CREATE"
    /\ Request0.id \notin DOMAIN live
    /\ Refuse("TOO_LATE_TO_MODIFY_OR_CANCEL")
    /\ UNCHANGED used

(* What happens to an order before the download has ended may be told      *)
(* within it, after the snapshot of orders and position and before the     *)
(* end, with the new position or without.                                  *)
NewPosition ==
    IF DownloadTells = "positions" THEN <<Event("PositionUpdate", position')>> ELSE <<>>

TellsWithinDownload(event) ==
    /\ DownloadTells # "nothing"
    /\ inbox # <<>>
    /\ Last(inbox).kind = "DownloadEnd"
    /\ inbox' = Front(inbox) \o <<event>> \o NewPosition \o <<Last(inbox)>>

(* Updates are lost while the client is not connected.                     *)
Tells(event) ==
    \/ inbox' = IF linked THEN Append(inbox, event) ELSE inbox
    \/ TellsWithinDownload(event)

Fills(id, q) ==
    LET x == [live[id] EXCEPT !.remaining = @ - q, !.traded = @ + q]
    IN  /\ XIdle
        /\ q = live[id].remaining \/ PartialFills
        /\ Spend("fills")
        /\ position' = position + Signed(x.side, q)
        /\ IF x.remaining = 0
           THEN live' = Drop(live, id) /\ Tells(Report(id, x, "COMPLETED"))
           ELSE live' = [live EXCEPT ![id] = x] /\ Tells(Report(id, x, "WORKING"))
        /\ UNCHANGED <<seen, acks, linked>>

(* The exchange cancels what remains of an order; q lots of it may have    *)
(* just been filled if updates are conflated.                              *)
Cancels(id, q) ==
    LET x == [live[id] EXCEPT !.traded = @ + q]
    IN  /\ XIdle
        /\ q = 0 \/ (Conflates /\ q < live[id].remaining)
        /\ Spend("cancels")
        /\ position' = position + Signed(x.side, q)
        /\ live' = Drop(live, id)
        /\ Tells(Report(id, x, "CANCELED"))
        /\ UNCHANGED <<seen, acks, linked>>

Announces(mask) ==
    /\ XIdle
    /\ linked
    /\ Spend("drops")
    /\ inbox' = Append(inbox, Event("GatewayStatus", mask))
    /\ UNCHANGED <<live, seen, position, acks, linked>>

(* The connection is lost with everything that was under way.              *)
LosesLink ==
    /\ linked
    /\ Spend("drops")
    /\ linked' = FALSE
    /\ inbox' = <<>>
    /\ acks' = <<>>
    /\ UNCHANGED <<live, seen, position>>

Drops ==
    /\ LosesLink
    /\ phase = "idle"
    /\ available' = {}
    /\ out' = <<>>
    /\ UNCHANGED <<bookVars, posVars, procVars, downloading,
                   tick_known, max_order_id, ban, phase>>

Crashes ==
    /\ LosesLink
    /\ Restart

Connects(mask) ==
    /\ XIdle
    /\ ~linked
    /\ BookAtStart => known
    /\ linked' = TRUE
    /\ inbox' = Download(mask)
    /\ UNCHANGED <<live, seen, position, acks, used>>
-----------------------------------------------------------------------------
(* The client's event loop                                                 *)

Receives(kind) ==
    /\ phase = "idle"
    /\ inbox # <<>>
    /\ Head(inbox).kind = kind
    /\ inbox' = Tail(inbox)
    /\ UNCHANGED <<live, seen, position, acks, linked, used>>

ReceivesUpdate ==
    Receives("OrderUpdate") /\ OrderUpdated(Head(inbox).value)
ReceivesStatus ==
    Receives("GatewayStatus") /\ GatewayStatus(Head(inbox).value)
ReceivesPosition ==
    Receives("PositionUpdate") /\ PositionUpdate(Head(inbox).value)
ReceivesReference ==
    Receives("ReferenceData") /\ ReferenceData
ReceivesBegin ==
    Receives("DownloadBegin") /\ DownloadBegin
ReceivesEnd ==
    Receives("DownloadEnd") /\ DownloadEnd(Head(inbox).value)

ReceivesAck ==
    /\ acks # <<>>
    /\ OrderAcked(Head(acks))
    /\ acks' = Tail(acks)
    /\ UNCHANGED <<live, seen, position, inbox, linked, used>>

ReceivesTrigger(d) ==
    /\ RateLimitTrigger(d)
    /\ Spend("rejects")
    /\ UNCHANGED <<live, seen, position, inbox, acks, linked>>

ReceivesTargets(t) ==
    /\ t # target
    /\ TargetQuotes(t) \/ TargetsDropped
    /\ Spend("changes")
    /\ UNCHANGED <<live, seen, position, inbox, acks, linked>>

ReceivesParameters(p) ==
    /\ ParametersUpdate(p)
    /\ IF known THEN p # params /\ Spend("changes") ELSE UNCHANGED used
    /\ UNCHANGED <<live, seen, position, inbox, acks, linked>>

Ticks(due) ==
    /\ due \/ ban > 0
    /\ Timer(1, due)
    /\ UNCHANGED xVars

Processes == Process /\ UNCHANGED xVars
-----------------------------------------------------------------------------
XInit ==
    /\ Init
    /\ live = <<>>
    /\ seen = [id \in Ids |-> 0]
    /\ position = 0
    /\ inbox = <<>>
    /\ acks = <<>>
    /\ linked = FALSE
    /\ used = [what \in DOMAIN Budget |-> 0]

Answers ==
    \/ AcceptsCreate \/ AcceptsModify \/ AcceptsCancel \/ RefusesLate
    \/ \E error \in Errors : Refuses(error)

ReceivesInbox ==
    \/ ReceivesUpdate \/ ReceivesStatus \/ ReceivesPosition
    \/ ReceivesBegin \/ ReceivesReference \/ ReceivesEnd

Happens ==
    \/ \E id \in DOMAIN live : \E q \in 1..live[id].remaining : Fills(id, q)
    \/ \E id \in DOMAIN live : \E q \in 0..live[id].remaining : Cancels(id, q)
    \/ \E mask \in Masks : Announces(mask)
    \/ Drops \/ Crashes
    \/ \E d \in 1..MaxBan : ReceivesTrigger(d)
    \/ \E t \in Targets : ReceivesTargets(t)
    \/ \E p \in ParamSets : ReceivesParameters(p)

Connecting == \E mask \in Masks : Connects(mask)

XNext ==
    \/ Processes \/ Answers \/ ReceivesInbox \/ ReceivesAck \/ Happens \/ Connecting
    \/ \E due \in BOOLEAN : Ticks(due)

XSpec == XInit /\ [][XNext]_vars
=============================================================================
