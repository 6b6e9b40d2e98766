------------------------------ MODULE Gateways ------------------------------
(***************************************************************************)
(* gateway::Manager (src/src/roq/core/gateway): what is known of every     *)
(* gateway, by the number of its connection and by its name.  Whether it   *)
(* is downloading and what it supports is kept by roq::cache::Gateway,     *)
(* which is not in the repository: it is modelled from what is read of it. *)
(***************************************************************************)
EXTENDS Integers, FiniteSets, Tables

CONSTANTS
    Sources,      \* numbers of the connections, MessageInfo.source
    SourceName    \* the gateway at the other end, MessageInfo.source_name

ASSUME GatewaysAssumption ==
    /\ Sources \subseteq Nat
    /\ DOMAIN SourceName = Sources

VARIABLES
    gateway_by_id,
    gateway_id_by_name

gatewayVars == <<gateway_by_id, gateway_id_by_name>>

NoSource == -1

(* core::Manager::expected_md_support                                      *)
MdSupport == {"REFERENCE_DATA", "TOP_OF_BOOK", "MARKET_BY_PRICE", "MARKET_STATUS"}

Gateway ==
    [gateway_name : {SourceName[s] : s \in Sources}, downloading : BOOLEAN,
     available : SUBSET MdSupport]

GatewaysInit ==
    /\ gateway_by_id = <<>>
    /\ gateway_id_by_name = <<>>

emplace_gateway(source) ==
    [gateway_name |-> SourceName[source], downloading |-> FALSE,
     available |-> {}, accounts |-> <<>>]

(* roq::cache::Gateway::operator(): a download of the whole gateway has an *)
(* empty account.                                                          *)
Downloads(gateway, account, begins) ==
    IF account = "" THEN [gateway EXCEPT !.downloading = begins]
    ELSE [gateway EXCEPT !.accounts = Put(@, account, begins)]

CacheGateway(gateway, e) ==
    CASE e.kind = "DownloadBegin" -> Downloads(gateway, e.account, TRUE)
      [] e.kind = "DownloadEnd"   -> Downloads(gateway, e.account, FALSE)
      [] e.kind = "GatewayStatus" -> [gateway EXCEPT !.available = e.available]
      [] e.kind = "Disconnected"  -> [gateway EXCEPT !.available = {}]
      [] OTHER -> gateway

(* Mutant: the cached gateway is made anew with every event.               *)
ForgetfulGateways(e) ==
    /\ gateway_by_id' =
         Put(gateway_by_id, e.source, CacheGateway(emplace_gateway(e.source), e))
    /\ gateway_id_by_name' = Put(gateway_id_by_name, SourceName[e.source], e.source)

GatewaysHandle(e) ==
    /\ gateway_by_id' =
         Put(gateway_by_id, e.source,
             CacheGateway(Get(gateway_by_id, e.source, emplace_gateway(e.source)), e))
    /\ gateway_id_by_name' = Put(gateway_id_by_name, SourceName[e.source], e.source)

is_ready(mask, source) ==
    /\ source \in DOMAIN gateway_by_id
    /\ mask \subseteq gateway_by_id[source].available

is_downloading(source) ==
    /\ source \in DOMAIN gateway_by_id
    /\ gateway_by_id[source].downloading

(* is_downloading(source, account): an account nothing is known of counts  *)
(* as downloading.                                                         *)
account_is_downloading(source, account) ==
    source \in DOMAIN gateway_by_id =>
        Get(gateway_by_id[source].accounts, account, TRUE)

get_source(ids, name) == Get(ids, name, NoSource)
=============================================================================
