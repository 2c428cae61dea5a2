-------------------------------- MODULE Config --------------------------------
(***************************************************************************)
(* ServerConfig: overrides read from the environment, what validate()      *)
(* accepts, and what the constructors that are given the settings accept.  *)
(*                                                                         *)
(* A setting is Unset, or what its text parses to; Malformed stands for a  *)
(* text that is not UTF-8 or does not parse.  A path is its text's being   *)
(* empty or not, a float that is not finite is 0, the address of the asset *)
(* listener 127.0.0.1, another loopback address or one that is none.       *)
(***************************************************************************)
EXTENDS Integers

CONSTANTS
  Unset, Malformed,
  MaxScan,            \* MAX_HISTORY_STORE_SCAN_LIMIT
  MaxPermits          \* tokio's limit for semaphores and channels

ASSUME ConfigAssumption ==
  Unset # Malformed /\ MaxScan \in Nat /\ MaxPermits \in Nat \ {0}

ListenerNumbers == {"max_connections", "handshake_timeout",
                    "shutdown_grace_period"}
DeliveryNumbers == {"asset_max_connections", "asset_max_active_downloads",
                    "asset_chunk_size", "asset_idle_timeout",
                    "asset_grant_ttl", "asset_max_grants"}
CanvasNumbers == {"canvas_width", "canvas_height"}
QueueCapacities == {"subscription_queue_capacity",
                    "sqlite_command_queue_capacity"}
Numbers == ListenerNumbers \cup DeliveryNumbers \cup CanvasNumbers
             \cup QueueCapacities \cup {"history_store_scan_limit"}
Stores == {"event", "asset", "catalog"}     \* named for their paths
Flags == {"development_mode", "asset_delivery_enabled"}

\* Settings that are parsed and checked no further.
Parsed == {"node_id", "bind_addr", "canvas_session_id", "canvas_id",
           "canvas_layer_id", "development_pdf_path"}

Settings == Numbers \cup Stores \cup Flags \cup Parsed
              \cup {"websocket_path", "asset_listen_addr",
                    "asset_public_base_url"}

\* ServerConfig::default; 1 stands for a number that is positive.
Default ==
  [s \in Settings |->
     CASE s \in Numbers             -> 1
       [] s \in Flags               -> FALSE
       [] s = "websocket_path"      -> "absolute"
       [] s = "asset_listen_addr"   -> "127.0.0.1"
       [] OTHER                     -> Unset]

\* The path of the PDF is read in development mode only.
ReadFrom(env) ==
  IF env["development_mode"] = TRUE THEN Settings
  ELSE Settings \ {"development_pdf_path"}

Overridden(env) ==
  [s \in Settings |-> IF s \in ReadFrom(env) /\ env[s] # Unset
                      THEN env[s] ELSE Default[s]]

-----------------------------------------------------------------------------
(* validate()                                                              *)

Positive(c, numbers) == \A s \in numbers : c[s] > 0

\* validate_public_base_url: an absolute http or https URL with a host that
\* is not the unspecified address, a port that fits, and nothing behind it.
PublicBaseUrlValid(url) ==
  /\ url.scheme \in {"http", "https"}
  /\ url.host \notin {"", "unspecified"}
  /\ url.port \in {"none", "u16"}
  /\ url.rest \in {"", "/"}

ListenerValid(c) ==
  c["websocket_path"] = "absolute" /\ Positive(c, ListenerNumbers)

\* Loopback addresses need no public URL.
DeliveryValid(c) ==
  /\ Positive(c, DeliveryNumbers)
  /\ IF c["asset_public_base_url"] # Unset
     THEN PublicBaseUrlValid(c["asset_public_base_url"])
     ELSE c["asset_delivery_enabled"] => c["asset_listen_addr"] \in {"127.0.0.1", "loopback"}

\* Mutant: one scan too many.
ValidScans(c) ==
  /\ Positive(c, QueueCapacities)
  /\ c["history_store_scan_limit"] \in 1..MaxScan + 1
  /\ ListenerValid(c)
  /\ Positive(c, CanvasNumbers)
  /\ DeliveryValid(c)
  /\ \A s \in Stores : c[s] # "empty"

Valid(c) ==
  /\ Positive(c, QueueCapacities)
  /\ c["history_store_scan_limit"] \in 1..MaxScan
  /\ ListenerValid(c)
  /\ Positive(c, CanvasNumbers)
  /\ DeliveryValid(c)
  /\ \A s \in Stores : c[s] # "empty"

\* load(): every override parses, and the whole is valid.
Loads(env) ==
  (\A s \in ReadFrom(env) : env[s] # Malformed) /\ Valid(Overridden(env))

-----------------------------------------------------------------------------
(* What the constructors check, or panic of.                               *)

Permits(n) == n \in 1..MaxPermits

\* The stores with a path have a command queue each.
StoresOpen(c) ==
  (\E s \in Stores : c[s] # Unset) => Permits(c["sqlite_command_queue_capacity"])

\* MemoryEventBus::with_queue_capacity
BusOpens(c) == Permits(c["subscription_queue_capacity"])

\* CanvasHistoryQueryHandler::new; the size limit of messages is not a setting.
HistoryAccepts(c) == c["history_store_scan_limit"] \in 1..MaxScan

\* AssetDeliveryService::new, where delivery is enabled.
DeliveryAccepts(c) == c["asset_delivery_enabled"] => DeliveryValid(c)

Composes(c) ==
  StoresOpen(c) /\ BusOpens(c) /\ HistoryAccepts(c) /\ DeliveryAccepts(c)

\* WebSocketListener::bind with its supervisor, and AssetHttpListener::bind.
Binds(c) == ListenerValid(c) /\ Permits(c["max_connections"])

BindsAssets(c) ==
  /\ DeliveryValid(c)
  /\ Permits(c["asset_max_connections"])
  /\ Permits(c["asset_max_active_downloads"])
=============================================================================
