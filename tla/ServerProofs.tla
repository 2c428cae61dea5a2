----------------------------- MODULE ServerProofs -----------------------------
(***************************************************************************)
(* For any environments, peers and ports, and any number of failures: what *)
(* readiness promises, that tasks never run on closed stores, that a       *)
(* stopped server has given everything back, that sessions are given a URL *)
(* that is bound, and that a configuration that validates starts.          *)
(***************************************************************************)
EXTENDS Server, TLAPS

Early == {"loading", "initializing", "composing", "exited"}
Rising == {"binding_assets", "marking", "unwinding"}

\* Where the methods are, with which lifecycle; a start() that is not the
\* first one is remembered.
PhaseInv ==
  /\ failures \in Nat
  /\ pc = "loading" => config = None
  /\ pc \in Early => ~listener /\ ~restarted
  /\ pc \in {"loading", "initializing", "exited"} => lifecycle = "Stopped"
  /\ pc = "composing" => lifecycle = "Starting"
  /\ pc \in {"draining", "draining_assets", "closing", "leaving"}
       => lifecycle = "Draining"
  /\ pc \in Rising \cup {"binding"} => lifecycle = "Starting" \/ restarted
  /\ lifecycle = "Ready" => pc \in {"idle", "serving", "beginning"}

\* What was loaded is valid.
ConfigInv ==
  pc \notin {"loading", "exited"} =>
    Valid(config) /\ \A s \in Numbers : config[s] \in Int

\* Who holds what: tasks need a listener, and but for the steps that lead up
\* to readiness a listener needs all stores.
HeldInv ==
  /\ pc \in {"binding", "rolling_back", "closing", "leaving"} => ~listener
  /\ pc \in {"serving", "binding_assets", "marking"} => listener
  /\ ~listener => assetListener = None /\ sessions = {} /\ downloads = {}
  /\ pc = "binding_assets" => assetListener = None
  /\ pc \in Rising => sessions = {} /\ downloads = {}
  /\ pc = "draining_assets" => sessions = {}
  /\ listener /\ pc \notin {"binding_assets", "unwinding"} =>
       (AssetDelivery => assetListener # None)
  /\ listener /\ pc \notin Rising => open = Stores /\ lifecycle # "Starting"
  /\ lifecycle \in {"Starting", "Ready"} /\ pc # "composing" => open = Stores
  /\ pc = "leaving" => open = {}
  /\ lifecycle = "Ready" => listener /\ registry = "Ready"

StoppedInv ==
  lifecycle = "Stopped" /\ ~restarted /\ pc \notin Early =>
    pc = "idle" /\ ~listener /\ open = {} /\ registry = "none"

Advertised == url # None /\ (url[1].host = "public" \/ url = assetListener)
PublicUrlSet == config["asset_public_base_url"] # Unset

\* The derived URL is taken from the first bind, and only a start() that has
\* bound nothing before can become ready.
UrlInv ==
  pc \notin Early /\ AssetDelivery =>
    /\ PublicUrlSet => url = <<Address("public", 0)>>
    /\ ~PublicUrlSet /\ lifecycle = "Starting"
       /\ pc \in {"idle", "binding", "binding_assets"} => url = None
    /\ config["asset_listen_addr"] # "loopback" /\ listener
       /\ (pc \notin Rising \/ (lifecycle = "Starting" /\ pc = "marking"))
         => Advertised

IInv ==
  /\ PhaseInv /\ ConfigInv /\ HeldInv /\ StoppedInv /\ UrlInv
  /\ ValidatedStarts

-----------------------------------------------------------------------------
\* load() returns numbers, and a valid configuration.
LEMMA LoadedIsValid ==
  ASSUME NEW env \in Environments, Loads(env)
  PROVE  /\ Valid(Overridden(env))
         /\ \A s \in Numbers : Overridden(env)[s] \in Int
<1> SUFFICES ASSUME NEW s \in Numbers PROVE Overridden(env)[s] \in Int
  BY Zenon DEF Loads
<1>1. s \in ReadFrom(env) /\ s \in Settings
  BY Zenon DEF ReadFrom, Settings, Numbers, ListenerNumbers, DeliveryNumbers,
         CanvasNumbers, QueueCapacities
<1>2. Default[s] = 1
  BY <1>1, Zenon DEF Default, Settings, Flags, Numbers, ListenerNumbers,
         DeliveryNumbers, CanvasNumbers, QueueCapacities
<1>3. env[s] # Malformed
  BY <1>1, Zenon DEF Loads
<1>4. CASE env[s] = Unset
  BY <1>1, <1>2, <1>4 DEF Overridden
<1>5. CASE env[s] # Unset
  <2>1. env[s] \in Int
    BY <1>3, <1>5, EnvironmentAssumption, Zenon
  <2> QED
    BY <1>1, <1>5, <2>1, Zenon DEF Overridden
<1> QED
  BY <1>4, <1>5, Zenon

\* No constructor refuses what validate() accepts, up to tokio's limits.
LEMMA ValidIsAccepted ==
  ASSUME NEW c, Valid(c),
         \A s \in Numbers : c[s] \in Int /\ c[s] <= MaxPermits
  PROVE  Composes(c) /\ Binds(c) /\ BindsAssets(c)
<1>1. \A s \in Numbers : c[s] > 0 => Permits(c[s])
  BY ConfigAssumption DEF Permits
<1>2. /\ Positive(c, QueueCapacities) /\ ListenerValid(c) /\ DeliveryValid(c)
      /\ c["history_store_scan_limit"] \in 1..MaxScan
  BY Zenon DEF Valid
<1>3. /\ {"subscription_queue_capacity", "sqlite_command_queue_capacity"}
           \subseteq QueueCapacities \cap Numbers
      /\ "max_connections" \in ListenerNumbers \cap Numbers
      /\ {"asset_max_connections", "asset_max_active_downloads"}
           \subseteq DeliveryNumbers \cap Numbers
  BY Zenon DEF Numbers, ListenerNumbers, DeliveryNumbers, QueueCapacities
<1>4. /\ Permits(c["subscription_queue_capacity"])
      /\ Permits(c["sqlite_command_queue_capacity"])
  BY <1>1, <1>2, <1>3, Zenon DEF Positive
<1>5. Permits(c["max_connections"])
  BY <1>1, <1>2, <1>3, Zenon DEF Positive, ListenerValid
<1>6. /\ Permits(c["asset_max_connections"])
      /\ Permits(c["asset_max_active_downloads"])
  BY <1>1, <1>2, <1>3, Zenon DEF Positive, DeliveryValid
<1> QED
  BY <1>2, <1>4, <1>5, <1>6, Zenon DEF Composes, StoresOpen, BusOpens,
     HistoryAccepts, DeliveryAccepts, Binds, BindsAssets

\* The server starts in the invariant.
LEMMA InitIInv == Init => IInv
BY DEF Init, IInv, PhaseInv, ConfigInv, HeldInv, StoppedInv, UrlInv,
       ValidatedStarts, Early, Rising

-----------------------------------------------------------------------------
\* Every step of main, of a method, of the accept loops and of a task keeps
\* the invariant; the failures of both binds need that validate() let the
\* configuration through.
LEMMA StepIInv == IInv /\ [Next]_vars => IInv'
<1> SUFFICES ASSUME IInv, [Next]_vars PROVE IInv'
  BY Zenon
<1> USE DEF IInv, PhaseInv, ConfigInv, HeldInv, StoppedInv, UrlInv,
            ValidatedStarts, Advertised, PublicUrlSet, AssetDelivery, Early,
            Rising, Go, Register, Fails, tasks, accepting, sockets, nodeVars,
            None, Address
<1>1. CASE Load
  BY <1>1, LoadedIsValid, Zenon DEF Load
<1>2. CASE Initialize
  BY <1>2, Zenon DEF Initialize
<1>3. CASE Compose
  BY <1>3, Zenon DEF Compose
<1>4. CASE InitializeFails
  BY <1>4, ValidIsAccepted DEF InitializeFails
<1>5. CASE Bind
  BY <1>5, Zenon DEF Bind
<1>6. CASE BindAssets
  BY <1>6 DEF BindAssets, BindsAssets, DeliveryValid
<1>7. CASE BindFails
  BY <1>7 DEF BindFails, Unbound, RollBack
<1>8. CASE MarkReady
  BY <1>8, Zenon DEF MarkReady, AfterStart
<1>9. CASE MarkFails
  BY <1>9 DEF MarkFails
<1>10. CASE Unwind
  BY <1>10, Zenon DEF Unwind, RollBack
<1>11. CASE ServeEnds
  BY <1>11, Zenon DEF ServeEnds, ToShutdown
<1>12. CASE ServeFails
  BY <1>12 DEF ServeFails, ToShutdown
<1>13. CASE SignalFails
  BY <1>13 DEF SignalFails
<1>14. CASE Begin
  BY <1>14, Zenon DEF Begin, BeginLifecycle
<1>15. CASE BeginFails
  BY <1>15 DEF BeginFails, BeginLifecycle
<1>16. CASE Drain
  BY <1>16, Zenon DEF Drain
<1>17. CASE DrainAssets
  BY <1>17, Zenon DEF DrainAssets
<1>18. CASE CloseStores
  BY <1>18, Zenon DEF CloseStores
<1>19. CASE CloseFails
  BY <1>19 DEF CloseFails
<1>20. CASE Leave
  BY <1>20, Zenon DEF Leave
<1>21. CASE LeaveFails
  BY <1>21 DEF LeaveFails
<1>22. CASE CallShutdown
  BY <1>22 DEF CallShutdown, ToShutdown
<1>23. CASE AcceptDownload
  BY <1>23, Zenon DEF AcceptDownload
<1>24. CASE Refused
  BY <1>24, Zenon DEF Refused
<1>25. CASE CancelToken
  BY <1>25 DEF CancelToken
<1>26. ASSUME NEW m \in {"start", "serve", "run", "stdin"}, Call(m) PROVE IInv'
  <2>1. CASE listener
    <3>1. pc = "idle" /\ pc' \in {"idle", "serving"} /\ (restarted' <=> restarted)
      BY <1>26, <2>1, Zenon DEF Call, AfterStart
    <3> QED
      BY <1>26, <2>1, <3>1, Zenon DEF Call
  <2>2. CASE ~listener
    BY <1>26, <2>2, Zenon DEF Call
  <2> QED
    BY <2>1, <2>2, Zenon
<1>27. ASSUME NEW s \in Sessions, Accept(s) PROVE IInv'
  BY <1>27, Zenon DEF Accept
<1>28. ASSUME NEW d \in Downloads, Connect(d) PROVE IInv'
  BY <1>28 DEF Connect
<1>29. ASSUME NEW t \in Sessions \cup Downloads, TaskEnds(t) PROVE IInv'
  BY <1>29 DEF TaskEnds
<1>30. CASE BindRefused
  BY <1>30, ValidIsAccepted DEF BindRefused, Unbound, RollBack
<1>31. CASE Signalled
  BY <1>31, Zenon DEF Signalled, ToShutdown
<1>32. CASE UNCHANGED vars
  BY <1>32 DEF vars
<1> QED
  BY <1>1, <1>2, <1>3, <1>4, <1>5, <1>6, <1>7, <1>8, <1>9, <1>10, <1>11,
     <1>12, <1>13, <1>14, <1>15, <1>16, <1>17, <1>18, <1>19, <1>20, <1>21,
     <1>22, <1>23, <1>24, <1>25, <1>26, <1>27, <1>28, <1>29, <1>30, <1>31, <1>32, Zenon
     DEF Next, MethodStep, MethodMeets, AcceptLoop

-----------------------------------------------------------------------------
\* The invariant holds in every state of the server.
LEMMA SpecIInv == Spec => []IInv
BY InitIInv, StepIInv, PTL DEF Spec

\* ReadyMeansServing, for any number of failures and retries: health reports
\* ready only while every listener is bound, every store is open and the node
\* is registered as ready (ServerApplication::start, mark_ready, shutdown).
THEOREM Ready == Spec => []ReadyMeansServing
<1>1. IInv => ReadyMeansServing
  BY Zenon DEF IInv, PhaseInv, HeldInv, Rising, ReadyMeansServing
<1> QED
  BY <1>1, SpecIInv, PTL

\* StoresOutliveTasks, for any number of peers: shutdown() and
\* rollback_startup drain the tasks before finish_shutdown closes a store.
THEOREM Outlived == Spec => []StoresOutliveTasks
<1>1. IInv => StoresOutliveTasks
  BY Zenon DEF IInv, HeldInv, StoresOutliveTasks
<1> QED
  BY <1>1, SpecIInv, PTL

\* StoppedLeavesNothing: a server whose lifecycle is stopped holds no listener,
\* task, store or registration, unless start() was called again.
THEOREM Released == Spec => []StoppedLeavesNothing
<1>1. IInv => StoppedLeavesNothing
  BY Zenon DEF IInv, StoppedInv, HeldInv, Early, StoppedLeavesNothing
<1> QED
  BY <1>1, SpecIInv, PTL

\* AdvertisedIsBound: the URL that set_bound_public_base_url kept from the
\* first bind is the one of the socket that serves, whatever failed before.
THEOREM AdvertisedUrl == Spec => []AdvertisedIsBound
<1>1. IInv => AdvertisedIsBound
  BY Zenon DEF IInv, PhaseInv, HeldInv, UrlInv, Early, Rising, Advertised,
         AdvertisedIsBound
<1> QED
  BY <1>1, SpecIInv, PTL

\* ValidatedStarts, for every environment: what ServerConfig::validate accepts
\* no constructor behind it refuses.
THEOREM Validated == Spec => []ValidatedStarts
<1>1. IInv => ValidatedStarts
  BY Zenon DEF IInv
<1> QED
  BY <1>1, SpecIInv, PTL
=============================================================================
