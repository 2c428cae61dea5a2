-------------------------------- MODULE Server --------------------------------
(***************************************************************************)
(* The life of a server process: Bootstrap composes a context,             *)
(* ServerApplication binds its listeners, serves, and shuts down; sessions *)
(* and HTTP connections are tasks of their listeners and use the stores.   *)
(*                                                                         *)
(* The methods of ServerApplication take &mut self, so one method runs at  *)
(* a time; which one is called next is up to whoever embeds the server     *)
(* (main calls start, then run).  The cancellation token may be cancelled  *)
(* at any time.  Steps of the node registry, of binding a socket and of    *)
(* closing a store may fail; bounded by MaxFailures.                       *)
(*                                                                         *)
(* The asset listener's accept loop takes connections from the backlog one *)
(* by one; at its limit it writes the refusal itself, with a timeout.      *)
(***************************************************************************)
EXTENDS Config, Sequences, FiniteSets

CONSTANTS
  Environments,       \* what the environment may hold: see Config
  Sessions,           \* WebSocket peers
  Downloads,          \* peers of the asset listener
  Ports,              \* ports that the system picks for the asset listener
  MaxFailures         \* bound: failures of registry, sockets and stores

ASSUME ServerAssumption == MaxFailures \in Nat

ASSUME EnvironmentAssumption ==
  \A env \in Environments, s \in Numbers :
    env[s] \in Int \cup {Unset, Malformed}

VARIABLES
  pc,                 \* where the running method is; idle when none runs
  method,             \* the method called: start, serve, run, stdin, shutdown
  config,             \* the loaded configuration, at first none: <<>>
  lifecycle,          \* ServerLifecycle; health follows it
  node, registry,     \* node_state of the context; what the registry holds
  open,               \* the stores that are open
  listener,
  assetListener,      \* <<address>> once it is bound
  url,                \* public_base_url of the delivery service, <<>> if none
  sessions, downloads,  \* running connection tasks
  backlog,            \* peers of the asset listener that it has not accepted
  refusing,           \* <<the peer the accept loop is refusing>>, or <<>>
  cancelled,          \* the cancellation token
  failures,
  restarted           \* history: start() was called after a shutdown()

tasks == <<sessions, downloads>>
accepting == <<backlog, refusing>>
sockets == <<listener, assetListener, url>>
nodeVars == <<lifecycle, node, registry>>
vars == <<pc, method, config, nodeVars, open, sockets, tasks, accepting,
          cancelled, failures, restarted>>

None == <<>>
Address(host, port) == [host |-> host, port |-> port]
AssetDelivery == config["asset_delivery_enabled"]

Init ==
  /\ pc = "loading" /\ method = "none" /\ config = None
  /\ lifecycle = "Stopped" /\ node = "none" /\ registry = "none"
  /\ open = {}
  /\ listener = FALSE /\ assetListener = None /\ url = None
  /\ sessions = {} /\ downloads = {} /\ backlog = <<>> /\ refusing = None
  /\ cancelled = FALSE /\ failures = 0 /\ restarted = FALSE

Go(step) == pc' = step

Fails ==
  /\ failures < MaxFailures
  /\ failures' = failures + 1

\* register_node_state: the context's copy follows the registry.
Register(state) == node' = state /\ registry' = state

-----------------------------------------------------------------------------
(* main and Bootstrap::initialize                                          *)

Load ==
  /\ pc = "loading"
  /\ \E env \in Environments :
       IF Loads(env) THEN config' = Overridden(env) /\ Go("initializing")
                     ELSE Go("exited") /\ UNCHANGED config
  /\ UNCHANGED <<method, nodeVars, open, sockets, tasks, accepting, cancelled,
                 failures, restarted>>

\* The event store is opened, the node registered as starting ...
Initialize ==
  /\ pc = "initializing" /\ Valid(config) /\ Composes(config)
  /\ open' = {"event"}
  /\ lifecycle' = "Starting" /\ Register("Starting")
  /\ Go("composing")
  /\ UNCHANGED <<method, config, sockets, tasks, accepting, cancelled,
                 failures, restarted>>

\* ... and the rest composed.
Compose ==
  /\ pc = "composing"
  /\ open' = Stores
  /\ url' = IF AssetDelivery /\ config["asset_public_base_url"] # Unset
            THEN <<Address("public", 0)>> ELSE None
  /\ Go("idle")
  /\ UNCHANGED <<method, config, nodeVars, listener, assetListener, tasks,
                 accepting, cancelled, failures, restarted>>

\* A failure drops what was opened; a node that was registered is registered
\* as offline and removed, errors of these two calls ignored.
InitializeFails ==
  /\ pc \in {"initializing", "composing"}
  /\ Fails \/ (~(Valid(config) /\ Composes(config)) /\ UNCHANGED failures)
  /\ open' = {} /\ node' = "none"
  /\ registry' \in {"none"} \cup
       (IF pc = "composing" THEN {registry, "Offline"} ELSE {})
  /\ lifecycle' = "Stopped"
  /\ Go("exited")
  /\ UNCHANGED <<method, config, sockets, tasks, accepting, cancelled,
                 restarted>>

-----------------------------------------------------------------------------
(* start()                                                                 *)

\* Where a method goes once start() succeeded.
AfterStart(m) == IF m = "start" THEN "idle" ELSE "serving"

Call(m) ==
  /\ pc = "idle"
  /\ method' = m
  /\ Go(IF listener THEN AfterStart(m) ELSE "binding")
  /\ restarted' = (restarted \/ (~listener /\ lifecycle # "Starting"))
  /\ UNCHANGED <<config, nodeVars, open, sockets, tasks, accepting, cancelled,
                 failures>>

\* Mutant: the server is ready before its asset listener is bound.
BindReady ==
  /\ pc = "binding" /\ Binds(config)
  /\ listener' = TRUE
  /\ lifecycle' = "Ready" /\ Register("Ready")
  /\ Go(IF AssetDelivery THEN "binding_assets" ELSE "marking")
  /\ UNCHANGED <<method, config, open, assetListener, url, tasks, accepting,
                 cancelled, failures, restarted>>

Bind ==
  /\ pc = "binding" /\ Binds(config)
  /\ listener' = TRUE
  /\ Go(IF AssetDelivery THEN "binding_assets" ELSE "marking")
  /\ UNCHANGED <<method, config, nodeVars, open, assetListener, url, tasks,
                 accepting, cancelled, failures, restarted>>

\* set_bound_public_base_url: a URL that there is already stays, and the host
\* of a new one is 127.0.0.1.
BindAssets ==
  /\ pc = "binding_assets" /\ BindsAssets(config)
  /\ \E p \in Ports :
       /\ assetListener' = <<Address(config["asset_listen_addr"], p)>>
       /\ url' = IF url = None THEN <<Address("127.0.0.1", p)>> ELSE url
  /\ Go("marking")
  /\ UNCHANGED <<method, config, nodeVars, open, listener, tasks, accepting,
                 cancelled, failures, restarted>>

\* Mutant: a failed start leaves the lifecycle as it is.
NoRollBack == Go("idle")

\* rollback_startup, unless the lifecycle is stopped.
RollBack == Go(IF lifecycle = "Stopped" THEN "idle" ELSE "rolling_back")

\* Neither listener is kept when one is not bound; there are no tasks yet.
Unbound ==
  /\ pc \in {"binding", "binding_assets"}
  /\ listener' = FALSE
  /\ RollBack
  /\ UNCHANGED <<method, config, nodeVars, open, assetListener, url, tasks,
                 accepting, cancelled, restarted>>

\* The socket cannot be bound ...
BindFails == Unbound /\ Fails

\* ... or the listener's constructor refuses the configuration.
BindRefused ==
  /\ Unbound
  /\ ~(IF pc = "binding" THEN Binds(config) ELSE BindsAssets(config))
  /\ UNCHANGED failures

\* mark_ready: the node is registered as ready, then the lifecycle is; that
\* is an error unless it was starting.
MarkReady ==
  /\ pc = "marking"
  /\ Register("Ready")
  /\ IF lifecycle = "Starting"
     THEN lifecycle' = "Ready" /\ Go(AfterStart(method))
     ELSE Go("unwinding") /\ UNCHANGED lifecycle
  /\ UNCHANGED <<method, config, open, sockets, tasks, accepting, cancelled,
                 failures, restarted>>

MarkFails ==
  /\ pc = "marking"
  /\ Fails
  /\ Go("unwinding")
  /\ UNCHANGED <<method, config, nodeVars, open, sockets, tasks, accepting,
                 cancelled, restarted>>

Unwind ==
  /\ pc = "unwinding"
  /\ cancelled' = TRUE
  /\ sessions' = {} /\ downloads' = {}
  /\ listener' = FALSE /\ assetListener' = None /\ backlog' = <<>>
  /\ RollBack
  /\ UNCHANGED <<method, config, nodeVars, open, url, refusing, failures,
                 restarted>>

-----------------------------------------------------------------------------
(* serve_after_start(), and the tasks of the listeners.                    *)

\* A connection beyond the limit is dropped at once.
Accept(s) ==
  /\ pc = "serving" /\ s \notin sessions
  /\ Cardinality(sessions) < config["max_connections"]
  /\ sessions' = sessions \cup {s}
  /\ UNCHANGED <<pc, method, config, nodeVars, open, sockets, downloads,
                 accepting, cancelled, failures, restarted>>

\* The system takes connections as soon as the socket listens.
Connect(d) ==
  /\ assetListener # None
  /\ d \notin downloads
  /\ \A i \in DOMAIN backlog : backlog[i] # d
  /\ refusing # <<d>>
  /\ backlog' = Append(backlog, d)
  /\ UNCHANGED <<pc, method, config, nodeVars, open, sockets, tasks, refusing,
                 cancelled, failures, restarted>>

\* Mutant: the loop waits for a connection to end.
AcceptDownloadWaits ==
  /\ pc = "serving" /\ backlog # <<>> /\ refusing = None
  /\ Cardinality(downloads) < config["asset_max_connections"]
  /\ downloads' = downloads \cup {Head(backlog)}
  /\ backlog' = Tail(backlog)
  /\ UNCHANGED <<pc, method, config, nodeVars, open, sockets, sessions,
                 refusing, cancelled, failures, restarted>>

\* The accept loop of the asset listener takes the next connection ...
AcceptDownload ==
  /\ pc = "serving" /\ backlog # <<>> /\ refusing = None
  /\ backlog' = Tail(backlog)
  /\ IF Cardinality(downloads) < config["asset_max_connections"]
     THEN downloads' = downloads \cup {Head(backlog)} /\ UNCHANGED refusing
     ELSE refusing' = <<Head(backlog)>> /\ UNCHANGED downloads
  /\ UNCHANGED <<pc, method, config, nodeVars, open, sockets, sessions,
                 cancelled, failures, restarted>>

\* ... and goes on when its refusal is written, or timed out.
Refused ==
  /\ pc = "serving" /\ refusing # None
  /\ refusing' = None
  /\ UNCHANGED <<pc, method, config, nodeVars, open, sockets, tasks, backlog,
                 cancelled, failures, restarted>>

AcceptLoop == AcceptDownload \/ Refused

TaskEnds(t) ==
  /\ t \in sessions \cup downloads
  /\ sessions' = sessions \ {t} /\ downloads' = downloads \ {t}
  /\ UNCHANGED <<pc, method, config, nodeVars, open, sockets, accepting,
                 cancelled, failures, restarted>>

CancelToken ==
  /\ pc \notin {"loading", "initializing", "composing", "exited"}
  /\ ~cancelled /\ cancelled' = TRUE
  /\ UNCHANGED <<pc, method, config, nodeVars, open, sockets, tasks,
                 accepting, failures, restarted>>

\* shutdown(), also as the last part of serve and run.
ToShutdown == Go(IF lifecycle = "Stopped" THEN "idle" ELSE "beginning")

\* A listener sees the cancellation ...
ServeEnds ==
  /\ pc = "serving" /\ cancelled
  /\ ToShutdown
  /\ refusing' = None
  /\ UNCHANGED <<method, config, nodeVars, open, sockets, tasks, backlog,
                 cancelled, failures, restarted>>

\* ... or the process gets its signal or its line, which it may never do.
Signalled ==
  /\ pc = "serving" /\ method \in {"run", "stdin"}
  /\ ToShutdown
  /\ refusing' = None
  /\ UNCHANGED <<method, config, nodeVars, open, sockets, tasks, backlog,
                 cancelled, failures, restarted>>

\* accept() fails on either listener, or standard input does.
ServeFails ==
  /\ pc = "serving"
  /\ Fails
  /\ ToShutdown
  /\ refusing' = None
  /\ UNCHANGED <<method, config, nodeVars, open, sockets, tasks, backlog,
                 cancelled, restarted>>

\* run() cannot wait for the signal: it returns without shutting down.
SignalFails ==
  /\ pc = "serving" /\ method = "run"
  /\ Fails
  /\ Go("idle")
  /\ refusing' = None
  /\ UNCHANGED <<method, config, nodeVars, open, sockets, tasks, backlog,
                 cancelled, restarted>>

CallShutdown ==
  /\ pc = "idle"
  /\ method' = "shutdown"
  /\ ToShutdown
  /\ UNCHANGED <<config, nodeVars, open, sockets, tasks, accepting, cancelled,
                 failures, restarted>>

-----------------------------------------------------------------------------
(* begin_shutdown, the drain, finish_shutdown                              *)

BeginLifecycle == lifecycle' = "Draining"

\* Mutant: the stores are closed before the listeners are drained.
BeginAndClose ==
  /\ pc \in {"beginning", "rolling_back"}
  /\ BeginLifecycle /\ Register("Draining")
  /\ cancelled' = (cancelled \/ pc = "beginning")
  /\ Go(IF pc = "beginning" THEN "draining" ELSE "closing")
  /\ open' = {}
  /\ UNCHANGED <<method, config, sockets, tasks, accepting, failures,
                 restarted>>

Begin ==
  /\ pc \in {"beginning", "rolling_back"}
  /\ BeginLifecycle /\ Register("Draining")
  /\ cancelled' = (cancelled \/ pc = "beginning")
  /\ Go(IF pc = "beginning" THEN "draining" ELSE "closing")
  /\ UNCHANGED <<method, config, open, sockets, tasks, accepting, failures,
                 restarted>>

\* The registry fails after the lifecycle went to draining: shutdown() returns
\* at once, a rollback goes on.
BeginFails ==
  /\ pc \in {"beginning", "rolling_back"}
  /\ node # "Draining" /\ Fails
  /\ BeginLifecycle
  /\ Go(IF pc = "beginning" THEN "idle" ELSE "closing")
  /\ UNCHANGED <<method, config, node, registry, open, sockets, tasks,
                 accepting, cancelled, restarted>>

\* Mutant: only when every session has ended by itself.
DrainWaits ==
  /\ pc = "draining" /\ sessions = {}
  /\ sessions' = {}
  /\ Go("draining_assets")
  /\ UNCHANGED <<method, config, nodeVars, open, sockets, downloads,
                 accepting, cancelled, failures, restarted>>

\* Every session has ended, or the grace period has and the rest is aborted.
Drain ==
  /\ pc = "draining"
  /\ sessions' = {}
  /\ Go("draining_assets")
  /\ UNCHANGED <<method, config, nodeVars, open, sockets, downloads,
                 accepting, cancelled, failures, restarted>>

DrainAssets ==
  /\ pc = "draining_assets"
  /\ downloads' = {}
  /\ listener' = FALSE /\ assetListener' = None /\ backlog' = <<>>
  /\ Go("closing")
  /\ UNCHANGED <<method, config, nodeVars, open, url, sessions, refusing,
                 cancelled, failures, restarted>>

\* close() of the stores, in this order; closing a closed one succeeds.
CloseStores ==
  /\ pc = "closing"
  /\ open' = {}
  /\ Go("leaving")
  /\ UNCHANGED <<method, config, nodeVars, sockets, tasks, accepting,
                 cancelled, failures, restarted>>

\* The first error ends finish_shutdown: the stores behind it stay open; the
\* one that failed may be closed all the same.
CloseFails ==
  /\ pc = "closing" /\ Fails
  /\ open' \in {open, open \ {"event"}, open \ {"event", "asset"}, {}}
  /\ Go("idle")
  /\ UNCHANGED <<method, config, nodeVars, sockets, tasks, accepting,
                 cancelled, restarted>>

\* Mutant: a node that was never ready is not unregistered.
LeaveReady ==
  /\ pc = "leaving"
  /\ node' = "Offline"
  /\ registry' = IF node = "Draining" THEN "none" ELSE registry
  /\ lifecycle' = IF lifecycle = "Draining" THEN "Stopped" ELSE lifecycle
  /\ Go("idle")
  /\ UNCHANGED <<method, config, open, sockets, tasks, accepting, cancelled,
                 failures, restarted>>

\* The node is registered as offline, unregistered, and the lifecycle stopped.
Leave ==
  /\ pc = "leaving"
  /\ node' = "Offline" /\ registry' = "none"
  /\ lifecycle' = IF lifecycle = "Draining" THEN "Stopped" ELSE lifecycle
  /\ Go("idle")
  /\ UNCHANGED <<method, config, open, sockets, tasks, accepting, cancelled,
                 failures, restarted>>

\* One of the two calls of the registry fails.
LeaveFails ==
  /\ pc = "leaving" /\ Fails
  /\ \/ UNCHANGED <<node, registry>>
     \/ Register("Offline")
  /\ Go("idle")
  /\ UNCHANGED <<method, config, lifecycle, open, sockets, tasks, accepting,
                 cancelled, restarted>>

-----------------------------------------------------------------------------
\* What a method that has been called does next by itself ...
MethodStep ==
  \/ Bind \/ BindAssets \/ BindRefused \/ MarkReady \/ Unwind
  \/ ServeEnds \/ Begin \/ Drain \/ DrainAssets \/ CloseStores \/ Leave

\* ... and what happens to it.
MethodMeets ==
  \/ BindFails \/ MarkFails \/ Signalled \/ ServeFails \/ SignalFails
  \/ BeginFails \/ CloseFails \/ LeaveFails

Next ==
  \/ Load \/ Initialize \/ Compose \/ InitializeFails
  \/ \E m \in {"start", "serve", "run", "stdin"} : Call(m)
  \/ CallShutdown
  \/ MethodStep \/ MethodMeets
  \/ \E s \in Sessions : Accept(s)
  \/ \E d \in Downloads : Connect(d)
  \/ AcceptLoop
  \/ \E t \in Sessions \cup Downloads : TaskEnds(t)
  \/ CancelToken

\* A method that was called is polled, and with it the accept loop, whose
\* refusals time out.  Nothing is bound to fail, no signal to come, no token to
\* be cancelled, and tasks may run for ever.
Spec == Init /\ [][Next]_vars /\ WF_vars(MethodStep) /\ WF_vars(AcceptLoop)

-----------------------------------------------------------------------------
\* What values the variables take.
ServerTypeOK ==
  /\ pc \in {"loading", "initializing", "composing", "exited", "idle",
             "binding", "binding_assets", "marking", "unwinding",
             "rolling_back", "serving", "beginning", "draining",
             "draining_assets", "closing", "leaving"}
  /\ lifecycle \in {"Starting", "Ready", "Draining", "Stopped"}
  /\ {node, registry} \subseteq {"none", "Starting", "Ready", "Draining",
                                 "Offline"}
  /\ open \subseteq Stores
  /\ sessions \subseteq Sessions /\ downloads \subseteq Downloads
  /\ backlog \in Seq(Downloads)
  /\ (refusing # None => pc = "serving")
  /\ (sessions # {} => listener)
  /\ (downloads # {} \/ backlog # <<>> => assetListener # None)

\* Health reports ready only while every configured listener is bound, every
\* store is open and the node is registered as ready, whichever step of a
\* start or a shutdown fails and whatever is retried.
ReadyMeansServing ==
  lifecycle = "Ready" =>
    /\ listener /\ (AssetDelivery => assetListener # None)
    /\ open = Stores /\ registry = "Ready"

\* No connection task ever runs on a closed store: the drain comes first, in
\* shutdown(), in its retries and in the rollback of a start.
StoresOutliveTasks == sessions \cup downloads # {} => open = Stores

\* A server that has stopped has given everything back: no listener, no task,
\* no open store, no entry in the registry.  A server that start() was called
\* on again, after a shutdown() or a start() that failed, is not included: its
\* mark_ready registers the node once more, and the start then fails.
StoppedLeavesNothing ==
  lifecycle = "Stopped" /\ pc = "idle" /\ ~restarted =>
    /\ ~listener /\ assetListener = None
    /\ sessions \cup downloads = {} /\ open = {} /\ registry = "none"

\* While a session can ask for access to an asset, the URL it is given is the
\* public one, or that of the socket now listening: the URL taken from the
\* first bind outlives its listener, so no second bind may ever serve.  (A
\* listener on another loopback address is advertised as 127.0.0.1: see
\* UrlReachesListener.)
AdvertisedIsBound ==
  sessions # {} /\ AssetDelivery /\ config["asset_listen_addr"] # "loopback" =>
    url # None /\ (url[1].host = "public" \/ url = assetListener)

\* The same of every loopback address, as validate() needs no public URL for
\* them: "loopback_port_zero_can_derive_public_url_after_bind".
UrlReachesListener ==
  sessions # {} /\ AssetDelivery =>
    url # None /\ (url[1].host = "public" \/ url = assetListener)

\* A configuration that load() lets through starts unless something outside
\* fails: no constructor behind it refuses what validate() accepted.  (Limits
\* above what tokio's semaphores and channels hold are left out.)
ValidatedStarts ==
  config # None /\ failures = 0 /\ ~restarted
  /\ (\A s \in Numbers : config[s] <= MaxPermits) =>
    pc \notin {"exited", "unwinding", "rolling_back"}

\* Every method returns, though sessions never end by themselves and nothing
\* fails: start() and shutdown() always, and one that serves once the token is
\* cancelled; uncancelled, it gets as far as its accept loops or returns.
MethodsReturn ==
  (method # "none" /\ (pc = "serving" => cancelled))
    ~> (pc = "idle" \/ (pc = "serving" /\ ~cancelled))

\* A peer waiting for the asset listener is accepted or refused while the
\* server serves, though every connection it has goes on for ever and the
\* loop that accepts writes the refusals, one at a time, itself.
EveryPeerIsTaken ==
  \A d \in Downloads :
    (pc = "serving" /\ \E i \in DOMAIN backlog : backlog[i] = d)
      ~> (pc # "serving" \/ \A i \in DOMAIN backlog : backlog[i] # d)
=============================================================================
