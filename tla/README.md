# Verification of OrbitRelay Server

TLA+ models of the single-node OrbitRelay server, TLC configurations that check
them on small instances, and TLAPS proofs of the properties that matter most.
Every definition is translated from the source; `PROJECT.json` maps each one to
the lines it stands for. Paths below are relative to `src/crates/`.

## The system and its parts

A server process composes three stores and a runtime from the kernel crates,
listens for WebSocket sessions and, if configured, for HTTP downloads.

| Part | Source | Module |
| --- | --- | --- |
| Worker: bounded command queue in front of each store's thread | all three store crates | `StoreWorker` |
| Event store (SQLite, WAL) | `orbitrelay-storage-sqlite` | `EventTable`, `EventStore`; abstract: `EventLog` |
| Asset store (SQLite rows and blob files) | `orbitrelay-asset-local-store` | `AssetStore` |
| Document and canvas catalog (SQLite) | `orbitrelay-catalog-sqlite` | `Catalog` |
| Bootstrap | `orbitrelay-server/src/bootstrap.rs` | `Bootstrap` (start and rollback also in `Server`) |
| Execution coordinator: one lease per scope | `.../canvas.rs` | `ExecutionCoordinator`; abstract: `ScopeLease` |
| Actions, event pipeline, stroke state, history query, subscriptions | `.../adapters.rs`, `pipeline.rs`, `canvas.rs`, `canvas_history.rs` | `Relay` |
| Application, context, lifecycle, listeners and their tasks | `.../application.rs`, `context.rs`, `lifecycle.rs`, `listener.rs`, `main.rs` | `Server` |
| Grants, ranges, downloads | `.../asset_delivery/` | `Delivery` |
| Configuration | `.../config.rs`, `asset_delivery/config.rs` | `Config`, used by `Server` |
| Development policies, injected dependencies, errors | `.../development.rs`, `dependencies.rs`, `error.rs` | not modelled |

The `MC` modules and the `.cfg` files give the constants their values for TLC.
The theorems are in `ExecutionCoordinatorProofs`, `EventStoreProofs`,
`AssetStoreProofs`, `BootstrapProofs`, `RelaySteps` and `RelayProofs`,
`ServerProofs` and `DeliveryProofs`.

How they interact: a session's action takes the lease of its scope, loads the
stroke from the event store, appends the events it produces and publishes them
on the bus, then releases the lease (`Relay`, over `ScopeLease` and
`EventTable`). A client subscribes, captures a checkpoint, pages through the
history up to it and goes on with the subscription. Documents name an asset and
one canvas per page; bootstrap keeps the catalog and the asset store
consistent. A download needs a grant, which a session obtains from the server
together with the URL of the asset listener. Shutdown drains the sessions and
the downloads before it closes the stores.

## How state and actions correspond to the code

- **StoreWorker** keeps per caller a program counter (`closed` checked, sender
  cloned, `try_send`, reply awaited), the queue, the thread and the closers. It
  stands for the three workers. They differ in one point, the parameter `joins` of
  `CloseSwap`: a second `close()` of the catalog or the asset store goes on to join
  the thread, one of the event store returns at once. There is one join handle: of
  three `close()` that race, one may find it taken and return while another waits
  for the thread. `MCStoreWorker` has behaviours of both kinds of store. Dropping a
  future is `Cancel`; its command stays queued. Which of a waiting `close()` and a
  calling `try_send` gets a freed slot is left open. One opening of a store at a
  time is assumed.
- **ExecutionCoordinator** models which tasks hold strong references to a map
  entry, the std lock around the map, tokio's first-in first-out mutex
  (external), and the destructors of the lease and of the entry as steps of
  their own, because another task may run between the last drop and the
  destructor's body.
- **EventTable** is the table and what a command answers; **EventStore** puts it
  behind the worker and adds crash, loss of power and opening. **EventLog** is
  the promise: an append takes effect once, at one instant, between call and
  return; answers describe the log at that instant.
- **AssetStore** has one action per await of `ingest` and of `read_range`, with
  cancellation and crash between any two, `tokio::fs` operations that finish
  after their caller has gone, and recovery as one transaction on the rows
  followed by a sweep of the blobs, one by one. `disk` is what a loss of power
  would leave of rows and blobs: commits reach it at a checkpoint, renames some
  time later, since neither is synced by the code.
- **Relay** composes producers and clients over the instances of `EventTable`
  and `ScopeLease`: the lease it uses is the abstract one, which the coordinator
  is proved to implement. An event that was stored, but whose dispatch ended
  before it was published, is in `cut`. The canvas handlers belong to the
  kernel; `Decide` models them from how the state they are given is used.
- **Config** has every setting of `ServerConfig` with its default, its override
  from the environment, the checks of `validate()`, and what the constructors
  that are later given the setting accept. Texts are classes of values.
- **Server** loads a configuration, opens the stores it names and runs the
  methods of `ServerApplication`. It has one program counter: the methods take
  `&mut self`. Registry, sockets and stores may fail at every step; `MethodStep` is
  what a method does by itself, `MethodMeets` what happens to it. The accept
  loop of the asset listener, its refusals at the limit and the URL derived from
  the bound address are part of it.
- **Catalog** is relational: loading a document or a canvas assembles it from
  rows, and a transaction that breaks a key or a foreign key of the schema rolls
  back, in one step. The scan of an opening checks the foreign keys and the rows,
  not the keys. **Bootstrap** runs it over repeated starts, each in development mode
  or not, with a persistent or an in-memory asset store and catalog. A PDF that
  cannot be read, ingested, inspected or composed refuses the start (`PdfFails`).
  While a server is up, its embedder may call the stores: `CallIngest` adds an
  asset, and `CallPublishDocument` neither adds nor checks one.
- **Delivery** reads the clock and takes the issuer's lock in separate steps,
  with a clock that may be set back, and streams chunk by chunk from a reader
  that may return anything, or never.

Definitions marked `Mutant` are deliberate faults. Each names a plausible bug
and is used to confirm that a property can fail; no specification refers to
them. Every module with variables of its own state machine has a type invariant
that documents them. These are not among the properties of the runs; the
coordinator's is proved, and the other proofs contain the types they need.

## Runs

| Run | Instance | Shows |
| --- | --- | --- |
| `store_worker` | 2 callers, 3 closers, queue of 2, both kinds of store | every call and close returns; a returned close means that the thread has left its loop, or that another close waits for it |
| `store_worker_drain` | 2 callers, 2 closers | **violated:** an accepted command may be thrown away by `close()` |
| `coordinator` | 3 tasks, 2 scopes, 3 entries | exclusion, current entries, no leaked key, refinement of `ScopeLease`; only holders of a scope delay it unless the self-lock below happened |
| `coordinator_blocks` | as above | **violated:** `prune_stale` can lock itself out |
| `event_store` | 2 callers, 1 closer, queue of 1, 3 appends of 2 identifiers, 2 openings | idempotent appends, durability, refinement of `EventLog` |
| `event_store_power` | 1 caller, all kinds of commands, loss of power | opens again, positions are fixed within an epoch, refinement of the lossy log |
| `asset_store` | 2 ingesters of one asset, 1 reader, 1 closer, 2 crashes or losses of power | rows have blobs, found assets are readable, acknowledged ones stay, staged rows have an owner |
| `relay` | 2 producers, 2 strokes on 2 canvases, 1 client | store before publish, chunks stored once and in order, loaded state is the whole stroke, exact history, gapless and ordered handoff |
| `server` | 1 full environment and every one that differs in a setting, 2 sessions, 2 downloads, 2 ports, 3 failures | readiness, drain before close, everything released, advertised URL, validated configurations start, methods return, peers are taken; nothing has to fail for that |
| `server_url` | as above | **violated:** the derived URL names 127.0.0.1 for a listener on another loopback address |
| `bootstrap` | every mode, 2 configured canvases, 2 ingests, PDFs that are refused, 2 calls or losses of power | the catalog opens again, what it acknowledged loads, same canvas and one document at every start, which has its asset |
| `delivery` | 1 issuer, 2 connections, 1 permit, a clock set back once, all ranges over numbers up to 4 of assets of 2 and 0 bytes | grants last and end, bodies are the ranges, permits come back, requests end unless a store never answers |

The three violated runs are findings, described in `PROJECT.json`.

### Bounds

Every bound is a named constant or a named constraint. Two callers or producers
are the fewest that race, and a limit of one (pages, bus, permits, grants, the
queues of `event_store` and `asset_store`) makes "full" the common case. As many
coordinator entries as tasks are enough, since a task refers to at most one. Two
openings of the event store give one stale epoch; two crashes of the asset store
give a crash during recovery. Three failures of a server process allow a failed
shutdown, a failed retry and a failed restart. In `delivery`, `MaxU64` stands for
2^64 - 1, so that one number does not parse.

State constraints leave out combinations of what is covered separately:
`SmallEnough` (`asset_store`) has no reads while the store is being closed and
one ingest at a time after a crash, beside what cancelled ones left;
`DeviationsOnlyStart` (`server`) lets only the full environment meet failures
and several peers; `FewModes` (`bootstrap`) has starts in another mode after at
most one call or failure, beside `MaxEvents`, which bounds them; `RangesOrSetBacks`
(`delivery`) tries ranges with a clock that is not set back. What they leave out is
covered by the proofs, but for liveness. Symmetry is used only in runs without liveness
properties, over sets the specification treats alike. The `View` of
`MCAssetStore` drops `disk` when no loss of power can follow.

Deadlock checking is off where the system may stop: a store may be closed or
idle, bounded calls run out, and a self-locked coordinator stands still. `bootstrap`
checks it: another start is always possible.

### Fairness

Weak fairness is assumed of steps that the runtime must take: a thread that has
a command, a task that was woken, a method that is being polled, the accept loop,
whose refusals time out, and a connection that reads its request or writes
(`OwnStep` of `Delivery`), which it does with a timeout. Its calls of `get_asset`
and `read_range` have none, and `EveryRequestEnds` excepts a call that never
returns. Callers need not call, tasks need not end (`Server`), no signal need come,
and nothing is assumed of cancellation, failure or crash: `MethodsReturn` does not
rest on an `accept()` that fails. The property `OnlyItsScopeBlocks` allows a task
to wait while another one acquires and releases for ever (`Recurs`): the map's lock
is not a fair one, and no strong fairness is assumed. `EventStore`, `AssetStore`,
`Relay` and `Bootstrap` are checked for safety only.

## Proofs

Checked by TLAPS for every value of the constants that satisfies the named
assumptions, so for any number of tasks, closers, producers, clients, assets,
strokes, environments and connections, any capacities and page sizes, and any
number of failures and crashes. The assumptions say that sentinels and roles are
distinct (`SentinelAssumption`, `TasksAssumption`, `CallersAssumption`,
`RolesAssumption`, `RelayAssumption`), that limits are positive numbers, as their types and checks in
the code make them (`CapacityAssumption`, `DeliveryAssumption`, `RelayAssumption`,
`ConfigAssumption`, `ServerAssumption`), that callers use the store's four
commands (`CallsAssumption`), that requests and environments hold what the parsers
return (`RequestsAssumption`, `EnvironmentAssumption`), that canvases and
compositions are what the kernel's constructors let through (`InputsAssumption`),
and that identifiers are generated anew (`GeneratedAssumption`). TLC evaluates all
of them on its instances.

- `ExecutionCoordinatorProofs`: `TypeCorrect`, `Exclusion`, `CurrentEntry`,
  `KeysGo` and `Refinement` (of `ScopeLease`). Exclusion is not inductive: two
  tasks could hold one scope through two entries. `IInv` adds to the types that a
  task with an entry has a scope (`ScopeKnown`), that an owned entry is the one
  the map names (`OwnedIsCurrent`), that an entry whose destructor runs has no
  strong reference (`DyingStaysDead`; without it a late destructor could remove a
  live entry), and that the holder of a lease owns the entry's mutex
  (`HolderOwnsMutex`). Two holders of a scope then own the same mutex. That no
  key is left behind (`KeysGo`) needs `KeyInv`: a key names an entry that some
  task owns, destroys or has upgraded (`KeyHeld`), only `prune_stale` upgrades
  (`TempPruning`), and an entry has one key, so that its destructor removes the
  right one (`OneKey`).
- `EventStoreProofs`: `OpensAgain`, `AppendsOnce` and `Positions`, also under loss
  of power, and `RowsStay` and `Durable` without it. `Inv` says that calls and
  queue carry commands (`CallsOK`) and that the table is contiguous without
  duplicate identifiers (`TableOK`): the next sequence number is computed from the
  largest, which is the number of rows only of a contiguous table. `Durable` needs
  in addition that every answer on its way reports rows of the table
  (`AnswersOK`, `AnsweredOK`). `Positions` needs `SeenInv`: what the present
  opening has reported is stored (`NowStored`), and nothing was reported by an
  opening yet to come (`PastEpochs`). Lemmas on `EventTable` say what each command
  keeps and that its answers are truthful. `AtomicLog` and `LossyLog` show that the
  store implements `EventLog`, step by step: a call invokes, the worker's execution
  of a command performs it, or ends it unobserved if its caller has gone, receiving
  the answer returns, a refusal, a failed or a discarded command refuses, dropping
  the future abandons, and handing over to the queue is no step of the log. They
  need `WaitInv`: a queued command finds its caller waiting for just that command,
  and no caller has two queued.
- `AssetStoreProofs`: `HasBlobs`, `AckedStay`, `Readable`
  and `StagedOwned`, through cancellation, late renames, failed commands, crashes,
  losses of power and recovery. That a published row has its blob is far from
  inductive: a queued publication of a cancelled ingest could find no blob, and
  its late rename could replace another one's. `IInv` says, for each position of
  an ingest, what row and blob it may count on (`RowInv`), that nobody else has a
  command queued or a file operation under way for its asset (`AloneInv`), and
  what its lookup told it (`FoundInv`); for each queued command, that it finds the
  row and the blob it was sent for (`Ready`), that no other one changes the same
  row, and that the lookup of a later ingest is queued behind it (`QueueInv`);
  that a late rename belongs to an asset whose row is still staged (`LateInv`),
  which is why a later ingest answers in-progress and does not touch the blob;
  who is answerable for a staged row (`StagedInv`); and what is gone with the
  process (`PhaseInv`). Tasks, worker, shutdown, crash and each step of recovery
  keep it. `Quiet` is about the worker of the asset store: its `QuietInv` follows
  the one join handle, which is in its place, or with a closer that waits, or gone
  with the last clone of the store. The catalog's worker is the same code; the
  event store's second `close()` returns at once, and what it promises is checked by
  `store_worker` only.
- `BootstrapProofs`: `CatalogOpens`, `PublicationsLast`, `StartsAgain`,
  `OnePdfPublished` and `AssetsFirst`, through any calls, exits and losses of power.
  The tables come first. Sound tables (`Sound`) satisfy the schema's keys
  (`Constraints`), hold for every canvas its layers and default (`CanvasesOK`) and
  for every document as many pages as its row counts, numbered without a gap
  (`DocumentsOK`). Every command leaves sound tables that load what they loaded
  before (`Grown`, `Kept`), and acknowledges a publication only if it loads as it
  was given. That sound tables pass the scan is an argument about numbers of rows:
  pages that are as many as the count and have distinct numbers below it are all of
  them. `BInv` is the invariant of the bootstrap: what it has in hand at each step
  (`Control`, `InHands`), sound tables, also as of the last checkpoint, and
  identifiers yet to be generated foreign to them (`Tables`), the canvas in use is
  the bound one (`Served`), what was acknowledged loads (`Acknowledged`), the PDF's
  document has its asset (`Provided`, `Backed`), and the stores refuse a start only
  after a foreign binding, a document published without its asset, a mixed
  configuration or a loss of power (`Accepted`).
- `RelaySteps` and `RelayProofs`: `Sound` (each chunk of a stroke is stored once
  and in order), `Current` (the pages of `load_stroke` add up to the stroke),
  `StoredFirst`, `Exact` and `Gapless`. `load_stroke` has no checkpoint, and a cancelled dispatch leaves
  its append in the store's queue; what makes it right is the order of that queue.
  `IInv` says that producers with a stroke in hand hold its lease (`LeaseInv`),
  that a queued append is the next chunk of its stroke, is the only one queued, and
  is not behind a query that loads the stroke (`QueueInv`), that the pages so far
  hold the rows in front of the cursor (`LoadInv`), that the projection is the
  stroke when the handler decides (`DecideInv`), that the events still to append
  are the next chunks up to the batch's last (`StoreInv`), and that what is being
  published or was received is stored with its batch (`PublishInv`, `SubInv`).
  Lemmas relate cardinalities of sets of rows to what a page returns. The lemmas
  take what they need of finite sets as the hypothesis `Counting`, which is proved
  at the end of `RelayProofs`. `Exact` (the pages of a client are the history of its
  canvas up to its cursor) and `Gapless` (history and subscription together miss
  nothing and bring the chunks of a stroke in order) need `ReadInv`: the pages so far show the rows in
  front of the cursor (`PagesInv`; the place of a row on a page is its rank, the
  number of rows in front of it, so two pages join without an induction), calls and
  answers of clients belong to their cursors and checkpoints (`CallsInv`), every row
  from the checkpoint on is on the client's stream, or is in the hands of a producer
  that has not published it, or was cut (`CoverInv`), and rows of a stroke reach
  every stream in the order in which they are stored (`BatchInv`, `StreamInv`).
- `ServerProofs`: `Ready`, `Outlived`, `Released`, `AdvertisedUrl` and
  `Validated`. `IInv` says which lifecycle goes with which step (`PhaseInv`), that
  what was loaded is valid (`ConfigInv`), who holds what at each step: tasks a
  listener, a listener the stores (`HeldInv`), what a stopped server has given
  back (`StoppedInv`), and that the derived URL is that of the first bind and only
  a start that bound nothing before becomes ready (`UrlInv`).
- `DeliveryProofs`: `Lasting`, `Granted`, `Final`, `Permits` and `Exact`. `Inv`
  adds types (`ConnInv`) and that the times calls hold were shown by the clock and
  the registry holds no token found expired (`GrantInv`). `Permits` counts the
  connections that stream (`PermitInv`). `Exact`, for every range header, asset
  length and chunk size, follows from `BodyInv`: a body is a prefix of the interval
  that was granted until it is complete.

Only model-checked, and why:

- liveness, which is out of the prover's reach, as is `ENABLED`:
  `EveryoneReturns`, `OnlyItsScopeBlocksUnlessSelfLocked`, `MethodsReturn`,
  `EveryPeerIsTaken`, `EveryRequestEnds`;
- `CloseReturnsQuiet` of the run `store_worker`. `Quiet` proves it of the worker of
  the asset store, where every `close()` joins (`ClosedIsQuiet(TRUE)`).

## What is not modelled

- Text: JSON, identifiers, HTTP and token syntax, SQL types, hashes. Where a
  check on text decides control flow, it is a choice or a predicate.
- Time: grace periods and timeouts may elapse at any moment.
- The development identity and authorization policies, allowed origins, limits on
  the size of a message, and limits beyond what tokio's semaphores and channels
  accept (`MaxPermits`: `validate()` passes them and the constructors panic).
- Two processes on the same files, and `ServerContext::shutdown` called beside
  the application.
- The kernel crates: the runtime, bus, transport, registry and canvas handlers
  appear as far as this repository uses them, marked external.

## What the checks found

- `coordinator_blocks`: `entries.retain(|_, weak| weak.upgrade().is_some())`
  can drop the last strong reference under the lock that `KeyedMutex::drop`
  takes (`orbitrelay-server/src/canvas.rs:92`).
- `store_worker_drain`: `close()` promises to drain accepted commands; one that
  is sent behind the shutdown message is dropped
  (`orbitrelay-catalog-sqlite/src/lib.rs:341`).
- `server_url`: `set_bound_public_base_url` writes 127.0.0.1 into the URL whichever
  loopback address the listener is bound to, and `validate()` asks for no public
  URL with any of them (`orbitrelay-server/src/asset_delivery/mod.rs:87`).
- Conditions that properties had to be weakened by, each also a hazard in
  `PROJECT.json`: `start()` after `shutdown()` leaves the node registered as
  ready; `put_bootstrap_binding` with a foreign session makes the catalog
  unopenable; after a loss of power, or with a persistent catalog beside assets in
  memory, a document may be without its asset, and so may one that the embedder
  publishes, and no later start succeeds; `get_asset` and `read_range` have no
  timeout in a download, which keeps its permit meanwhile; a stored but unpublished
  event is not published by a retry; the URL derived from a first bind is kept when
  a start is repeated.

## Plan

1. Done: worker, coordinator, event store, relay, asset store, server and
   configuration, bootstrap and catalog, delivery; every safety property that the
   passing runs check is proved, but for the one named above.
2. Next, models: `ServerContext::shutdown` beside the application; several
   sessions' queries in `Relay`; the limit on the size of a history response.
3. Next, proofs: the worker by itself, for the two ways in which `close()` may join.
