------------------------------ MODULE Bootstrap ------------------------------
(***************************************************************************)
(* Bootstrap::initialize_with over any number of starts of the process, in *)
(* development mode or not, with the asset and the catalog store each      *)
(* persistent or in memory: the bound development canvas, the development  *)
(* document, the validation of every document against both stores.  A      *)
(* process may be killed between any two calls, and a power failure may    *)
(* take commits with it that no checkpoint has synced (both databases are  *)
(* in WAL mode with synchronous = NORMAL).                                 *)
(*                                                                         *)
(* While a server is up, whoever embeds it may call the asset store and    *)
(* the catalog store, which does not ask for the asset of a document.      *)
(***************************************************************************)
EXTENDS Catalog

CONSTANTS
  Key,            \* default_bootstrap_binding_key
  Configured,     \* descriptors the development canvas may be configured as
  Pdfs,           \* compositions of the development PDF, one for each time its
                  \* identifiers are generated (bound: as many ingests)
  Compositions, Canvases, Bindings,   \* what the embedder calls the store with
  MaxEvents       \* bound: calls of the embedder and power failures

ASSUME InputsAssumption ==
  /\ \A k \in Configured \cup Canvases : IsCanvas(k)
  /\ \A c \in Pdfs \cup Compositions : IsComposition(c)

\* Identifiers are generated anew for every page of every ingest.
Apart(k, l) == k.canvas # l.canvas /\ k.layers \cap l.layers = {}
ASSUME GeneratedAssumption ==
  \A c \in Pdfs :
    /\ \A i, j \in DOMAIN c.pages : i # j =>
         /\ c.pages[i].page # c.pages[j].page
         /\ Apart(c.pages[i].canvas, c.pages[j].canvas)
    /\ \A d \in (Pdfs \ {c}) \cup Compositions :
         /\ d.document # c.document
         /\ \A k \in CanvasesOf(c), l \in CanvasesOf(d) : Apart(k, l)
    /\ \A k \in CanvasesOf(c), l \in Configured \cup Canvases : Apart(k, l)

VARIABLES
  db,             \* the tables of the persistent catalog
  assets,         \* assets the persistent asset store has published
  memory,         \* assets of MemoryAssetStore, gone with its process
  mode,           \* how this start is configured
  synced,         \* the two as of their last checkpoints
  pc,             \* where the bootstrap is
  canvas,         \* the development canvas, as a set of at most one
  pdf,            \* the composition in hand, likewise
  generated,      \* the Pdfs whose identifiers were generated
  calls, failures,
  up, acked,      \* history: canvases of servers that came up; compositions
                  \* and canvases whose publication was acknowledged
  mixed           \* history: a catalog that persists was given the document
                  \* of an asset in memory

local == <<pc, mode, memory, canvas, pdf>>
bounds == <<generated, calls, failures>>
vars == <<db, assets, synced, local, bounds, up, acked, mixed>>

Modes == [development : BOOLEAN, keepsAssets : BOOLEAN, keepsCatalog : BOOLEAN]
DefaultMode ==
  [development |-> FALSE, keepsAssets |-> FALSE, keepsCatalog |-> FALSE]

Init ==
  /\ db = EmptyTables /\ assets = {}
  /\ synced = [db |-> EmptyTables, assets |-> {}]
  /\ pc = "down" /\ mode = DefaultMode /\ memory = {}
  /\ canvas = {} /\ pdf = {} /\ generated = {}
  /\ calls = 0 /\ failures = 0
  /\ up = {} /\ acked = [documents |-> {}, canvases |-> {}]
  /\ mixed = FALSE

PdfIds == {c.document : c \in Pdfs}

Published(a) == a.outcome \in {"Inserted", "Existing"}

\* The process is gone, or initialize has returned an error: of what the stores
\* hold (refused), or of the file that is configured as PDF (pdf_refused).
Gone(step) == pc' = step /\ canvas' = {} /\ pdf' = {} /\ memory' = {}
Fail == Gone("refused")
Stop == Gone("down") /\ mode' = DefaultMode
InHand == UNCHANGED <<canvas, pdf, memory>>

\* The assets of the ports that the bootstrap composed.
Assets == IF mode.keepsAssets THEN assets ELSE memory

\* list_all_documents of the catalog in use; the one in memory starts empty.
Documents == IF mode.keepsCatalog THEN Range(ListAllDocuments(db)) ELSE {}

-----------------------------------------------------------------------------
Open ==
  /\ pc = "down"
  /\ mode' \in Modes
  /\ IF mode'.keepsCatalog /\ ~ScanIntegrity(db) THEN Fail
     ELSE /\ pc' = IF mode'.development THEN "binding" ELSE "validating"
          /\ InHand
  /\ UNCHANGED <<db, assets, synced, bounds, up, acked, mixed>>

\* Mutant: the configured canvas is published, whatever is bound.
FindConfigured ==
  /\ pc = "binding"
  /\ pc' = IF mode.keepsCatalog THEN "publishing_canvas" ELSE "listing"
  /\ \E k \in Configured : canvas' = {k}
  /\ UNCHANGED <<db, assets, synced, mode, memory, pdf, bounds, up, acked, mixed>>

\* The binding's canvas and not the configured one, where there is a binding.
FindBinding ==
  /\ pc = "binding"
  /\ IF ~mode.keepsCatalog \/ LoadBinding(db, Key) = {}
     THEN /\ pc' = IF mode.keepsCatalog THEN "publishing_canvas" ELSE "listing"
          /\ \E k \in Configured : canvas' = {k}
          /\ UNCHANGED <<pdf, memory>>
     ELSE \E b \in LoadBinding(db, Key) :
            LET found == {k \in LoadCanvas(db, b.canvas) : k.session = b.session}
            IN  IF found = {} THEN Fail
                ELSE pc' = "listing" /\ canvas' = found /\ UNCHANGED <<pdf, memory>>
  /\ UNCHANGED <<db, assets, synced, mode, bounds, up, acked, mixed>>

PublishCanvas ==
  /\ pc = "publishing_canvas"
  /\ \E k \in canvas :
       LET a == PublishWithBinding(db, Key, k)
       IN  /\ db' = a.db
           /\ IF Published(a) THEN pc' = "listing" /\ InHand ELSE Fail
  /\ UNCHANGED <<assets, synced, mode, bounds, up, acked, mixed>>

\* Mutant: the catalog is not asked for documents.
ListAlways ==
  /\ pc = "listing"
  /\ \/ pc' = "validating"
     \/ Pdfs # {} /\ pc' = "ingesting"
  /\ InHand
  /\ UNCHANGED <<db, assets, synced, mode, bounds, up, acked, mixed>>

\* A PDF may be configured; it is taken only by a catalog without documents.
List ==
  /\ pc = "listing"
  /\ \/ pc' = "validating"
     \/ Documents = {} /\ pc' = "ingesting"
  /\ InHand
  /\ UNCHANGED <<db, assets, synced, mode, bounds, up, acked, mixed>>

\* A composition's session is the development canvas's.
InSession(c, s) ==
  [c EXCEPT !.session = s,
            !.pages = [i \in DOMAIN @ |-> [@[i] EXCEPT !.canvas.session = s]]]

\* Mutant: the asset is not inserted before the document is published.
IngestLater ==
  /\ pc = "ingesting"
  /\ \E c \in Pdfs \ generated, k \in canvas :
       /\ generated' = generated \cup {c}
       /\ pdf' = {InSession(c, k.session)}
  /\ pc' = "inspecting"
  /\ UNCHANGED <<db, assets, synced, mode, memory, canvas, calls, failures,
                 up, acked, mixed>>

\* bootstrap_development_pdf: a new identifier, and the asset inserted ...
Ingest ==
  /\ pc = "ingesting"
  /\ \E c \in Pdfs \ generated, k \in canvas :
       /\ generated' = generated \cup {c}
       /\ pdf' = {InSession(c, k.session)}
       /\ IF mode.keepsAssets
          THEN assets' = assets \cup {c.asset} /\ UNCHANGED memory
          ELSE memory' = memory \cup {c.asset} /\ UNCHANGED assets
  /\ pc' = "inspecting"
  /\ UNCHANGED <<db, synced, mode, canvas, calls, failures, up, acked, mixed>>

\* ... inspected, and the document composed.
Inspect ==
  /\ pc = "inspecting"
  /\ pc' = "publishing_document" /\ InHand
  /\ UNCHANGED <<db, assets, synced, mode, bounds, up, acked, mixed>>

\* The file cannot be read or is too large, its asset is not inserted, or it is
\* no PDF: an asset that was inserted stays.
PdfFails ==
  /\ pc \in {"ingesting", "inspecting"}
  /\ Gone("pdf_refused")
  /\ UNCHANGED <<db, assets, synced, mode, bounds, up, acked, mixed>>

\* In memory the composition is inserted under identifiers just generated.
PublishPdf ==
  /\ pc = "publishing_document"
  /\ IF ~mode.keepsCatalog
     THEN pc' = "validating" /\ InHand /\ UNCHANGED <<db, mixed>>
     ELSE \E c \in pdf :
            LET a == PublishDocument(db, c)
            IN  /\ db' = a.db
                /\ IF Published(a) THEN pc' = "validating" /\ InHand ELSE Fail
                /\ mixed' = (mixed \/ (Published(a) /\ ~mode.keepsAssets))
  /\ UNCHANGED <<assets, synced, mode, bounds, up, acked>>

\* Every document has its asset, and a view; in memory there is at most the
\* one just composed.
Validate ==
  /\ pc = "validating"
  /\ IF /\ \A d \in Documents : d.asset \in Assets
        /\ mode.keepsCatalog => \A r \in Range(db.documents) : DocumentIntact(db, r)
     THEN /\ pc' = "up" /\ InHand
          /\ up' = IF mode.keepsCatalog THEN up \cup canvas ELSE up
     ELSE Fail /\ UNCHANGED up
  /\ UNCHANGED <<db, assets, synced, mode, bounds, acked, mixed>>

-----------------------------------------------------------------------------
(* Calls of the embedder.                                                  *)

Call ==
  /\ pc = "up" /\ calls + failures < MaxEvents
  /\ calls' = calls + 1
  /\ UNCHANGED <<synced, local, generated, failures, up, mixed>>

CallIngest(a) ==
  /\ Call /\ mode.keepsAssets
  /\ assets' = assets \cup {a}
  /\ UNCHANGED <<db, acked>>

\* publish_document neither inserts nor looks for the asset.
CallPublishDocument(c) ==
  /\ Call /\ mode.keepsCatalog
  /\ LET a == PublishDocument(db, c)
     IN  /\ db' = a.db
         /\ acked' = IF Published(a)
                     THEN [acked EXCEPT !.documents = @ \cup {c}] ELSE acked
  /\ UNCHANGED assets

CallPublishStandalone(k) ==
  /\ Call /\ mode.keepsCatalog
  /\ LET a == PublishStandalone(db, k)
     IN  /\ db' = a.db
         /\ acked' = IF Published(a)
                     THEN [acked EXCEPT !.canvases = @ \cup {k}] ELSE acked
  /\ UNCHANGED assets

CallPutBinding(b) ==
  /\ Call /\ mode.keepsCatalog
  /\ db' = PutBinding(db, b).db
  /\ UNCHANGED <<assets, acked>>

-----------------------------------------------------------------------------
\* The process ends, in whichever way, or is started again after an error.
Exit ==
  /\ pc # "down"
  /\ Stop
  /\ UNCHANGED <<db, assets, synced, bounds, up, acked, mixed>>

\* Checkpoints, as long as (bound) a power failure may follow.
SyncCatalog ==
  /\ calls + failures < MaxEvents
  /\ synced' = [synced EXCEPT !.db = db]
  /\ UNCHANGED <<db, assets, local, bounds, up, acked, mixed>>

SyncAssets ==
  /\ calls + failures < MaxEvents
  /\ synced' = [synced EXCEPT !.assets = assets]
  /\ UNCHANGED <<db, assets, local, bounds, up, acked, mixed>>

LosePower ==
  /\ calls + failures < MaxEvents
  /\ failures' = failures + 1
  /\ db' = synced.db /\ assets' = synced.assets
  /\ Stop
  /\ UNCHANGED <<synced, generated, calls, up, acked, mixed>>

Next ==
  \/ Open \/ FindBinding \/ PublishCanvas \/ List \/ Ingest \/ Inspect
  \/ PdfFails \/ PublishPdf \/ Validate
  \/ \E c \in Compositions : CallIngest(c.asset)
  \/ \E c \in Compositions : CallPublishDocument(c)
  \/ \E k \in Canvases : CallPublishStandalone(k)
  \/ \E b \in Bindings : CallPutBinding(b)
  \/ Exit \/ SyncCatalog \/ SyncAssets \/ LosePower

Spec == Init /\ [][Next]_vars

-----------------------------------------------------------------------------
\* What values the variables take.
BootstrapTypeOK ==
  /\ pc \in {"down", "refused", "pdf_refused", "binding", "publishing_canvas", "listing",
             "ingesting", "inspecting", "publishing_document", "validating", "up"}
  /\ mode \in Modes
  /\ Cardinality(canvas) <= 1 /\ Cardinality(pdf) <= 1
  /\ pc \in {"publishing_canvas", "listing", "ingesting", "inspecting"} =>
       canvas # {}
  /\ pc = "publishing_document" => pdf # {}
  /\ pc \in {"down", "refused", "pdf_refused"} => canvas = {} /\ pdf = {} /\ memory = {}

\* Whatever was called, conflicting identifiers and power failures included,
\* the tables are ones that an opening of the store accepts; a binding put
\* with the session of another canvas is the one exception.
ScanPasses == Misbound(db) \/ ScanIntegrity(db)

\* What the store acknowledged it gives back unchanged, after any later calls
\* and restarts (until a power failure): documents with their pages in order,
\* and every canvas.
AckedLoads ==
  failures = 0 =>
    /\ \A c \in acked.documents :
         /\ LoadDocument(db, c.document) = {DescriptorOf(c)}
         /\ \A k \in CanvasesOf(c) : LoadCanvas(db, k.canvas) = {k}
    /\ \A k \in acked.canvases : LoadCanvas(db, k.canvas) = {k}

\* Documents that the embedder has published and whose asset is not there.
Unbacked ==
  {d \in Range(ListAllDocuments(db)) :
     d.document \notin PdfIds /\ d.asset \notin assets}

\* Once a development server came up on a persistent catalog, every later one
\* serves the same canvas, even if it is configured with another; and what the
\* stores hold refuses no later start that keeps its assets, in whichever mode,
\* wherever the ones between were killed.  Except after a power failure, behind
\* a binding put with a foreign session, with a document that the embedder
\* published without its asset, or once a start published the PDF's document
\* and kept its asset in memory.  The configured PDF can refuse a start only
\* while the catalog has no document.
BootsAgain ==
  /\ failures = 0 =>
       /\ Cardinality(up) <= 1
       /\ up # {} /\ ~Misbound(db) /\ ~mixed /\ Unbacked = {} /\ mode.keepsAssets =>
            pc # "refused"
  /\ pc = "pdf_refused" => Documents = {}

\* The development PDF is published at most once, however often the bootstrap
\* is killed and repeated with new identifiers.
OneDevelopmentDocument ==
  Cardinality(PdfIds \cap {d.document : d \in Range(ListAllDocuments(db))}) <= 1

\* The document of the development PDF has its asset wherever a server is up,
\* whatever modes and power failures came before; without those, at every
\* moment, so that no kill between the two publications parts them.  Of the
\* embedder's documents nothing is claimed: publish_document takes them without
\* their asset.
DocumentsHaveAssets ==
  /\ pc = "up" => \A d \in Documents : d.document \in PdfIds => d.asset \in Assets
  /\ failures = 0 /\ ~mixed =>
       \A d \in Range(ListAllDocuments(db)) : d.document \in PdfIds => d.asset \in assets
=============================================================================
