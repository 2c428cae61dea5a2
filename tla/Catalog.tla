------------------------------- MODULE Catalog -------------------------------
(***************************************************************************)
(* The tables of SQLiteCatalogStore and the commands its worker executes   *)
(* on them, each one transaction: a value of the tables and a command give *)
(* the outcome and the new tables.                                         *)
(*                                                                         *)
(* A canvas descriptor is [canvas, session, size, layers, default]; a      *)
(* composition is [document, session, asset, pages], pages a sequence of   *)
(* [page, canvas] with a whole descriptor each.  Titles, rotations and     *)
(* document types are left out: they are stored and compared like sizes.   *)
(***************************************************************************)
EXTENDS Naturals, Sequences, FiniteSets, Functions

\* documents is in the order of publication_sequence.
EmptyTables ==
  [documents |-> <<>>, pages |-> {}, canvases |-> {}, layers |-> {},
   bindings |-> {}]

LayersOf(db, k) == {l.layer : l \in {r \in db.layers : r.canvas = k}}

\* load_canvas_tx: no row, or the descriptor put together from both tables.
LoadCanvas(db, k) ==
  {[canvas |-> r.canvas, session |-> r.session, size |-> r.size,
    layers |-> LayersOf(db, k), default |-> r.default] :
     r \in {c \in db.canvases : c.canvas = k}}

\* ORDER BY page_index: the n-th row has n - 1 before it.
InOrder(rows) ==
  LET Nth(n) == CHOOSE r \in rows :
                  Cardinality({q \in rows : q.index < r.index}) = n - 1
  IN  [i \in 1 .. Cardinality(rows) |->
         [page |-> Nth(i).page, size |-> Nth(i).size, canvas |-> Nth(i).canvas]]

PagesOf(db, d) == {r \in db.pages : r.document = d}
LoadPages(db, d) == InOrder(PagesOf(db, d))

LoadDocument(db, d) ==
  {[document |-> d, session |-> r.session, asset |-> r.asset,
    pages |-> LoadPages(db, d)] :
     r \in {q \in Range(db.documents) : q.document = d}}

ListAllDocuments(db) ==
  [i \in DOMAIN db.documents |->
     CHOOSE d \in LoadDocument(db, db.documents[i].document) : TRUE]

\* The checks of load_canvas_tx and load_document_tx that end in Corruption.
CanvasIntact(db, r) ==
  /\ r.count = Cardinality(LayersOf(db, r.canvas))
  /\ r.default \in LayersOf(db, r.canvas)
DocumentIntact(db, r) == r.count > 0 /\ r.count = Len(LoadPages(db, r.document))

-----------------------------------------------------------------------------
\* The descriptor and the canvases of a composition.
DescriptorOf(c) ==
  [document |-> c.document, session |-> c.session, asset |-> c.asset,
   pages |-> [i \in DOMAIN c.pages |->
                [page |-> c.pages[i].page, size |-> c.pages[i].canvas.size,
                 canvas |-> c.pages[i].canvas.canvas]]]
CanvasesOf(c) == {c.pages[i].canvas : i \in DOMAIN c.pages}

\* What the constructors of descriptors and of compositions let through.
IsCanvas(k) ==
  /\ k = [canvas |-> k.canvas, session |-> k.session, size |-> k.size,
          layers |-> k.layers, default |-> k.default]
  /\ k.default \in k.layers
IsComposition(c) ==
  /\ c = [document |-> c.document, session |-> c.session, asset |-> c.asset,
          pages |-> c.pages]
  /\ Len(c.pages) \in Nat \ {0}
  /\ c.pages = [i \in 1 .. Len(c.pages) |->
                  [page |-> c.pages[i].page, canvas |-> c.pages[i].canvas]]
  /\ \A k \in CanvasesOf(c) : IsCanvas(k) /\ k.session = c.session

UniqueOn(rows, Key(_)) == \A r, q \in rows : Key(r) = Key(q) => r = q

\* The primary keys and unique columns of the schema ...
Keys(db) ==
  /\ UniqueOn(db.canvases, LAMBDA r : r.canvas)
  /\ UniqueOn(db.layers, LAMBDA r : r.layer)
  /\ UniqueOn(db.pages, LAMBDA r : r.page)
  /\ UniqueOn(db.pages, LAMBDA r : <<r.document, r.index>>)
  /\ UniqueOn(db.pages, LAMBDA r : <<r.document, r.canvas>>)
  /\ UniqueOn(db.bindings, LAMBDA r : r.key)

\* ... and its foreign keys.
ForeignKeys(db) ==
  /\ \A r \in db.pages \cup db.bindings : LoadCanvas(db, r.canvas) # {}
  /\ \A r \in db.canvases : [canvas |-> r.canvas, layer |-> r.default] \in db.layers

\* A statement that breaks one fails, and its transaction with it.
Constraints(db) == Keys(db) /\ ForeignKeys(db)

CanvasRow(k) ==
  [canvas |-> k.canvas, session |-> k.session, size |-> k.size,
   count |-> Cardinality(k.layers), default |-> k.default]
LayerRows(k) == {[canvas |-> k.canvas, layer |-> l] : l \in k.layers}

InsertCanvases(db, ks) ==
  [db EXCEPT !.canvases = @ \cup {CanvasRow(k) : k \in ks},
             !.layers = @ \cup UNION {LayerRows(k) : k \in ks}]
InsertCanvas(db, k) == InsertCanvases(db, {k})

Answer(outcome, db) == [outcome |-> outcome, db |-> db]

\* Commits the new tables, or rolls back.
Commit(outcome, db, new) ==
  IF Constraints(new) THEN Answer(outcome, new) ELSE Answer("Backend", db)

DocumentIdsCollide(db, c) ==
  \E k \in CanvasesOf(c) :
    \/ LoadCanvas(db, k.canvas) # {}
    \/ \E r \in db.layers : r.layer \in k.layers

\* Mutant: the canvases alone decide whether a document is the same.
PublishSameCanvases(db, c) ==
  IF \A k \in CanvasesOf(c) : LoadCanvas(db, k.canvas) = {k}
  THEN Answer("Existing", db)
  ELSE Answer("Conflict", db)

PublishExisting(db, c) ==
  IF \E k \in CanvasesOf(c) : LoadCanvas(db, k.canvas) = {}
  THEN Answer("Corruption", db)
  ELSE IF /\ LoadDocument(db, c.document) = {DescriptorOf(c)}
          /\ \A k \in CanvasesOf(c) : LoadCanvas(db, k.canvas) = {k}
       THEN Answer("Existing", db)
       ELSE Answer("Conflict", db)

\* Mutant: the index of the last page is written as the number of pages.
WithDocumentMiscounted(db, c) ==
  [InsertCanvases(db, CanvasesOf(c)) EXCEPT
     !.documents = Append(@, [document |-> c.document, session |-> c.session,
                              asset |-> c.asset, count |-> Len(c.pages) - 1]),
     !.pages = @ \cup {[page |-> c.pages[i].page, document |-> c.document,
                        index |-> i, size |-> c.pages[i].canvas.size,
                        canvas |-> c.pages[i].canvas.canvas] :
                          i \in DOMAIN c.pages}]

\* The tables with the rows of a composition.
WithDocument(db, c) ==
  [InsertCanvases(db, CanvasesOf(c)) EXCEPT
     !.documents = Append(@, [document |-> c.document, session |-> c.session,
                              asset |-> c.asset, count |-> Len(c.pages)]),
     !.pages = @ \cup {[page |-> c.pages[i].page, document |-> c.document,
                        index |-> i, size |-> c.pages[i].canvas.size,
                        canvas |-> c.pages[i].canvas.canvas] :
                          i \in DOMAIN c.pages}]

PublishDocument(db, c) ==
  IF LoadDocument(db, c.document) # {} THEN PublishExisting(db, c)
  ELSE IF DocumentIdsCollide(db, c) THEN Answer("Conflict", db)
  ELSE Commit("Inserted", db, WithDocument(db, c))

PublishStandalone(db, k) ==
  IF LoadCanvas(db, k.canvas) # {}
  THEN Answer(IF LoadCanvas(db, k.canvas) = {k} THEN "Existing" ELSE "Conflict", db)
  ELSE IF \E r \in db.layers : r.layer \in k.layers
  THEN Answer("Conflict", db)
  ELSE Commit("Inserted", db, InsertCanvas(db, k))

LoadBinding(db, key) == {b \in db.bindings : b.key = key}

\* publish_standalone_with_binding, binding what the descriptor says.
PublishWithBinding(db, key, k) ==
  LET b == [key |-> key, session |-> k.session, canvas |-> k.canvas]
      known == LoadCanvas(db, k.canvas)
      bound == [db EXCEPT !.bindings = @ \cup {b}]
  IN  IF LoadBinding(db, key) # {}
      THEN Answer(IF LoadBinding(db, key) = {b} /\ known = {k}
                  THEN "Existing" ELSE "Conflict", db)
      ELSE IF known = {} THEN Commit("Inserted", db, InsertCanvas(bound, k))
      ELSE IF known = {k} THEN Commit("Existing", db, bound)
      ELSE Answer("Conflict", db)

\* store_binding; the session is not compared with the canvas's.
PutBinding(db, b) ==
  IF LoadBinding(db, b.key) # {}
  THEN Answer(IF LoadBinding(db, b.key) = {b} THEN "Existing" ELSE "Conflict", db)
  ELSE Commit("Inserted", db, [db EXCEPT !.bindings = @ \cup {b}])

-----------------------------------------------------------------------------
\* A binding whose session is not its canvas's: only put_bootstrap_binding
\* makes one.
Misbound(db) ==
  \E b \in db.bindings : \A k \in LoadCanvas(db, b.canvas) : k.session # b.session

\* scan_integrity, run by every opening of the store: PRAGMA foreign_key_check
\* and the rules between the rows; it does not look at keys.
ScanIntegrity(db) ==
  /\ ForeignKeys(db)
  /\ \A r \in Range(db.documents) :
       /\ DocumentIntact(db, r)
       /\ \A i \in DOMAIN LoadPages(db, r.document) :
            LET p == LoadPages(db, r.document)[i]
            IN  \E k \in LoadCanvas(db, p.canvas) :
                  k.session = r.session /\ k.size = p.size
  /\ \A r \in db.canvases : CanvasIntact(db, r)
  /\ \A l \in db.layers : LoadCanvas(db, l.canvas) # {}
  /\ ~Misbound(db)
=============================================================================
