--------------------------- MODULE BootstrapProofs ---------------------------
(***************************************************************************)
(* Proofs about Bootstrap, for any configured canvases, compositions,      *)
(* canvases and bindings that the embedder calls the catalog with, any     *)
(* number of generations of the PDF's identifiers, and any number of calls *)
(* and power failures.                                                     *)
(*                                                                         *)
(* First the tables: each command of the catalog, on sound tables, leaves  *)
(* sound tables that load what they loaded before (Grown), and answers     *)
(* that something is published only if it loads as it was given.  Sound    *)
(* tables pass the scan of an opening; that a document's pages load in     *)
(* their order is a matter of counting rows.  Then the bootstrap: BInv is  *)
(* inductive, and has the five properties as consequences.                 *)
(***************************************************************************)
EXTENDS Bootstrap, TLAPS

\* The tables as a record of five.
Shape(t) ==
  t = [documents |-> t.documents, pages |-> t.pages,
        canvases |-> t.canvases, layers |-> t.layers,
        bindings |-> t.bindings]

\* Canvases inserted.
LEMMA InsertFacts ==
  ASSUME NEW t, NEW ks, NEW new, Shape(t), new = InsertCanvases(t, ks)
  PROVE  /\ Shape(new) /\ new.documents = t.documents
         /\ new.pages = t.pages /\ new.bindings = t.bindings
         /\ new.canvases = t.canvases \cup {CanvasRow(k) : k \in ks}
         /\ new.layers = t.layers \cup UNION {LayerRows(k) : k \in ks}
  BY Zenon DEF Shape, InsertCanvases

DocumentRow(c) == [document |-> c.document, session |-> c.session,
                   asset |-> c.asset, count |-> Len(c.pages)]
PageRow(c, i) == [page |-> c.pages[i].page, document |-> c.document,
                  index |-> i, size |-> c.pages[i].canvas.size,
                  canvas |-> c.pages[i].canvas.canvas]

\* A document inserted.
LEMMA DocumentFacts ==
  ASSUME NEW t, NEW c, NEW new, Shape(t), new = WithDocument(t, c)
  PROVE  /\ Shape(new)
         /\ new.documents = Append(t.documents, DocumentRow(c))
         /\ new.pages = t.pages \cup {PageRow(c, i) : i \in DOMAIN c.pages}
         /\ new.canvases = t.canvases \cup {CanvasRow(k) : k \in CanvasesOf(c)}
         /\ new.layers = t.layers \cup UNION {LayerRows(k) : k \in CanvasesOf(c)}
         /\ new.bindings = t.bindings
<1> DEFINE mid == InsertCanvases(t, CanvasesOf(c))
<1>1. /\ Shape(mid) /\ mid.documents = t.documents
      /\ mid.pages = t.pages /\ mid.bindings = t.bindings
      /\ mid.canvases = t.canvases \cup {CanvasRow(k) : k \in CanvasesOf(c)}
      /\ mid.layers = t.layers \cup UNION {LayerRows(k) : k \in CanvasesOf(c)}
  BY InsertFacts, Zenon
<1>2. new = [mid EXCEPT
               !.documents = Append(@, DocumentRow(c)),
               !.pages = @ \cup {PageRow(c, i) : i \in DOMAIN c.pages}]
  BY Zenon DEF WithDocument, DocumentRow, PageRow
<1> HIDE DEF mid
<1> QED
  BY <1>1, <1>2, Zenon DEF Shape

-----------------------------------------------------------------------------
(* Tables that are sound.                                                  *)

\* The keys and foreign keys, one by one.
LEMMA ConstraintsFacts ==
  ASSUME NEW t, Constraints(t)
  PROVE  /\ \A r, q \in t.canvases : r.canvas = q.canvas => r = q
         /\ \A r, q \in t.layers : r.layer = q.layer => r = q
         /\ \A r, q \in t.pages : r.page = q.page => r = q
         /\ \A r, q \in t.pages :
              r.document = q.document /\ r.index = q.index => r = q
         /\ \A r, q \in t.pages :
              r.document = q.document /\ r.canvas = q.canvas => r = q
         /\ \A r, q \in t.bindings : r.key = q.key => r = q
         /\ \A r \in t.pages \cup t.bindings :
              \E k \in t.canvases : k.canvas = r.canvas
         /\ \A r \in t.canvases :
              [canvas |-> r.canvas, layer |-> r.default] \in t.layers
<1>1. \A r, q \in t.pages : <<r.document, r.index>> = <<q.document, q.index>> => r = q
  BY Zenon DEF Constraints, Keys, UniqueOn
<1>2. \A r, q \in t.pages : <<r.document, r.canvas>> = <<q.document, q.canvas>> => r = q
  BY Zenon DEF Constraints, Keys, UniqueOn
<1>3. /\ \A r, q \in t.canvases : r.canvas = q.canvas => r = q
      /\ \A r, q \in t.layers : r.layer = q.layer => r = q
      /\ \A r, q \in t.pages : r.page = q.page => r = q
      /\ \A r, q \in t.bindings : r.key = q.key => r = q
  BY Zenon DEF Constraints, Keys, UniqueOn
<1>4. \A r \in t.pages \cup t.bindings :
        \E k \in t.canvases : k.canvas = r.canvas
  BY Zenon DEF Constraints, ForeignKeys, LoadCanvas
<1>5. \A r \in t.canvases :
        [canvas |-> r.canvas, layer |-> r.default] \in t.layers
  BY Zenon DEF Constraints, ForeignKeys
<1> QED
  BY <1>1, <1>2, <1>3, <1>4, <1>5, Zenon

\* Every canvas has its layers, and every layer its canvas.
CanvasesOK(t) ==
  /\ \A r \in t.canvases : CanvasIntact(t, r)
  /\ \A l \in t.layers : \E r \in t.canvases : r.canvas = l.canvas

\* The rows of the canvases ks, none of which was known, are added.
Adds(t, new, ks) ==
  /\ new.canvases = t.canvases \cup {CanvasRow(k) : k \in ks}
  /\ new.layers = t.layers \cup UNION {LayerRows(k) : k \in ks}
  /\ \A k \in ks : IsCanvas(k) /\ \A r \in t.canvases : r.canvas # k.canvas
  /\ \A k, l \in ks : k.canvas = l.canvas => k = l

\* A canvas that was known is loaded as before, and one that was added as it
\* was given.
LEMMA CanvasesGrow ==
  ASSUME NEW t, NEW new, NEW ks, CanvasesOK(t), Adds(t, new, ks)
  PROVE  /\ CanvasesOK(new)
         /\ \A r \in t.canvases : LoadCanvas(new, r.canvas) = LoadCanvas(t, r.canvas)
         /\ \A k \in ks : LoadCanvas(new, k.canvas) = {k}
<1>a. \A r : r \in new.canvases <=> r \in t.canvases \/ \E k \in ks : r = CanvasRow(k)
  <2>1. new.canvases = t.canvases \cup {CanvasRow(k) : k \in ks}
    BY Zenon DEF Adds
  <2> QED
    BY <2>1
<1>b. \A l : l \in new.layers <=> l \in t.layers \/ \E k \in ks : l \in LayerRows(k)
  <2>1. new.layers = t.layers \cup UNION {LayerRows(k) : k \in ks}
    BY Zenon DEF Adds
  <2> QED
    BY <2>1
<1>c. /\ \A k \in ks : IsCanvas(k) /\ \A r \in t.canvases : r.canvas # k.canvas
      /\ \A k, l \in ks : k.canvas = l.canvas => k = l
  BY Zenon DEF Adds
<1>1. \A k \in ks : \A l \in LayerRows(k) : l.canvas = k.canvas
  BY DEF LayerRows
<1>2. \A k \in ks : CanvasRow(k).canvas = k.canvas
  BY DEF CanvasRow
<1>3. ASSUME NEW r \in t.canvases PROVE LayersOf(new, r.canvas) = LayersOf(t, r.canvas)
  <2>1. \A l : l \in new.layers /\ l.canvas = r.canvas
                <=> l \in t.layers /\ l.canvas = r.canvas
    BY <1>b, <1>c, <1>1
  <2>2. {l \in new.layers : l.canvas = r.canvas} = {l \in t.layers : l.canvas = r.canvas}
    BY <2>1, Zenon
  <2> QED
    BY <2>2, Zenon DEF LayersOf
<1>4. ASSUME NEW k \in ks PROVE LayersOf(new, k.canvas) = k.layers
  <2>1. ASSUME NEW l \in new.layers, l.canvas = k.canvas PROVE l \in LayerRows(k)
    <3>1. CASE l \in t.layers
      BY <1>c, <2>1, <3>1, ZenonT(30) DEF CanvasesOK
    <3>2. ASSUME NEW j \in ks, l \in LayerRows(j) PROVE l \in LayerRows(k)
      <4>1. j = k
        BY <1>c, <1>1, <2>1, <3>2, Zenon
      <4> QED
        BY <3>2, <4>1, Zenon
    <3> QED
      BY <1>b, <2>1, <3>1, <3>2, Zenon
  <2>2. \A l : l \in new.layers /\ l.canvas = k.canvas <=> l \in LayerRows(k)
    BY <1>b, <1>1, <2>1, Zenon
  <2>3. {l \in new.layers : l.canvas = k.canvas} = LayerRows(k)
    BY <2>2, Zenon
  <2>4. {l.layer : l \in LayerRows(k)} = k.layers
    <3>1. \A x \in k.layers : /\ [canvas |-> k.canvas, layer |-> x] \in LayerRows(k)
                              /\ [canvas |-> k.canvas, layer |-> x].layer = x
      BY DEF LayerRows
    <3>2. \A l \in LayerRows(k) : l.layer \in k.layers
      BY DEF LayerRows
    <3> QED
      BY <3>1, <3>2, Zenon
  <2> QED
    BY <2>3, <2>4, Zenon DEF LayersOf
<1>6. ASSUME NEW r \in t.canvases
      PROVE  LoadCanvas(new, r.canvas) = LoadCanvas(t, r.canvas)
  <2>1. \A q : q \in new.canvases /\ q.canvas = r.canvas
                <=> q \in t.canvases /\ q.canvas = r.canvas
    BY <1>a, <1>c, <1>2
  <2>2. {q \in new.canvases : q.canvas = r.canvas} = {q \in t.canvases : q.canvas = r.canvas}
    BY <2>1, Zenon
  <2> QED
    BY <1>3, <2>2, Zenon DEF LoadCanvas
<1>7. ASSUME NEW k \in ks PROVE LoadCanvas(new, k.canvas) = {k}
  <2>1. \A q : q \in new.canvases /\ q.canvas = k.canvas <=> q = CanvasRow(k)
    BY <1>a, <1>c, <1>2
  <2>2. {q \in new.canvases : q.canvas = k.canvas} = {CanvasRow(k)}
    BY <2>1, Zenon
  <2>3. LoadCanvas(new, k.canvas) =
          {[canvas |-> CanvasRow(k).canvas, session |-> CanvasRow(k).session,
            size |-> CanvasRow(k).size, layers |-> LayersOf(new, k.canvas),
            default |-> CanvasRow(k).default]}
    BY <2>2, Zenon DEF LoadCanvas
  <2>4. k = [canvas |-> k.canvas, session |-> k.session, size |-> k.size,
             layers |-> k.layers, default |-> k.default]
    BY <1>c, Zenon DEF IsCanvas
  <2>5. /\ CanvasRow(k).canvas = k.canvas /\ CanvasRow(k).session = k.session
        /\ CanvasRow(k).size = k.size /\ CanvasRow(k).default = k.default
    BY DEF CanvasRow
  <2> QED
    BY <1>4, <2>3, <2>4, <2>5, Zenon
<1>8. ASSUME NEW r \in new.canvases PROVE CanvasIntact(new, r)
  <2>1. CASE r \in t.canvases
    BY <1>3, <2>1, Zenon DEF CanvasesOK, CanvasIntact
  <2>2. ASSUME NEW k \in ks, r = CanvasRow(k) PROVE CanvasIntact(new, r)
    <3>1. /\ r.canvas = k.canvas /\ r.count = Cardinality(k.layers)
          /\ r.default = k.default
      BY <2>2 DEF CanvasRow
    <3>2. k.default \in k.layers
      BY <1>c, Zenon DEF IsCanvas
    <3> QED
      BY <1>4, <3>1, <3>2, Zenon DEF CanvasIntact
  <2> QED
    BY <1>a, <2>1, <2>2, Zenon
<1>9. ASSUME NEW l \in new.layers PROVE \E r \in new.canvases : r.canvas = l.canvas
  <2>1. CASE l \in t.layers
    BY <1>a, <2>1, Zenon DEF CanvasesOK
  <2>2. ASSUME NEW k \in ks, l \in LayerRows(k)
        PROVE  \E r \in new.canvases : r.canvas = l.canvas
    <3>1. CanvasRow(k) \in new.canvases
      BY <1>a, Zenon
    <3>2. CanvasRow(k).canvas = l.canvas
      BY <1>1, <1>2, <2>2, Zenon
    <3> QED
      BY <3>1, <3>2, Zenon
  <2> QED
    BY <1>b, <2>1, <2>2, Zenon
<1> QED
  BY <1>6, <1>7, <1>8, <1>9, Zenon DEF CanvasesOK

\* The rows of a sequence that got one more.
LEMMA RangeAppend ==
  ASSUME NEW s, s \in Seq(Range(s)), NEW e
  PROVE  /\ Range(Append(s, e)) = Range(s) \cup {e}
         /\ Append(s, e) \in Seq(Range(Append(s, e)))
<1> DEFINE S == Range(s) \cup {e}
<1>1. s \in Seq(S)
  OBVIOUS
<1>2. /\ Append(s, e) \in Seq(S) /\ Len(Append(s, e)) = Len(s) + 1
      /\ \A i \in 1 .. Len(s) : Append(s, e)[i] = s[i]
      /\ Append(s, e)[Len(s) + 1] = e
  <2> HIDE DEF S
  <2>1. e \in S
    BY DEF S
  <2> QED
    BY <1>1, <2>1
<1>3. DOMAIN s = 1 .. Len(s) /\ DOMAIN Append(s, e) = 1 .. Len(s) + 1 /\ Len(s) \in Nat
  BY <1>1, <1>2
<1>4. \A x : x \in Range(Append(s, e)) <=> x \in S
  <2>1. ASSUME NEW x \in Range(Append(s, e)) PROVE x \in S
    <3>1. PICK i \in 1 .. Len(s) + 1 : Append(s, e)[i] = x
      BY <1>3, Zenon DEF Range
    <3>2. CASE i = Len(s) + 1
      BY <1>2, <3>1, <3>2
    <3>3. CASE i # Len(s) + 1
      <4>1. i \in 1 .. Len(s)
        BY <1>3, <3>3
      <4>2. x = s[i] /\ i \in DOMAIN s
        BY <1>2, <1>3, <3>1, <4>1, Zenon
      <4> QED
        BY <4>2, Zenon DEF Range
    <3> QED
      BY <3>2, <3>3, Zenon
  <2>2. ASSUME NEW x \in Range(s) PROVE x \in Range(Append(s, e))
    <3>1. PICK i \in 1 .. Len(s) : s[i] = x
      BY <1>3, Zenon DEF Range
    <3>2. i \in 1 .. Len(s) + 1
      BY <1>3
    <3> QED
      BY <1>2, <1>3, <3>1, <3>2, Zenon DEF Range
  <2>3. e \in Range(Append(s, e))
    <3>1. Len(s) + 1 \in 1 .. Len(s) + 1
      BY <1>3
    <3> QED
      BY <1>2, <1>3, <3>1, Zenon DEF Range
  <2> QED
    BY <2>1, <2>2, <2>3, Zenon
<1>5. Range(Append(s, e)) = S
  BY <1>4, Zenon
<1> QED
  BY <1>2, <1>5, Zenon

\* What loads: the rows with the identifier.
LEMMA Known ==
  ASSUME NEW t
  PROVE  /\ \A x : LoadCanvas(t, x) # {} <=> \E r \in t.canvases : r.canvas = x
         /\ \A d : LoadDocument(t, d) # {} <=>
              \E r \in Range(t.documents) : r.document = d
  BY Zenon DEF LoadCanvas, LoadDocument

\* A document has the pages 1 to its count, each with a canvas of its session
\* and size.
DocumentOK(t, r) ==
  /\ r.count \in Nat \ {0}
  /\ \A q \in PagesOf(t, r.document) :
       /\ q.index \in 1 .. r.count
       /\ \E k \in t.canvases :
            k.canvas = q.canvas /\ k.session = r.session /\ k.size = q.size
  /\ \A i \in 1 .. r.count : \E q \in PagesOf(t, r.document) : q.index = i

\* Documents are told apart by their identifiers, and every page has one.
DocumentsOK(t) ==
  /\ t.documents \in Seq(Range(t.documents))
  /\ \A r, q \in Range(t.documents) : r.document = q.document => r = q
  /\ \A r \in Range(t.documents) : DocumentOK(t, r)
  /\ \A q \in t.pages : \E r \in Range(t.documents) : r.document = q.document

Sound(t) == Shape(t) /\ Constraints(t) /\ CanvasesOK(t) /\ DocumentsOK(t)

\* What was loaded before is loaded unchanged, and a binding stays.
Kept(t, new) ==
  /\ \A x : LoadCanvas(t, x) # {} => LoadCanvas(new, x) = LoadCanvas(t, x)
  /\ \A d : LoadDocument(t, d) # {} => LoadDocument(new, d) = LoadDocument(t, d)
  /\ t.bindings \subseteq new.bindings

\* Nothing changes.
LEMMA KeptSame ==
  ASSUME NEW t
  PROVE  Kept(t, t)
  BY Zenon DEF Kept

\* Canvases are kept where canvases are added.
LEMMA CanvasesKept ==
  ASSUME NEW t, NEW new, NEW ks, CanvasesOK(t), Adds(t, new, ks)
  PROVE  \A x : LoadCanvas(t, x) # {} => LoadCanvas(new, x) = LoadCanvas(t, x)
<1>0. \A r \in t.canvases : LoadCanvas(new, r.canvas) = LoadCanvas(t, r.canvas)
  BY CanvasesGrow
<1>1. ASSUME NEW x, LoadCanvas(t, x) # {} PROVE LoadCanvas(new, x) = LoadCanvas(t, x)
  <2>1. PICK r \in t.canvases : r.canvas = x
    BY <1>1, Known, Zenon
  <2>2. LoadCanvas(new, r.canvas) = LoadCanvas(t, r.canvas)
    BY <1>0, Zenon
  <2> QED
    BY <2>1, <2>2, Zenon
<1> QED
  BY <1>1, Zenon

\* The same rows make the same document.
LEMMA SameDocument ==
  ASSUME NEW t, NEW new, NEW d, PagesOf(new, d) = PagesOf(t, d),
         \A r : r \in Range(new.documents) /\ r.document = d
                <=> r \in Range(t.documents) /\ r.document = d
  PROVE  LoadDocument(new, d) = LoadDocument(t, d)
<1>1. LoadPages(new, d) = LoadPages(t, d)
  BY Zenon DEF LoadPages
<1>2. {q \in Range(new.documents) : q.document = d} = {q \in Range(t.documents) : q.document = d}
  BY Zenon
<1> QED
  BY <1>1, <1>2, Zenon DEF LoadDocument

\* A document stays in order where its pages stay and canvases are added.
LEMMA OlderDocumentOK ==
  ASSUME NEW t, NEW new, NEW r, DocumentOK(t, r),
         t.canvases \subseteq new.canvases,
         PagesOf(new, r.document) = PagesOf(t, r.document)
  PROVE  DocumentOK(new, r)
<1> DEFINE P == PagesOf(t, r.document)
<1>1. r.count \in Nat \ {0} /\ \A i \in 1 .. r.count : \E q \in P : q.index = i
  BY Zenon DEF DocumentOK
<1>2. \A q \in P : /\ q.index \in 1 .. r.count
                   /\ \E k \in t.canvases : k.canvas = q.canvas
                        /\ k.session = r.session /\ k.size = q.size
  BY Zenon DEF DocumentOK
<1>3. P = PagesOf(new, r.document)
  BY Zenon
<1> HIDE DEF P
<1> QED
  BY <1>1, <1>2, <1>3 DEF DocumentOK

\* Canvases and bindings are added, documents are not.
LEMMA SameDocuments ==
  ASSUME NEW t, NEW new, NEW ks, Sound(t), Shape(new), Constraints(new),
         Adds(t, new, ks), t.bindings \subseteq new.bindings,
         new.documents = t.documents, new.pages = t.pages
  PROVE  Sound(new) /\ Kept(t, new)
<1>1. CanvasesOK(new)
  BY CanvasesGrow, Zenon DEF Sound
<1>2. \A d : PagesOf(new, d) = PagesOf(t, d)
  BY Zenon DEF PagesOf
<1>3. t.canvases \subseteq new.canvases
  BY DEF Adds
<1>4. ASSUME NEW r \in Range(t.documents) PROVE DocumentOK(new, r)
  <2>1. DocumentOK(t, r)
    BY Zenon DEF Sound, DocumentsOK
  <2>2. PagesOf(new, r.document) = PagesOf(t, r.document)
    BY <1>2, Zenon
  <2> QED
    BY <1>3, <2>1, <2>2, OlderDocumentOK, Zenon
<1>5. DocumentsOK(new)
  BY <1>4, Zenon DEF Sound, DocumentsOK
<1>6. \A d : LoadDocument(new, d) = LoadDocument(t, d)
  BY <1>2, SameDocument, Zenon
<1>7. \A x : LoadCanvas(t, x) # {} => LoadCanvas(new, x) = LoadCanvas(t, x)
  BY CanvasesKept, Zenon DEF Sound
<1> QED
  BY <1>1, <1>5, <1>6, <1>7, Zenon DEF Sound, Kept

\* A document is added, with the canvases of its pages.
LEMMA NewDocument ==
  ASSUME NEW t, NEW c, NEW new, Sound(t), IsComposition(c),
         new = WithDocument(t, c), Constraints(new),
         LoadDocument(t, c.document) = {}, ~DocumentIdsCollide(t, c)
  PROVE  /\ Sound(new) /\ Kept(t, new) /\ Adds(t, new, CanvasesOf(c))
         /\ new.bindings = t.bindings
         /\ Range(new.documents) = Range(t.documents) \cup {DocumentRow(c)}
         /\ PagesOf(new, c.document) = {PageRow(c, i) : i \in 1 .. Len(c.pages)}
<1> DEFINE n == Len(c.pages)
           ks == CanvasesOf(c)
<1>1. n \in Nat \ {0} /\ DOMAIN c.pages = 1 .. n
  BY DEF IsComposition
<1>2. /\ Shape(new) /\ new.bindings = t.bindings
      /\ new.documents = Append(t.documents, DocumentRow(c))
      /\ new.pages = t.pages \cup {PageRow(c, i) : i \in 1 .. n}
      /\ new.canvases = t.canvases \cup {CanvasRow(k) : k \in ks}
      /\ new.layers = t.layers \cup UNION {LayerRows(k) : k \in ks}
  <2>1. /\ Shape(new) /\ new.bindings = t.bindings
        /\ new.documents = Append(t.documents, DocumentRow(c))
        /\ new.pages = t.pages \cup {PageRow(c, i) : i \in DOMAIN c.pages}
        /\ new.canvases = t.canvases \cup {CanvasRow(k) : k \in ks}
        /\ new.layers = t.layers \cup UNION {LayerRows(k) : k \in ks}
    <3>1. Shape(t)
      BY Zenon DEF Sound
    <3> QED
      BY <3>1, DocumentFacts
  <2> QED
    BY <1>1, <2>1
<1>3. \A i \in 1 .. n : /\ PageRow(c, i).document = c.document
                        /\ PageRow(c, i).index = i
                        /\ PageRow(c, i).size = c.pages[i].canvas.size
                        /\ PageRow(c, i).canvas = c.pages[i].canvas.canvas
                        /\ PageRow(c, i) \in new.pages
  BY <1>2 DEF PageRow
<1>4. \A k : k \in ks <=> \E i \in 1 .. n : k = c.pages[i].canvas
  BY <1>1, Zenon DEF CanvasesOf
<1>5. \A i, j \in 1 .. n : c.pages[i].canvas.canvas = c.pages[j].canvas.canvas => i = j
  <2>1. \A r, q \in new.pages :
          r.document = q.document /\ r.canvas = q.canvas => r = q
    BY ConstraintsFacts
  <2> QED
    BY <1>3, <2>1
<1>6. \A k, l \in ks : k.canvas = l.canvas => k = l
  BY <1>4, <1>5
<1>7. \A k \in ks : IsCanvas(k) /\ k.session = c.session
  BY Zenon DEF IsComposition
<1>8. \A k \in ks : \A r \in t.canvases : r.canvas # k.canvas
  BY Known, Zenon DEF DocumentIdsCollide
<1>9. Adds(t, new, ks)
  BY <1>2, <1>6, <1>7, <1>8, Zenon DEF Adds
<1>10. CanvasesOK(new)
  BY <1>9, CanvasesGrow, Zenon DEF Sound
<1>11. Range(new.documents) = Range(t.documents) \cup {DocumentRow(c)}
       /\ new.documents \in Seq(Range(new.documents))
  <2>1. t.documents \in Seq(Range(t.documents))
    BY Zenon DEF Sound, DocumentsOK
  <2>2. /\ Range(Append(t.documents, DocumentRow(c))) = Range(t.documents) \cup {DocumentRow(c)}
        /\ Append(t.documents, DocumentRow(c)) \in Seq(Range(Append(t.documents, DocumentRow(c))))
    BY <2>1, RangeAppend
  <2> QED
    BY <1>2, <2>2, Zenon
<1>12. \A r \in Range(t.documents) : r.document # c.document
  BY Known, Zenon
<1>13. /\ DocumentRow(c).document = c.document /\ DocumentRow(c).session = c.session
       /\ DocumentRow(c).count = n
  BY DEF DocumentRow
<1>14. ASSUME NEW d, d # c.document PROVE PagesOf(new, d) = PagesOf(t, d)
  <2>1. \A q : q \in new.pages /\ q.document = d <=> q \in t.pages /\ q.document = d
    BY <1>2, <1>3, <1>14
  <2> QED
    BY <2>1, Zenon DEF PagesOf
<1>15. PagesOf(new, c.document) = {PageRow(c, i) : i \in 1 .. n}
  <2>1. \A q \in t.pages : q.document # c.document
    BY <1>12, Zenon DEF Sound, DocumentsOK
  <2>2. \A q : q \in new.pages /\ q.document = c.document
               <=> q \in {PageRow(c, i) : i \in 1 .. n}
    BY <1>2, <1>3, <2>1
  <2> QED
    BY <2>2, Zenon DEF PagesOf
<1> HIDE DEF n, ks
<1>16. DocumentOK(new, DocumentRow(c))
  <2>1. ASSUME NEW q \in PagesOf(new, c.document)
        PROVE  /\ q.index \in 1 .. n
               /\ \E k \in new.canvases : /\ k.canvas = q.canvas
                                          /\ k.session = c.session /\ k.size = q.size
    <3>1. PICK i \in 1 .. n : q = PageRow(c, i)
      BY <1>15, Zenon
    <3> DEFINE k == c.pages[i].canvas
    <3>2. k \in ks
      BY <1>4, Zenon
    <3>3. CanvasRow(k) \in new.canvases
      BY <1>2, <3>2
    <3>4. /\ CanvasRow(k).canvas = k.canvas /\ CanvasRow(k).session = c.session
          /\ CanvasRow(k).size = k.size
      BY <1>7, <3>2 DEF CanvasRow
    <3> QED
      BY <1>3, <3>1, <3>3, <3>4, Zenon
  <2>2. \A i \in 1 .. n : \E q \in PagesOf(new, c.document) : q.index = i
    BY <1>3, <1>15, Zenon
  <2> QED
    BY <1>1, <1>13, <2>1, <2>2 DEF DocumentOK
<1>17. ASSUME NEW r \in Range(t.documents) PROVE DocumentOK(new, r)
  <2>1. DocumentOK(t, r) /\ PagesOf(new, r.document) = PagesOf(t, r.document)
    BY <1>12, <1>14, Zenon DEF Sound, DocumentsOK
  <2>2. t.canvases \subseteq new.canvases
    BY <1>2
  <2> QED
    BY <2>1, <2>2, OlderDocumentOK, Zenon
<1>18. \A q \in new.pages : \E r \in Range(new.documents) : r.document = q.document
  <2>1. ASSUME NEW q \in new.pages PROVE \E r \in Range(new.documents) : r.document = q.document
    <3>1. CASE q \in t.pages
      BY <1>11, <3>1, Zenon DEF Sound, DocumentsOK
    <3>2. CASE q \notin t.pages
      <4>1. q.document = c.document
        BY <1>2, <1>3, <3>2
      <4> QED
        BY <1>11, <1>13, <4>1, Zenon
    <3> QED
      BY <3>1, <3>2, Zenon
  <2> QED
    BY <2>1, Zenon
<1>19. \A r, q \in Range(new.documents) : r.document = q.document => r = q
  <2>1. \A r, q \in Range(t.documents) : r.document = q.document => r = q
    BY Zenon DEF Sound, DocumentsOK
  <2> QED
    BY <1>11, <1>12, <1>13, <2>1
<1>20. Sound(new)
  <2>1. \A r \in Range(new.documents) : DocumentOK(new, r)
    BY <1>11, <1>16, <1>17, Zenon
  <2> QED
    BY <1>2, <1>10, <1>11, <1>18, <1>19, <2>1, Zenon DEF Sound, DocumentsOK
<1>21. Kept(t, new)
  <2>1. \A x : LoadCanvas(t, x) # {} => LoadCanvas(new, x) = LoadCanvas(t, x)
    BY <1>9, CanvasesKept, Zenon DEF Sound
  <2>2. ASSUME NEW d, LoadDocument(t, d) # {} PROVE LoadDocument(new, d) = LoadDocument(t, d)
    <3>1. d # c.document
      BY <2>2, Zenon
    <3>2. PagesOf(new, d) = PagesOf(t, d)
      BY <1>14, <3>1, Zenon
    <3>3. \A r : r \in Range(new.documents) /\ r.document = d
                 <=> r \in Range(t.documents) /\ r.document = d
      BY <1>11, <1>13, <3>1
    <3> QED
      BY <3>2, <3>3, SameDocument, Zenon
  <2> QED
    BY <1>2, <2>1, <2>2, Zenon DEF Kept
<1> QED
  BY <1>2, <1>9, <1>11, <1>15, <1>20, <1>21, Zenon DEF n, ks

-----------------------------------------------------------------------------
(* The commands.                                                           *)

\* Sound tables that keep what they had; what canvases came is among ks.
Grown(t, new, ks) ==
  /\ Sound(new) /\ Kept(t, new)
  /\ new.canvases \subseteq t.canvases \cup {CanvasRow(k) : k \in ks}
  /\ new.layers \subseteq t.layers \cup UNION {LayerRows(k) : k \in ks}

\* Nothing changes.
LEMMA GrownSame ==
  ASSUME NEW t, NEW ks, Sound(t)
  PROVE  Grown(t, t, ks)
<1>1. /\ t.canvases \subseteq t.canvases \cup {CanvasRow(k) : k \in ks}
      /\ t.layers \subseteq t.layers \cup UNION {LayerRows(k) : k \in ks}
  BY Zenon
<1> QED
  BY <1>1, KeptSame, Zenon DEF Grown

\* An answer's two parts.
LEMMA AnswerFacts ==
  ASSUME NEW o, NEW t
  PROVE  Answer(o, t).outcome = o /\ Answer(o, t).db = t
  BY DEF Answer

\* A canvas is published, or found as it is, or nothing happens.
LEMMA StandaloneFacts ==
  ASSUME NEW t, NEW k, NEW a, Sound(t), IsCanvas(k), a = PublishStandalone(t, k)
  PROVE  /\ Grown(t, a.db, {k}) /\ a.db.documents = t.documents
         /\ Published(a) => LoadCanvas(a.db, k.canvas) = {k}
<1> DEFINE new == InsertCanvas(t, k)
<1>1. CASE LoadCanvas(t, k.canvas) # {}
  <2>1. a = Answer(IF LoadCanvas(t, k.canvas) = {k} THEN "Existing" ELSE "Conflict", t)
    BY <1>1, Zenon DEF PublishStandalone
  <2>2. a.db = t /\ (Published(a) => LoadCanvas(t, k.canvas) = {k})
    BY <2>1 DEF Answer, Published
  <2> QED
    BY <2>2, GrownSame, Zenon
<1>2. CASE LoadCanvas(t, k.canvas) = {} /\ \E r \in t.layers : r.layer \in k.layers
  <2>1. a = Answer("Conflict", t)
    BY <1>2, Zenon DEF PublishStandalone
  <2>2. a.db = t /\ ~Published(a)
    BY <2>1 DEF Answer, Published
  <2> QED
    BY <2>2, GrownSame, Zenon
<1>3. CASE LoadCanvas(t, k.canvas) = {} /\ ~\E r \in t.layers : r.layer \in k.layers
  <2>1. a = Commit("Inserted", t, new)
    BY <1>3, Zenon DEF PublishStandalone
  <2>2. CASE ~Constraints(new)
    <3>1. a = Answer("Backend", t)
      BY <2>1, <2>2, Zenon DEF Commit
    <3>2. a.db = t /\ ~Published(a)
      BY <3>1 DEF Answer, Published
    <3> QED
      BY <3>2, GrownSame, Zenon
  <2>3. CASE Constraints(new)
    <3>1. a.db = new
      BY <2>1, <2>3, AnswerFacts DEF Commit
    <3>2. Shape(t) /\ CanvasesOK(t)
      BY Zenon DEF Sound
    <3>3. /\ Shape(new) /\ new.documents = t.documents
          /\ new.pages = t.pages /\ new.bindings = t.bindings
          /\ new.canvases = t.canvases \cup {CanvasRow(j) : j \in {k}}
          /\ new.layers = t.layers \cup UNION {LayerRows(j) : j \in {k}}
      BY <3>2, InsertFacts, Zenon DEF InsertCanvas
    <3> HIDE DEF new
    <3>4. Adds(t, new, {k})
      <4>1. \A r \in t.canvases : r.canvas # k.canvas
        BY <1>3, Known, Zenon
      <4> QED
        BY <3>3, <4>1, Zenon DEF Adds
    <3>5. Sound(new) /\ Kept(t, new)
      BY <2>3, <3>3, <3>4, SameDocuments, Zenon
    <3>6. LoadCanvas(new, k.canvas) = {k}
      BY <3>2, <3>4, CanvasesGrow
    <3> QED
      BY <3>1, <3>3, <3>5, <3>6, Zenon DEF Grown
  <2> QED
    BY <2>2, <2>3, Zenon
<1> QED
  BY <1>1, <1>2, <1>3, Zenon

\* A binding is put, or nothing happens.
LEMMA BindingFacts ==
  ASSUME NEW t, NEW b, NEW a, Sound(t), a = PutBinding(t, b)
  PROVE  Grown(t, a.db, {}) /\ a.db.documents = t.documents
<1> DEFINE new == [t EXCEPT !.bindings = @ \cup {b}]
<1>1. \/ a.db = t
      \/ Constraints(new) /\ a.db = new
  BY AnswerFacts DEF PutBinding, Commit
<1>2. Shape(t) /\ CanvasesOK(t)
  BY Zenon DEF Sound
<1>3. /\ Shape(new) /\ new.documents = t.documents
      /\ new.pages = t.pages /\ new.canvases = t.canvases
      /\ new.layers = t.layers /\ new.bindings = t.bindings \cup {b}
  BY <1>2 DEF Shape
<1> HIDE DEF new
<1>4. ASSUME Constraints(new) PROVE Grown(t, new, {})
  <2>1. Adds(t, new, {})
    <3>1. /\ new.canvases = t.canvases \cup {CanvasRow(k) : k \in {}}
          /\ new.layers = t.layers \cup UNION {LayerRows(k) : k \in {}}
      BY <1>3
    <3> QED
      BY <3>1, Zenon DEF Adds
  <2>2. Sound(new) /\ Kept(t, new)
    BY <1>3, <1>4, <2>1, SameDocuments
  <2> QED
    BY <1>3, <2>2 DEF Grown
<1> QED
  BY <1>1, <1>3, <1>4, GrownSame, Zenon

\* The canvas is what the key is bound to.
Bound(t, key, k) ==
  /\ \E b \in t.bindings : b.key = key /\ b.canvas = k.canvas /\ b.session = k.session
  /\ LoadCanvas(t, k.canvas) = {k}

\* A canvas is published and bound, or found bound, or nothing happens.
LEMMA WithBindingFacts ==
  ASSUME NEW t, NEW key, NEW k, NEW a, Sound(t), IsCanvas(k),
         a = PublishWithBinding(t, key, k)
  PROVE  /\ Grown(t, a.db, {k}) /\ a.db.documents = t.documents
         /\ Published(a) => Bound(a.db, key, k)
<1> DEFINE b == [key |-> key, session |-> k.session, canvas |-> k.canvas]
           known == LoadCanvas(t, k.canvas)
           bound == [t EXCEPT !.bindings = @ \cup {b}]
           new == InsertCanvas(bound, k)
<1>0. b.key = key /\ b.session = k.session /\ b.canvas = k.canvas
  OBVIOUS
<1>1. CASE LoadBinding(t, key) # {}
  <2>1. a = Answer(IF LoadBinding(t, key) = {b} /\ known = {k}
                   THEN "Existing" ELSE "Conflict", t)
    BY <1>1, Zenon DEF PublishWithBinding
  <2> HIDE DEF b, known
  <2>2. a.db = t /\ (Published(a) => LoadBinding(t, key) = {b} /\ known = {k})
    BY <2>1 DEF Answer, Published
  <2>3. LoadBinding(t, key) = {b} => b \in t.bindings
    BY Zenon DEF LoadBinding
  <2> QED
    BY <1>0, <2>2, <2>3, GrownSame, Zenon DEF Bound, known
<1>2. CASE LoadBinding(t, key) = {}
  <2>1. \/ a = Answer("Conflict", t) \/ a = Answer("Backend", t)
        \/ known = {} /\ Constraints(new) /\ a = Answer("Inserted", new)
        \/ known = {k} /\ Constraints(bound) /\ a = Answer("Existing", bound)
    <3>1. \/ a = Answer("Conflict", t)
          \/ known = {} /\ a = Commit("Inserted", t, new)
          \/ known = {k} /\ a = Commit("Existing", t, bound)
      BY <1>2, Zenon DEF PublishWithBinding
    <3> HIDE DEF new, bound, known
    <3> QED
      BY <3>1, Zenon DEF Commit
  <2>2. Shape(t) /\ CanvasesOK(t)
    BY Zenon DEF Sound
  <2>3. /\ Shape(bound) /\ bound.documents = t.documents
        /\ bound.pages = t.pages /\ bound.canvases = t.canvases
        /\ bound.layers = t.layers /\ bound.bindings = t.bindings \cup {b}
    <3> HIDE DEF b
    <3> QED
      BY <2>2 DEF Shape
  <2> HIDE DEF bound, b
  <2>4. /\ Shape(new) /\ new.documents = t.documents
        /\ new.pages = t.pages /\ new.bindings = t.bindings \cup {b}
        /\ new.canvases = t.canvases \cup {CanvasRow(j) : j \in {k}}
        /\ new.layers = t.layers \cup UNION {LayerRows(j) : j \in {k}}
    <3>1. /\ Shape(new) /\ new.documents = bound.documents
          /\ new.pages = bound.pages /\ new.bindings = bound.bindings
          /\ new.canvases = bound.canvases \cup {CanvasRow(j) : j \in {k}}
          /\ new.layers = bound.layers \cup UNION {LayerRows(j) : j \in {k}}
      <4>1. Shape(bound) /\ new = InsertCanvases(bound, {k})
        BY <2>3, Zenon DEF InsertCanvas
      <4> HIDE DEF new
      <4> QED
        BY <4>1, InsertFacts
    <3> QED
      BY <2>3, <3>1, Zenon
  <2> HIDE DEF new
  <2>5. CASE a = Answer("Conflict", t) \/ a = Answer("Backend", t)
    <3>1. a.db = t /\ ~Published(a)
      BY <2>5 DEF Answer, Published
    <3> QED
      BY <3>1, GrownSame, Zenon
  <2>6. CASE known = {} /\ Constraints(new) /\ a = Answer("Inserted", new)
    <3>1. a.db = new
      BY <2>6, AnswerFacts, Zenon
    <3>4. Adds(t, new, {k})
      <4>1. \A r \in t.canvases : r.canvas # k.canvas
        BY <2>6, Known, Zenon
      <4> QED
        BY <2>4, <4>1, Zenon DEF Adds
    <3>5. Sound(new) /\ Kept(t, new)
      <4>1. t.bindings \subseteq new.bindings
        BY <2>4, Zenon
      <4> QED
        BY <2>4, <2>6, <3>4, <4>1, SameDocuments, Zenon
    <3>6. LoadCanvas(new, k.canvas) = {k}
      BY <2>2, <3>4, CanvasesGrow
    <3>7. Bound(new, key, k)
      <4>1. b \in new.bindings
        BY <2>4, Zenon
      <4> QED
        BY <1>0, <3>6, <4>1, Zenon DEF Bound
    <3> QED
      BY <2>4, <3>1, <3>5, <3>7, Zenon DEF Grown
  <2>7. CASE known = {k} /\ Constraints(bound) /\ a = Answer("Existing", bound)
    <3>1. a.db = bound
      BY <2>7, AnswerFacts, Zenon
    <3>2. Adds(t, bound, {})
      <4>1. /\ bound.canvases = t.canvases \cup {CanvasRow(j) : j \in {}}
            /\ bound.layers = t.layers \cup UNION {LayerRows(j) : j \in {}}
        BY <2>3
      <4> QED
        BY <4>1, Zenon DEF Adds
    <3>3. Sound(bound) /\ Kept(t, bound)
      <4>1. t.bindings \subseteq bound.bindings
        BY <2>3, Zenon
      <4> QED
        BY <2>3, <2>7, <3>2, <4>1, SameDocuments
    <3>4. LoadCanvas(bound, k.canvas) = {k}
      BY <2>7, <3>3, Zenon DEF Kept
    <3>5. Bound(bound, key, k)
      <4>1. b \in bound.bindings
        BY <2>3, Zenon
      <4> QED
        BY <1>0, <3>4, <4>1, Zenon DEF Bound
    <3>6. Grown(t, bound, {k})
      BY <2>3, <3>3 DEF Grown
    <3> QED
      BY <2>3, <3>1, <3>5, <3>6, Zenon
  <2> QED
    BY <2>1, <2>5, <2>6, <2>7, Zenon
<1> QED
  BY <1>1, <1>2, Zenon

\* The composition is loaded as it was given.
Loaded(t, c) ==
  /\ LoadDocument(t, c.document) = {DescriptorOf(c)}
  /\ \A k \in CanvasesOf(c) : LoadCanvas(t, k.canvas) = {k}

\* The rows of the composition are all there.
Laid(t, c) ==
  /\ PagesOf(t, c.document) = {PageRow(c, i) : i \in 1 .. Len(c.pages)}
  /\ \A k \in CanvasesOf(c) : LoadCanvas(t, k.canvas) = {k}

\* A document is published, or found as it is, or nothing happens.
LEMMA PublicationFacts ==
  ASSUME NEW t, NEW c, NEW a, Sound(t), IsComposition(c), a = PublishDocument(t, c)
  PROVE  /\ Grown(t, a.db, CanvasesOf(c))
         /\ \/ a.db = t /\ (Published(a) => Loaded(t, c))
            \/ /\ Published(a) /\ Laid(a.db, c)
               /\ Range(a.db.documents) = Range(t.documents) \cup {DocumentRow(c)}
<1> DEFINE new == WithDocument(t, c)
<1>1. CASE LoadDocument(t, c.document) # {}
  <2>1. a = PublishExisting(t, c)
    BY <1>1, Zenon DEF PublishDocument
  <2>2. \/ a = Answer("Corruption", t) \/ a = Answer("Conflict", t)
        \/ a = Answer("Existing", t) /\ Loaded(t, c)
    BY <2>1, Zenon DEF PublishExisting, Loaded
  <2>3. a.db = t /\ (Published(a) => Loaded(t, c))
    BY <2>2 DEF Answer, Published
  <2> QED
    BY <2>3, GrownSame, Zenon
<1>2. CASE LoadDocument(t, c.document) = {}
  <2>1. \/ a = Answer("Conflict", t) \/ a = Answer("Backend", t)
        \/ ~DocumentIdsCollide(t, c) /\ Constraints(new) /\ a = Answer("Inserted", new)
    BY <1>2, Zenon DEF PublishDocument, Commit
  <2> HIDE DEF new
  <2>2. CASE a = Answer("Conflict", t) \/ a = Answer("Backend", t)
    <3>1. a.db = t /\ ~Published(a)
      BY <2>2 DEF Answer, Published
    <3> QED
      BY <3>1, GrownSame, Zenon
  <2>3. CASE ~DocumentIdsCollide(t, c) /\ Constraints(new) /\ a = Answer("Inserted", new)
    <3>1. a.db = new /\ Published(a)
      BY <2>3 DEF Answer, Published
    <3>2. /\ Sound(new) /\ Kept(t, new) /\ Adds(t, new, CanvasesOf(c))
          /\ Range(new.documents) = Range(t.documents) \cup {DocumentRow(c)}
          /\ PagesOf(new, c.document) = {PageRow(c, i) : i \in 1 .. Len(c.pages)}
      BY <1>2, <2>3, NewDocument DEF new
    <3>3. \A k \in CanvasesOf(c) : LoadCanvas(new, k.canvas) = {k}
      <4>1. CanvasesOK(t)
        BY Zenon DEF Sound
      <4> QED
        BY <3>2, <4>1, CanvasesGrow
    <3>4. Grown(t, new, CanvasesOf(c))
      BY <3>2, Zenon DEF Grown, Adds
    <3> QED
      BY <3>1, <3>2, <3>3, <3>4, Zenon DEF Laid
  <2> QED
    BY <2>1, <2>2, <2>3, Zenon
<1> QED
  BY <1>1, <1>2, Zenon

\* Identifiers generated anew: apart within the composition, and not known.
Distinct(c) ==
  \A i, j \in 1 .. Len(c.pages) : i # j =>
    c.pages[i].page # c.pages[j].page /\ Apart(c.pages[i].canvas, c.pages[j].canvas)
Fresh(t, c) ==
  \A k \in CanvasesOf(c) : /\ \A r \in t.canvases : r.canvas # k.canvas
                           /\ \A l \in t.layers : l.layer \notin k.layers

\* A catalog without documents takes the document with fresh identifiers.
LEMMA FreshPublication ==
  ASSUME NEW t, NEW c, Sound(t), Range(t.documents) = {}, IsComposition(c),
         Distinct(c), Fresh(t, c)
  PROVE  Published(PublishDocument(t, c))
<1> DEFINE new == WithDocument(t, c)
           n == Len(c.pages)
           ks == CanvasesOf(c)
<1>1. n \in Nat \ {0} /\ DOMAIN c.pages = 1 .. n
  BY DEF IsComposition
<1>2. Shape(t)
  BY Zenon DEF Sound
<1>3. /\ new.bindings = t.bindings
      /\ new.pages = t.pages \cup {PageRow(c, i) : i \in DOMAIN c.pages}
      /\ new.canvases = t.canvases \cup {CanvasRow(k) : k \in CanvasesOf(c)}
      /\ new.layers = t.layers \cup UNION {LayerRows(k) : k \in CanvasesOf(c)}
  BY <1>2, DocumentFacts
<1>4. t.pages = {}
  BY Zenon DEF Sound, DocumentsOK
<1>5. \A k : k \in ks <=> \E i \in 1 .. n : k = c.pages[i].canvas
  BY <1>1, Zenon DEF CanvasesOf
<1>6. \A k \in ks : IsCanvas(k)
  BY Zenon DEF IsComposition
<1>7. \A k, l \in ks : k = l \/ Apart(k, l)
  <2>1. \A i, j \in 1 .. n : i # j => Apart(c.pages[i].canvas, c.pages[j].canvas)
    BY Zenon DEF Distinct
  <2> QED
    BY <1>5, <2>1
<1>8. ~DocumentIdsCollide(t, c) /\ LoadDocument(t, c.document) = {}
  <2>1. LoadDocument(t, c.document) = {}
    BY Known, Zenon
  <2> QED
    BY <2>1, Known, Zenon DEF DocumentIdsCollide, Fresh
<1> HIDE DEF ks, n, new
<1>9. /\ \A r : r \in new.canvases <=> r \in t.canvases \/ \E k \in ks : r = CanvasRow(k)
      /\ \A r : r \in new.layers <=> r \in t.layers \/ \E k \in ks : r \in LayerRows(k)
      /\ \A r : r \in new.pages <=> \E i \in 1 .. n : r = PageRow(c, i)
  BY <1>1, <1>3, <1>4 DEF ks
<1>10. UniqueOn(new.canvases, LAMBDA r : r.canvas)
  <2>1. \A r, q \in t.canvases : r.canvas = q.canvas => r = q
    BY ConstraintsFacts DEF Sound
  <2>2. \A k \in ks : CanvasRow(k).canvas = k.canvas
    BY DEF CanvasRow
  <2>3. \A k \in ks : \A r \in t.canvases : r.canvas # k.canvas
    BY Zenon DEF Fresh, ks
  <2>4. \A k, l \in ks : k.canvas = l.canvas => k = l
    BY <1>7, Zenon DEF Apart
  <2>5. \A r, q \in new.canvases : r.canvas = q.canvas => r = q
    BY <1>9, <2>1, <2>2, <2>3, <2>4
  <2> QED
    BY <2>5, Zenon DEF UniqueOn
<1>11. UniqueOn(new.layers, LAMBDA r : r.layer)
  <2>1. \A r, q \in t.layers : r.layer = q.layer => r = q
    BY ConstraintsFacts DEF Sound
  <2>2. \A k \in ks : \A r \in LayerRows(k) : r.layer \in k.layers
    BY DEF LayerRows
  <2>3. \A k \in ks : \A r \in t.layers : r.layer \notin k.layers
    BY Zenon DEF Fresh, ks
  <2>4. \A k, l \in ks : \A x : x \in k.layers /\ x \in l.layers => k = l
    BY <1>7, Zenon DEF Apart
  <2>5. \A k \in ks : \A r, q \in LayerRows(k) : r.layer = q.layer => r = q
    BY DEF LayerRows
  <2>6. \A r, q \in new.layers : r.layer = q.layer => r = q
    BY <1>9, <2>1, <2>2, <2>3, <2>4, <2>5
  <2> QED
    BY <2>6, Zenon DEF UniqueOn
<1>12. \A i \in 1 .. n : /\ PageRow(c, i).page = c.pages[i].page
                         /\ PageRow(c, i).index = i
                         /\ PageRow(c, i).canvas = c.pages[i].canvas.canvas
  BY DEF PageRow
<1>13. \A i, j \in 1 .. n : i # j => /\ c.pages[i].page # c.pages[j].page
                                     /\ c.pages[i].canvas.canvas # c.pages[j].canvas.canvas
  BY Zenon DEF Distinct, Apart, n
<1>14. /\ UniqueOn(new.pages, LAMBDA r : r.page)
       /\ UniqueOn(new.pages, LAMBDA r : <<r.document, r.index>>)
       /\ UniqueOn(new.pages, LAMBDA r : <<r.document, r.canvas>>)
  <2>1. \A r, q \in new.pages : r.page = q.page => r = q
    BY <1>9, <1>12, <1>13
  <2>2. \A r, q \in new.pages : <<r.document, r.index>> = <<q.document, q.index>> => r = q
    BY <1>9, <1>12
  <2>3. \A r, q \in new.pages : <<r.document, r.canvas>> = <<q.document, q.canvas>> => r = q
    BY <1>9, <1>12, <1>13
  <2> QED
    BY <2>1, <2>2, <2>3, Zenon DEF UniqueOn
<1>15. UniqueOn(new.bindings, LAMBDA r : r.key)
  BY <1>3, Zenon DEF Sound, Constraints, Keys, UniqueOn
<1>16. ASSUME NEW r \in new.pages \cup new.bindings PROVE LoadCanvas(new, r.canvas) # {}
  <2>1. \E k \in new.canvases : k.canvas = r.canvas
    <3>1. CASE r \in t.bindings
      <4>1. \E k \in t.canvases : k.canvas = r.canvas
        <5>1. LoadCanvas(t, r.canvas) # {}
          BY <3>1, Zenon DEF Sound, Constraints, ForeignKeys
        <5> QED
          BY <5>1, Known, Zenon
      <4> QED
        BY <1>9, <4>1, Zenon
    <3>2. ASSUME NEW i \in 1 .. n, r = PageRow(c, i)
          PROVE  \E k \in new.canvases : k.canvas = r.canvas
      <4>1. c.pages[i].canvas \in ks
        BY <1>5, Zenon
      <4>2. /\ CanvasRow(c.pages[i].canvas) \in new.canvases
            /\ CanvasRow(c.pages[i].canvas).canvas = c.pages[i].canvas.canvas
        BY <1>9, <4>1 DEF CanvasRow
      <4> QED
        BY <1>12, <3>2, <4>2
    <3> QED
      BY <1>3, <1>9, <3>1, <3>2, Zenon
  <2> QED
    BY <2>1, Known, Zenon
<1>17. ASSUME NEW r \in new.canvases
       PROVE  [canvas |-> r.canvas, layer |-> r.default] \in new.layers
  <2>1. CASE r \in t.canvases
    BY <1>9, <2>1, Zenon DEF Sound, Constraints, ForeignKeys
  <2>2. ASSUME NEW k \in ks, r = CanvasRow(k)
        PROVE  [canvas |-> r.canvas, layer |-> r.default] \in LayerRows(k)
    <3>1. k.default \in k.layers
      BY <1>6, Zenon DEF IsCanvas
    <3> QED
      BY <2>2, <3>1 DEF CanvasRow, LayerRows
  <2> QED
    BY <1>9, <2>1, <2>2, Zenon
<1>18. Constraints(new)
  BY <1>10, <1>11, <1>14, <1>15, <1>16, <1>17, Zenon DEF Constraints, Keys, ForeignKeys
<1>19. PublishDocument(t, c) = Answer("Inserted", new)
  BY <1>8, <1>18, Zenon DEF PublishDocument, Commit, new
<1> QED
  BY <1>19 DEF Answer, Published

\* The composition of the development PDF, given its session.
LEMMA SessionFacts ==
  ASSUME NEW g, NEW s, NEW c, IsComposition(g), c = InSession(g, s)
  PROVE  /\ IsComposition(c) /\ Len(c.pages) = Len(g.pages)
         /\ c.document = g.document /\ c.asset = g.asset
         /\ \A i \in 1 .. Len(c.pages) :
              /\ c.pages[i].page = g.pages[i].page
              /\ c.pages[i].canvas.canvas = g.pages[i].canvas.canvas
              /\ c.pages[i].canvas.layers = g.pages[i].canvas.layers
<1> DEFINE n == Len(g.pages)
           In(k) == [canvas |-> k.canvas, session |-> s, size |-> k.size,
                     layers |-> k.layers, default |-> k.default]
           ps == [i \in 1 .. n |-> [page |-> g.pages[i].page, canvas |-> In(g.pages[i].canvas)]]
<1>1. /\ n \in Nat \ {0} /\ DOMAIN g.pages = 1 .. n
      /\ \A i \in 1 .. n : g.pages[i] = [page |-> g.pages[i].page, canvas |-> g.pages[i].canvas]
      /\ g = [document |-> g.document, session |-> g.session, asset |-> g.asset,
              pages |-> g.pages]
  BY DEF IsComposition
<1>2. \A i \in 1 .. n : IsCanvas(g.pages[i].canvas)
  BY <1>1, Zenon DEF IsComposition, CanvasesOf
<1>3. ASSUME NEW i \in 1 .. n
      PROVE  [g.pages[i] EXCEPT !.canvas.session = s]
               = [page |-> g.pages[i].page, canvas |-> In(g.pages[i].canvas)]
  <2> DEFINE p == g.pages[i]
             k == g.pages[i].canvas
  <2>1. p = [page |-> p.page, canvas |-> k]
    BY <1>1, Zenon
  <2>2. k = [canvas |-> k.canvas, session |-> k.session, size |-> k.size,
             layers |-> k.layers, default |-> k.default]
    BY <1>2, Zenon DEF IsCanvas
  <2>3. [k EXCEPT !.session = s] = In(k)
    <3> HIDE DEF k
    <3> QED
      BY <2>2
  <2>4. [p EXCEPT !.canvas.session = s] = [p EXCEPT !.canvas = [k EXCEPT !.session = s]]
    OBVIOUS
  <2> HIDE DEF In
  <2> QED
    BY <2>1, <2>3, <2>4
<1>4. c = [g EXCEPT !.session = s, !.pages = ps]
  <2>1. [i \in DOMAIN g.pages |-> [g.pages[i] EXCEPT !.canvas.session = s]] = ps
    BY <1>1, <1>3
  <2>2. c = [g EXCEPT !.session = s,
               !.pages = [i \in DOMAIN g.pages |-> [g.pages[i] EXCEPT !.canvas.session = s]]]
    BY DEF InSession
  <2> HIDE DEF ps
  <2> QED
    BY <2>1, <2>2, Zenon
<1>5. c = [document |-> g.document, session |-> s, asset |-> g.asset, pages |-> ps]
  <2> HIDE DEF ps
  <2> QED
    BY <1>1, <1>4, Zenon
<1>6. /\ c.pages = ps /\ c.document = g.document /\ c.asset = g.asset /\ c.session = s
      /\ c = [document |-> c.document, session |-> c.session, asset |-> c.asset,
              pages |-> c.pages]
  <2> HIDE DEF ps
  <2> QED
    BY <1>5
<1>7. DOMAIN ps = 1 .. n /\ Len(ps) = n
  <2>1. DOMAIN ps = 1 .. n
    OBVIOUS
  <2> QED
    BY <1>1
<1>8. \A i \in 1 .. n : /\ ps[i].page = g.pages[i].page
                        /\ ps[i].canvas = In(g.pages[i].canvas)
                        /\ ps[i] = [page |-> ps[i].page, canvas |-> ps[i].canvas]
  <2> HIDE DEF In
  <2> QED
    OBVIOUS
<1>9. \A k : IsCanvas(k) => /\ IsCanvas(In(k)) /\ In(k).session = s
                            /\ In(k).canvas = k.canvas /\ In(k).layers = k.layers
  BY DEF IsCanvas
<1> HIDE DEF In, ps
<1>10. \A k \in CanvasesOf(c) : IsCanvas(k) /\ k.session = c.session
  <2>1. ASSUME NEW k \in CanvasesOf(c) PROVE IsCanvas(k) /\ k.session = c.session
    <3>1. PICK i \in 1 .. n : k = c.pages[i].canvas
      BY <1>6, <1>7, Zenon DEF CanvasesOf
    <3>2. k = In(g.pages[i].canvas)
      BY <1>6, <1>8, <3>1, Zenon
    <3>3. IsCanvas(k) /\ k.session = s
      BY <1>2, <1>9, <3>2
    <3> QED
      BY <1>6, <3>3, Zenon
  <2> QED
    BY <2>1, Zenon
<1>11. ps = [i \in 1 .. n |-> [page |-> ps[i].page, canvas |-> ps[i].canvas]]
  <2>1. \A i \in 1 .. n : ps[i] = [page |-> ps[i].page, canvas |-> ps[i].canvas]
    BY <1>8, Zenon
  <2> QED
    BY <2>1 DEF ps
<1>12. IsComposition(c)
  BY <1>1, <1>6, <1>7, <1>10, <1>11, Zenon DEF IsComposition
<1>13. \A i \in 1 .. n : /\ c.pages[i].page = g.pages[i].page
                         /\ c.pages[i].canvas.canvas = g.pages[i].canvas.canvas
                         /\ c.pages[i].canvas.layers = g.pages[i].canvas.layers
  <2>1. ASSUME NEW i \in 1 .. n
        PROVE  /\ c.pages[i].page = g.pages[i].page
               /\ c.pages[i].canvas.canvas = g.pages[i].canvas.canvas
               /\ c.pages[i].canvas.layers = g.pages[i].canvas.layers
    <3>1. c.pages[i].page = g.pages[i].page /\ c.pages[i].canvas = In(g.pages[i].canvas)
      BY <1>6, <1>8, Zenon
    <3>2. /\ In(g.pages[i].canvas).canvas = g.pages[i].canvas.canvas
          /\ In(g.pages[i].canvas).layers = g.pages[i].canvas.layers
      BY <1>2, <1>9, Zenon
    <3> QED
      BY <3>1, <3>2, Zenon
  <2> QED
    BY <2>1, Zenon
<1>14. Len(c.pages) = n
  BY <1>6, <1>7, Zenon
<1> HIDE DEF n
<1>15. \A i \in 1 .. Len(c.pages) :
         /\ c.pages[i].page = g.pages[i].page
         /\ c.pages[i].canvas.canvas = g.pages[i].canvas.canvas
         /\ c.pages[i].canvas.layers = g.pages[i].canvas.layers
  BY <1>13, <1>14
<1> QED
  BY <1>6, <1>12, <1>14, <1>15, Zenon DEF n

-----------------------------------------------------------------------------
(* The inductive invariant.                                                *)

OnePdf(t) ==
  \A r, q \in Range(t.documents) :
    r.document \in PdfIds /\ q.document \in PdfIds => r = q

\* The control: where the bootstrap is, and what it has in hand.
Control ==
  /\ pc \in {"down", "refused", "pdf_refused", "binding", "publishing_canvas",
             "listing", "ingesting", "inspecting", "publishing_document", "validating", "up"}
  /\ mode \in Modes /\ failures \in Nat
  /\ pc = "down" => canvas = {}
  /\ pc = "publishing_canvas" =>
       /\ mode.keepsCatalog /\ LoadBinding(db, Key) = {}
       /\ canvas \subseteq Configured /\ \A k, l \in canvas : k = l

\* The tables, and the ones a power failure goes back to.
Tables ==
  /\ synced = [db |-> synced.db, assets |-> synced.assets]
  /\ Sound(db) /\ Sound(synced.db)
  /\ OnePdf(db) /\ OnePdf(synced.db)
  /\ generated \subseteq Pdfs
  /\ \A g \in Pdfs \ generated : Fresh(db, g) /\ Fresh(synced.db, g)

\* The composition in hand is one the catalog will take.
Handed(c) ==
  /\ IsComposition(c) /\ Distinct(c) /\ Fresh(db, c) /\ c.document \in PdfIds
  /\ mode.keepsAssets => c.asset \in assets
  /\ \A g \in Pdfs \ generated : \A k \in CanvasesOf(c), l \in CanvasesOf(g) : Apart(k, l)
InHands ==
  /\ pc \in {"inspecting", "publishing_document"} => \A c \in pdf : Handed(c)
  /\ pc \in {"ingesting", "inspecting", "publishing_document", "pdf_refused"}
       /\ mode.keepsCatalog => Range(db.documents) = {}

\* The canvas is the one that is bound.
Served ==
  /\ failures = 0 => \A k \in up : Bound(db, Key, k)
  /\ mode.keepsCatalog /\ pc \in {"listing", "ingesting", "inspecting",
                                  "publishing_document", "validating", "up"} =>
       \A k \in canvas : Bound(db, Key, k)

\* What was acknowledged loads.
Acknowledged ==
  /\ acked = [documents |-> acked.documents, canvases |-> acked.canvases]
  /\ failures = 0 =>
       /\ \A c \in acked.documents : Loaded(db, c)
       /\ \A k \in acked.canvases : LoadCanvas(db, k.canvas) = {k}

\* The PDF's document has its asset, where a server is up and anywhere.
Provided ==
  pc = "up" /\ mode.keepsCatalog =>
    \A r \in Range(db.documents) : r.document \in PdfIds => r.asset \in Assets
Backed ==
  failures = 0 /\ ~mixed =>
    \A r \in Range(db.documents) : r.document \in PdfIds => r.asset \in assets

\* A start is refused only for a reason.
Accepted ==
  failures = 0 /\ up # {} /\ ~Misbound(db) /\ ~mixed /\ Unbacked = {} /\ mode.keepsAssets
    => pc # "refused"

BInv ==
  /\ Control /\ Tables /\ InHands /\ Served /\ Acknowledged /\ Provided /\ Backed
  /\ Accepted

\* Fresh identifiers stay fresh where what comes is apart from them.
LEMMA StaysFresh ==
  ASSUME NEW t, NEW new, NEW ks, NEW g, Grown(t, new, ks), Fresh(t, g),
         \A k \in ks : \A l \in CanvasesOf(g) : Apart(l, k)
  PROVE  Fresh(new, g)
<1>1. /\ \A r \in new.canvases : r \in t.canvases \/ \E k \in ks : r = CanvasRow(k)
      /\ \A r \in new.layers : r \in t.layers \/ \E k \in ks : r \in LayerRows(k)
  BY DEF Grown
<1>2. \A k \in ks : CanvasRow(k).canvas = k.canvas
                    /\ \A r \in LayerRows(k) : r.layer \in k.layers
  BY DEF CanvasRow, LayerRows
<1>3. ASSUME NEW l \in CanvasesOf(g), NEW r \in new.canvases PROVE r.canvas # l.canvas
  <2>1. CASE r \in t.canvases
    BY <2>1, Zenon DEF Fresh
  <2>2. ASSUME NEW k \in ks, r = CanvasRow(k) PROVE r.canvas # l.canvas
    BY <1>2, <2>2, Zenon DEF Apart
  <2> QED
    BY <1>1, <2>1, <2>2, Zenon
<1>4. ASSUME NEW l \in CanvasesOf(g), NEW r \in new.layers PROVE r.layer \notin l.layers
  <2>1. CASE r \in t.layers
    BY <2>1, Zenon DEF Fresh
  <2>2. ASSUME NEW k \in ks, r \in LayerRows(k) PROVE r.layer \notin l.layers
    <3>1. r.layer \in k.layers /\ l.layers \cap k.layers = {}
      BY <1>2, <2>2, Zenon DEF Apart
    <3> QED
      BY <3>1, Zenon
  <2> QED
    BY <1>1, <2>1, <2>2, Zenon
<1> QED
  BY <1>3, <1>4, Zenon DEF Fresh

\* What is bound stays bound.
LEMMA StaysBound ==
  ASSUME NEW t, NEW new, NEW key, NEW k, Kept(t, new), Bound(t, key, k)
  PROVE  Bound(new, key, k)
<1>1. LoadCanvas(t, k.canvas) # {}
  BY Zenon DEF Bound
<1>2. LoadCanvas(new, k.canvas) = {k}
  BY <1>1, Zenon DEF Bound, Kept
<1> QED
  BY <1>2, Zenon DEF Bound, Kept

\* A key is bound to one canvas.
LEMMA OneBound ==
  ASSUME NEW t, NEW key, NEW k, NEW l, Sound(t), Bound(t, key, k), Bound(t, key, l)
  PROVE  k = l
<1>1. \A r, q \in t.bindings : r.key = q.key => r = q
  BY ConstraintsFacts DEF Sound
<1>2. k.canvas = l.canvas
  BY <1>1, Zenon DEF Bound
<1> QED
  BY <1>2, Zenon DEF Bound

\* What is loaded stays so.
LEMMA StaysLoaded ==
  ASSUME NEW t, NEW new, NEW c, Kept(t, new), Loaded(t, c)
  PROVE  Loaded(new, c)
<1>1. LoadDocument(new, c.document) = {DescriptorOf(c)}
  <2>1. LoadDocument(t, c.document) # {}
    BY Zenon DEF Loaded
  <2> QED
    BY <2>1, Zenon DEF Kept, Loaded
<1>2. ASSUME NEW k \in CanvasesOf(c) PROVE LoadCanvas(new, k.canvas) = {k}
  <2>1. LoadCanvas(t, k.canvas) = {k}
    BY Zenon DEF Loaded
  <2>2. LoadCanvas(t, k.canvas) # {}
    BY <2>1, Zenon
  <2> QED
    BY <2>1, <2>2, Zenon DEF Kept
<1> QED
  BY <1>1, <1>2, Zenon DEF Loaded

\* list_all_documents gives the documents of the rows.
LEMMA Listed ==
  ASSUME NEW t, Sound(t)
  PROVE  /\ \A d \in Range(ListAllDocuments(t)) : \E r \in Range(t.documents) :
              d.document = r.document /\ d.asset = r.asset
         /\ \A r \in Range(t.documents) : \E d \in Range(ListAllDocuments(t)) :
              d.document = r.document /\ d.asset = r.asset
<1> DEFINE Doc(r) == [document |-> r.document, session |-> r.session, asset |-> r.asset,
                      pages |-> LoadPages(t, r.document)]
           L == ListAllDocuments(t)
<1>1. \A r \in Range(t.documents) : LoadDocument(t, r.document) = {Doc(r)}
  <2>1. ASSUME NEW r \in Range(t.documents) PROVE LoadDocument(t, r.document) = {Doc(r)}
    <3>1. \A q \in Range(t.documents) : q.document = r.document => q = r
      BY Zenon DEF Sound, DocumentsOK
    <3>2. {q \in Range(t.documents) : q.document = r.document} = {r}
      BY <3>1, Zenon
    <3> QED
      BY <3>2, Zenon DEF LoadDocument
  <2> QED
    BY <2>1, Zenon
<1>2. \A r : Doc(r).document = r.document /\ Doc(r).asset = r.asset
  OBVIOUS
<1> HIDE DEF Doc
<1>3. L = [i \in DOMAIN t.documents |->
             CHOOSE d \in LoadDocument(t, t.documents[i].document) : TRUE]
  BY Zenon DEF ListAllDocuments
<1>4. DOMAIN L = DOMAIN t.documents
  BY <1>3, Zenon
<1>5. \A i \in DOMAIN t.documents : t.documents[i] \in Range(t.documents)
  BY Zenon DEF Range
<1>6. \A i \in DOMAIN t.documents : L[i] = Doc(t.documents[i])
  <2>1. ASSUME NEW i \in DOMAIN t.documents PROVE L[i] = Doc(t.documents[i])
    <3>1. LoadDocument(t, t.documents[i].document) = {Doc(t.documents[i])}
      BY <1>1, <1>5, Zenon
    <3>2. L[i] = CHOOSE d \in LoadDocument(t, t.documents[i].document) : TRUE
      BY <1>3, Zenon
    <3>3. L[i] = CHOOSE d \in {Doc(t.documents[i])} : TRUE
      BY <3>1, <3>2, Zenon
    <3> QED
      BY <3>3
  <2> QED
    BY <2>1, Zenon
<1> HIDE DEF L
<1>7. ASSUME NEW d \in Range(L)
      PROVE  \E r \in Range(t.documents) : d.document = r.document /\ d.asset = r.asset
  <2>1. PICK i \in DOMAIN L : d = L[i]
    BY Zenon DEF Range
  <2>2. t.documents[i] \in Range(t.documents) /\ d = Doc(t.documents[i])
    BY <1>4, <1>5, <1>6, <2>1, Zenon
  <2> QED
    BY <1>2, <2>2, Zenon
<1>8. ASSUME NEW r \in Range(t.documents)
      PROVE  \E d \in Range(L) : d.document = r.document /\ d.asset = r.asset
  <2>1. PICK i \in DOMAIN t.documents : r = t.documents[i]
    BY Zenon DEF Range
  <2>2. L[i] = Doc(r) /\ L[i] \in Range(L)
    BY <1>4, <1>6, <2>1, Zenon DEF Range
  <2> QED
    BY <1>2, <2>2, Zenon
<1> QED
  BY <1>7, <1>8, Zenon DEF L

\* Nothing has been published yet.
LEMMA EmptyFacts ==
  /\ Sound(EmptyTables) /\ OnePdf(EmptyTables) /\ Range(EmptyTables.documents) = {}
  /\ \A g : Fresh(EmptyTables, g)
<1>1. /\ EmptyTables.documents = <<>> /\ EmptyTables.pages = {}
      /\ EmptyTables.canvases = {} /\ EmptyTables.layers = {}
      /\ EmptyTables.bindings = {} /\ Shape(EmptyTables)
  BY DEF EmptyTables, Shape
<1>2. Range(EmptyTables.documents) = {} /\ EmptyTables.documents \in Seq({})
  <2>1. Range(<<>>) = {} /\ <<>> \in Seq({})
    BY DEF Range
  <2> QED
    BY <1>1, <2>1, Zenon
<1>3. Constraints(EmptyTables)
  BY <1>1, Zenon DEF Constraints, Keys, ForeignKeys, UniqueOn
<1>4. CanvasesOK(EmptyTables)
  BY <1>1, Zenon DEF CanvasesOK
<1>5. DocumentsOK(EmptyTables)
  BY <1>1, <1>2, Zenon DEF DocumentsOK
<1> QED
  BY <1>1, <1>2, <1>3, <1>4, <1>5, Zenon DEF Sound, OnePdf, Fresh

\* What the assumptions say of the identifiers of the development PDF.
LEMMA Generated ==
  ASSUME NEW g \in Pdfs
  PROVE  /\ IsComposition(g) /\ Distinct(g) /\ g.document \in PdfIds
         /\ \A c \in Pdfs \ {g} : \A k \in CanvasesOf(c), l \in CanvasesOf(g) : Apart(l, k)
         /\ \A c \in Compositions : \A k \in CanvasesOf(c), l \in CanvasesOf(g) : Apart(l, k)
         /\ \A k \in Configured \cup Canvases, l \in CanvasesOf(g) : Apart(l, k)
<1>1. IsComposition(g)
  BY InputsAssumption, Zenon
<1>2. DOMAIN g.pages = 1 .. Len(g.pages)
  BY <1>1 DEF IsComposition
<1> QED
  BY <1>1, <1>2, GeneratedAssumption, Zenon DEF Distinct, PdfIds

\* A step that leaves the stores and their histories alone.
LEMMA Quiet ==
  ASSUME BInv,
         UNCHANGED <<db, assets, synced, generated, failures, acked, mixed>>
  PROVE  Tables' /\ Acknowledged' /\ Backed'
<1>1. Tables'
  BY Zenon DEF BInv, Tables
<1>2. Acknowledged'
  BY Zenon DEF BInv, Acknowledged
<1>3. Backed'
  BY Zenon DEF BInv, Backed
<1> QED
  BY <1>1, <1>2, <1>3, Zenon

\* The first start finds nothing.
LEMMA Start ==
  Init => BInv
<1> SUFFICES ASSUME Init PROVE BInv
  OBVIOUS
<1>1. /\ db = EmptyTables /\ synced = [db |-> EmptyTables, assets |-> {}]
      /\ pc = "down" /\ mode = DefaultMode /\ canvas = {} /\ generated = {}
      /\ failures = 0 /\ up = {} /\ acked = [documents |-> {}, canvases |-> {}]
  BY Zenon DEF Init
<1>2. synced.db = EmptyTables /\ synced = [db |-> synced.db, assets |-> synced.assets]
  BY <1>1
<1>3. Control
  BY <1>1 DEF Control, DefaultMode, Modes
<1>4. Tables
  BY <1>1, <1>2, EmptyFacts, Zenon DEF Tables
<1>5. Acknowledged
  <2>1. /\ acked = [documents |-> acked.documents, canvases |-> acked.canvases]
        /\ acked.documents = {} /\ acked.canvases = {}
    BY <1>1
  <2> QED
    BY <2>1, Zenon DEF Acknowledged
<1>6. InHands /\ Served /\ Provided /\ Accepted
  BY <1>1 DEF InHands, Served, Provided, Accepted
<1>7. Backed
  BY <1>1, EmptyFacts, Zenon DEF Backed
<1> QED
  BY <1>3, <1>4, <1>5, <1>6, <1>7, Zenon DEF BInv

\* A bootstrap that ended, in a refusal (Fail) or with its process (Stop), is
\* past the demands on what it has in hand.
LEMMA Ended ==
  ASSUME BInv, mode' \in Modes, Gone("refused") \/ Gone("down")
  PROVE  /\ Provided' /\ InHands' /\ (failures' \in Nat => Control')
         /\ (Gone("down") => Accepted')
<1>1. pc' \in {"refused", "down"} /\ canvas' = {}
  BY DEF Gone
<1>2. Gone("down") => pc' = "down"
  BY DEF Gone
<1> QED
  BY <1>1, <1>2 DEF Provided, InHands, Control, Accepted

\* What is left to show of sound tables once pages are put in order: their
\* documents are intact, and they pass the scan of an opening; a composition
\* whose rows are all there is loaded as it was given.
Scans ==
  \A t : Sound(t) => /\ \A r \in Range(t.documents) : DocumentIntact(t, r)
                     /\ ~Misbound(t) => ScanIntegrity(t)
Loads ==
  \A t, c : /\ Sound(t) /\ IsComposition(c) /\ Laid(t, c)
            /\ DocumentRow(c) \in Range(t.documents)
            => Loaded(t, c)

\* The catalog is opened: only a misbinding has it refused.
LEMMA OpenStep ==
  ASSUME BInv, Scans, Open
  PROVE  BInv'
<1>1. /\ pc = "down" /\ mode' \in Modes /\ canvas = {}
      /\ UNCHANGED <<db, assets, synced, generated, failures, up, acked, mixed>>
  BY Zenon DEF BInv, Control, Open, bounds
<1>2. Tables' /\ Acknowledged' /\ Backed'
  BY <1>1, Quiet, Zenon
<1>3. failures \in Nat /\ Sound(db) /\ (failures = 0 => \A k \in up : Bound(db, Key, k))
  BY Zenon DEF BInv, Control, Tables, Served
<1>4. CASE mode'.keepsCatalog /\ ~ScanIntegrity(db)
  <2>1. Gone("refused") /\ Misbound(db)
    BY <1>3, <1>4, Zenon DEF Open, Fail, Scans
  <2>2. Provided' /\ InHands' /\ Control'
    BY <1>1, <1>3, <2>1, Ended, Zenon
  <2>3. pc' = "refused"
    BY <2>1 DEF Gone
  <2>4. Served' /\ Accepted'
    BY <1>1, <1>3, <2>1, <2>3 DEF Served, Accepted
  <2> QED
    BY <1>2, <2>2, <2>4, Zenon DEF BInv
<1>5. CASE ~(mode'.keepsCatalog /\ ~ScanIntegrity(db))
  <2>1. pc' \in {"binding", "validating"} /\ canvas' = {}
    BY <1>1, <1>5 DEF Open, InHand
  <2>2. Control' /\ InHands' /\ Provided' /\ Accepted'
    BY <1>1, <1>3, <2>1 DEF Control, InHands, Provided, Accepted
  <2>3. Served'
    BY <1>1, <1>3, <2>1 DEF Served
  <2> QED
    BY <1>2, <2>2, <2>3, Zenon DEF BInv
<1> QED
  BY <1>4, <1>5, Zenon

\* The canvas of the binding is taken; its session can differ only where it was
\* misbound.
LEMMA FindBindingStep ==
  ASSUME BInv, FindBinding
  PROVE  BInv'
<1>1. /\ pc = "binding" /\ mode' = mode
      /\ UNCHANGED <<db, assets, synced, generated, failures, up, acked, mixed>>
  BY Zenon DEF FindBinding, bounds
<1>2. Tables' /\ Acknowledged' /\ Backed'
  BY <1>1, Quiet, Zenon
<1>3. /\ failures \in Nat /\ mode \in Modes /\ Sound(db)
      /\ failures = 0 => \A k \in up : Bound(db, Key, k)
  BY Zenon DEF BInv, Control, Tables, Served
<1>4. CASE ~mode.keepsCatalog \/ LoadBinding(db, Key) = {}
  <2>1. /\ pc' = (IF mode.keepsCatalog THEN "publishing_canvas" ELSE "listing")
        /\ \E k \in Configured : canvas' = {k}
    BY <1>4, Zenon DEF FindBinding
  <2>2. canvas' \subseteq Configured /\ \A k, l \in canvas' : k = l
    BY <2>1, Zenon
  <2>3. Control'
    BY <1>1, <1>3, <1>4, <2>1, <2>2 DEF Control
  <2>4. InHands' /\ Provided' /\ Accepted' /\ Served'
    BY <1>1, <1>3, <2>1 DEF InHands, Provided, Accepted, Served
  <2> QED
    BY <1>2, <2>3, <2>4, Zenon DEF BInv
<1>5. CASE mode.keepsCatalog /\ LoadBinding(db, Key) # {}
  <2>1. PICK b \in LoadBinding(db, Key) :
          LET found == {k \in LoadCanvas(db, b.canvas) : k.session = b.session}
          IN  \/ found = {} /\ Gone("refused")
              \/ found # {} /\ pc' = "listing" /\ canvas' = found
    BY <1>5, Zenon DEF FindBinding, Fail
  <2> DEFINE found == {k \in LoadCanvas(db, b.canvas) : k.session = b.session}
  <2>2. b \in db.bindings /\ b.key = Key
    BY Zenon DEF LoadBinding
  <2>3. \A k \in LoadCanvas(db, b.canvas) : /\ LoadCanvas(db, b.canvas) = {k}
                                            /\ k.canvas = b.canvas
    <3>1. \A r, q \in db.canvases : r.canvas = q.canvas => r = q
      BY <1>3, ConstraintsFacts DEF Sound
    <3>2. \A r, q \in {c \in db.canvases : c.canvas = b.canvas} : r = q
      BY <3>1, Zenon
    <3>3. \A k, l \in LoadCanvas(db, b.canvas) : k = l
      BY <3>2, Zenon DEF LoadCanvas
    <3>4. \A k \in LoadCanvas(db, b.canvas) : k.canvas = b.canvas
      BY DEF LoadCanvas
    <3> QED
      BY <3>3, <3>4, Zenon
  <2>4. CASE found = {} /\ Gone("refused")
    <3>1. Misbound(db)
      BY <2>2, <2>4, Zenon DEF Misbound
    <3>2. Provided' /\ InHands' /\ Control'
      BY <1>1, <1>3, <2>4, Ended, Zenon
    <3>3. pc' = "refused"
      BY <2>4 DEF Gone
    <3>4. Served' /\ Accepted'
      BY <1>1, <1>3, <3>1, <3>3 DEF Served, Accepted
    <3> QED
      BY <1>2, <3>2, <3>4, Zenon DEF BInv
  <2>5. CASE found # {} /\ pc' = "listing" /\ canvas' = found
    <3>1. \A k \in canvas' : Bound(db, Key, k)
      BY <2>2, <2>3, <2>5, Zenon DEF Bound
    <3>2. Control' /\ InHands' /\ Provided' /\ Accepted'
      BY <1>1, <1>3, <2>5 DEF Control, InHands, Provided, Accepted
    <3>3. Served'
      BY <1>1, <1>3, <3>1 DEF Served
    <3> QED
      BY <1>2, <3>2, <3>3, Zenon DEF BInv
  <2> QED
    BY <2>1, <2>4, <2>5, Zenon
<1> QED
  BY <1>4, <1>5, Zenon

\* A step that adds to the tables.
LEMMA Growth ==
  ASSUME BInv, NEW ks, Grown(db, db', ks), OnePdf(db'),
         \A g \in Pdfs \ generated : \A k \in ks : \A l \in CanvasesOf(g) : Apart(l, k),
         UNCHANGED <<synced, generated, failures>>
  PROVE  /\ Tables'
         /\ \A k : Bound(db, Key, k) => Bound(db', Key, k)
         /\ failures = 0 => /\ \A k \in up : Bound(db', Key, k)
                            /\ \A c \in acked.documents : Loaded(db', c)
                            /\ \A k \in acked.canvases : LoadCanvas(db', k.canvas) = {k}
<1>1. Tables'
  <2>1. \A g \in Pdfs \ generated : Fresh(db', g)
    <3>1. \A g \in Pdfs \ generated : Fresh(db, g)
      BY Zenon DEF BInv, Tables
    <3> QED
      BY <3>1, StaysFresh, Zenon
  <2> QED
    BY <2>1, Zenon DEF BInv, Tables, Grown
<1>2. Kept(db, db')
  BY Zenon DEF Grown
<1>3. \A k : Bound(db, Key, k) => Bound(db', Key, k)
  BY <1>2, StaysBound, Zenon
<1>4. ASSUME failures = 0
      PROVE  /\ \A k \in up : Bound(db', Key, k)
             /\ \A c \in acked.documents : Loaded(db', c)
             /\ \A k \in acked.canvases : LoadCanvas(db', k.canvas) = {k}
  <2>1. \A k \in up : Bound(db', Key, k)
    BY <1>3, <1>4, Zenon DEF BInv, Served
  <2>2. \A c \in acked.documents : Loaded(db', c)
    BY <1>2, <1>4, StaysLoaded, Zenon DEF BInv, Acknowledged
  <2>3. ASSUME NEW k \in acked.canvases PROVE LoadCanvas(db', k.canvas) = {k}
    <3>1. LoadCanvas(db, k.canvas) = {k}
      BY <1>4, Zenon DEF BInv, Acknowledged
    <3>2. LoadCanvas(db, k.canvas) # {}
      BY <3>1, Zenon
    <3> QED
      BY <1>2, <3>1, <3>2, Zenon DEF Kept
  <2> QED
    BY <2>1, <2>2, <2>3, Zenon
<1> QED
  BY <1>1, <1>3, <1>4, Zenon

\* The configured canvas is published and bound: then none was bound before, so
\* no server has come up.
LEMMA PublishCanvasStep ==
  ASSUME BInv, PublishCanvas
  PROVE  BInv'
<1>1. /\ pc = "publishing_canvas"
      /\ UNCHANGED <<assets, synced, mode, generated, failures, up, acked, mixed>>
  BY Zenon DEF PublishCanvas, bounds
<1>2. PICK k \in canvas :
        LET a == PublishWithBinding(db, Key, k)
        IN  /\ db' = a.db
            /\ IF Published(a) THEN pc' = "listing" /\ InHand ELSE Fail
  BY Zenon DEF PublishCanvas
<1> DEFINE a == PublishWithBinding(db, Key, k)
<1>3. /\ failures \in Nat /\ mode \in Modes /\ Sound(db) /\ mode.keepsCatalog
      /\ canvas \subseteq Configured /\ LoadBinding(db, Key) = {}
  BY <1>1, Zenon DEF BInv, Control, Tables
<1>4. IsCanvas(k) /\ k \in Configured
  BY <1>3, InputsAssumption, Zenon
<1>5. /\ Grown(db, a.db, {k}) /\ a.db.documents = db.documents
      /\ Published(a) => Bound(a.db, Key, k)
  BY <1>3, <1>4, WithBindingFacts
<1> HIDE DEF a
<1>6. Grown(db, db', {k}) /\ db'.documents = db.documents
  BY <1>2, <1>5, Zenon DEF a
<1>7. OnePdf(db')
  BY <1>6, Zenon DEF BInv, Tables, OnePdf
<1>8. \A g \in Pdfs \ generated : \A j \in {k} : \A l \in CanvasesOf(g) : Apart(l, j)
  BY <1>4, Generated, Zenon
<1>9. /\ Tables'
      /\ failures = 0 => /\ \A j \in up : Bound(db', Key, j)
                         /\ \A c \in acked.documents : Loaded(db', c)
                         /\ \A j \in acked.canvases : LoadCanvas(db', j.canvas) = {j}
  BY <1>1, <1>6, <1>7, <1>8, Growth, Zenon
<1>10. Acknowledged'
  BY <1>1, <1>9, Zenon DEF BInv, Acknowledged
<1>11. Backed'
  BY <1>1, <1>6, Zenon DEF BInv, Backed
<1>12. failures = 0 => up = {}
  <2>1. \A j : ~Bound(db, Key, j)
    BY <1>3, Zenon DEF Bound, LoadBinding
  <2> QED
    BY <2>1, Zenon DEF BInv, Served
<1>13. CASE Published(a)
  <2>1. pc' = "listing" /\ canvas' = canvas /\ Bound(db', Key, k)
    BY <1>2, <1>5, <1>13, Zenon DEF a, InHand
  <2>2. \A j \in canvas : Bound(db', Key, j)
    <3>1. canvas = {k}
      BY <1>1, <1>2, Zenon DEF BInv, Control
    <3> QED
      BY <2>1, <3>1, Zenon
  <2>3. Control' /\ InHands' /\ Provided' /\ Accepted'
    BY <1>1, <1>3, <2>1 DEF Control, InHands, Provided, Accepted
  <2>4. Served'
    BY <1>1, <1>9, <2>1, <2>2, Zenon DEF Served
  <2> QED
    BY <1>9, <1>10, <1>11, <2>3, <2>4, Zenon DEF BInv
<1>14. CASE ~Published(a)
  <2>1. Gone("refused")
    BY <1>2, <1>14, Zenon DEF a, Fail
  <2>2. Provided' /\ InHands' /\ Control'
    BY <1>1, <1>3, <2>1, Ended, Zenon
  <2>3. canvas' = {}
    BY <2>1, Zenon DEF Gone
  <2>4. Served' /\ Accepted'
    BY <1>1, <1>9, <1>12, <2>3 DEF Served, Accepted
  <2> QED
    BY <1>9, <1>10, <1>11, <2>2, <2>4, Zenon DEF BInv
<1> QED
  BY <1>13, <1>14, Zenon

\* The PDF is taken only where there is no document.
LEMMA ListStep ==
  ASSUME BInv, List
  PROVE  BInv'
<1>1. /\ pc = "listing" /\ canvas' = canvas /\ pdf' = pdf
      /\ UNCHANGED <<db, assets, synced, mode, generated, failures, up, acked, mixed>>
  BY Zenon DEF List, InHand, bounds
<1>2. Tables' /\ Acknowledged' /\ Backed'
  BY <1>1, Quiet, Zenon
<1>3. /\ failures \in Nat /\ mode \in Modes /\ Sound(db)
      /\ failures = 0 => \A k \in up : Bound(db, Key, k)
      /\ mode.keepsCatalog => \A k \in canvas : Bound(db, Key, k)
  BY <1>1 DEF BInv, Control, Tables, Served
<1>4. pc' = "validating" \/ (pc' = "ingesting" /\ Documents = {})
  BY Zenon DEF List
<1>5. pc' = "ingesting" /\ mode.keepsCatalog => Range(db.documents) = {}
  <2>1. Range(ListAllDocuments(db)) = {} => Range(db.documents) = {}
    BY <1>3, Listed, Zenon
  <2> QED
    BY <1>4, <2>1 DEF Documents
<1>6. Control' /\ InHands' /\ Provided' /\ Accepted'
  BY <1>1, <1>3, <1>4, <1>5 DEF Control, InHands, Provided, Accepted
<1>7. Served'
  BY <1>1, <1>3, Zenon DEF Served
<1> QED
  BY <1>2, <1>6, <1>7, Zenon DEF BInv

\* The asset is inspected.
LEMMA InspectStep ==
  ASSUME BInv, Inspect
  PROVE  BInv'
<1>1. /\ pc = "inspecting"
      /\ UNCHANGED <<db, assets, synced, generated, failures, up, acked, mixed>>
  BY Zenon DEF Inspect, bounds
<1>2. Tables' /\ Acknowledged' /\ Backed'
  BY <1>1, Quiet, Zenon
<1>3. failures \in Nat /\ mode \in Modes /\ (failures = 0 => \A k \in up : Bound(db, Key, k))
  BY Zenon DEF BInv, Control, Served
<1>4. pc' = "publishing_document" /\ canvas' = canvas /\ pdf' = pdf /\ mode' = mode
  BY Zenon DEF Inspect, InHand
<1>5. Control' /\ Provided' /\ Accepted'
  BY <1>1, <1>3, <1>4 DEF Control, Provided, Accepted
<1>6. InHands'
  <2>1. \A c \in pdf : Handed(c)
    BY <1>1 DEF BInv, InHands
  <2>2. \A c \in pdf' : Handed(c)'
    BY <1>1, <1>4, <2>1, Zenon DEF Handed
  <2>3. mode.keepsCatalog => Range(db.documents) = {}
    BY <1>1 DEF BInv, InHands
  <2> QED
    BY <1>1, <1>4, <2>2, <2>3, Zenon DEF InHands
<1>7. Served'
  <2>1. mode.keepsCatalog => \A k \in canvas : Bound(db, Key, k)
    BY <1>1 DEF BInv, Served
  <2> QED
    BY <1>1, <1>3, <1>4, <2>1, Zenon DEF Served
<1> QED
  BY <1>2, <1>5, <1>6, <1>7, Zenon DEF BInv

\* A start that its PDF ends had found no document.
LEMMA PdfFailsStep ==
  ASSUME BInv, PdfFails
  PROVE  BInv'
<1>1. /\ pc \in {"ingesting", "inspecting"} /\ pc' = "pdf_refused" /\ canvas' = {}
      /\ UNCHANGED <<db, assets, synced, mode, generated, failures, up, acked, mixed>>
  BY Zenon DEF PdfFails, Gone, bounds
<1>2. Tables' /\ Acknowledged' /\ Backed'
  BY <1>1, Quiet, Zenon
<1>3. /\ failures \in Nat /\ mode \in Modes /\ (failures = 0 => \A k \in up : Bound(db, Key, k))
      /\ mode.keepsCatalog => Range(db.documents) = {}
  BY <1>1 DEF BInv, Control, Served, InHands
<1>4. Control' /\ InHands' /\ Provided' /\ Accepted'
  BY <1>1, <1>3 DEF Control, InHands, Provided, Accepted
<1>5. Served'
  BY <1>1, <1>3, Zenon DEF Served
<1> QED
  BY <1>2, <1>4, <1>5, Zenon DEF BInv

\* The composition has the identifiers of the Pdf it was made of.
LEMMA SessionIds ==
  ASSUME NEW g \in Pdfs, NEW s, NEW c, c = InSession(g, s)
  PROVE  /\ IsComposition(c) /\ Distinct(c) /\ c.document \in PdfIds /\ c.asset = g.asset
         /\ \A t : Fresh(t, g) => Fresh(t, c)
         /\ \A d \in Pdfs \ {g} : \A k \in CanvasesOf(c), l \in CanvasesOf(d) : Apart(k, l)
<1>1. /\ IsComposition(g) /\ Distinct(g) /\ g.document \in PdfIds
      /\ \A d \in Pdfs \ {g} : \A k \in CanvasesOf(d), l \in CanvasesOf(g) : Apart(l, k)
  BY Generated, Zenon
<1>2. /\ IsComposition(c) /\ Len(c.pages) = Len(g.pages)
      /\ c.document = g.document /\ c.asset = g.asset
      /\ \A i \in 1 .. Len(c.pages) :
           /\ c.pages[i].page = g.pages[i].page
           /\ c.pages[i].canvas.canvas = g.pages[i].canvas.canvas
           /\ c.pages[i].canvas.layers = g.pages[i].canvas.layers
  BY <1>1, SessionFacts
<1>3. \A k \in CanvasesOf(c) : \E l \in CanvasesOf(g) :
        k.canvas = l.canvas /\ k.layers = l.layers
  <2>1. DOMAIN c.pages = 1 .. Len(c.pages) /\ DOMAIN g.pages = 1 .. Len(g.pages)
    BY <1>1, <1>2 DEF IsComposition
  <2>2. ASSUME NEW k \in CanvasesOf(c)
        PROVE  \E l \in CanvasesOf(g) : k.canvas = l.canvas /\ k.layers = l.layers
    <3>1. PICK i \in 1 .. Len(c.pages) : k = c.pages[i].canvas
      BY <2>1, Zenon DEF CanvasesOf
    <3>2. g.pages[i].canvas \in CanvasesOf(g)
      <4>1. i \in DOMAIN g.pages
        BY <1>2, <2>1
      <4> QED
        BY <4>1, Zenon DEF CanvasesOf
    <3> QED
      BY <1>2, <3>1, <3>2, Zenon
  <2> QED
    BY <2>2, Zenon
<1>4. Distinct(c)
  <2>1. ASSUME NEW i \in 1 .. Len(c.pages), NEW j \in 1 .. Len(c.pages), i # j
        PROVE  /\ c.pages[i].page # c.pages[j].page
               /\ Apart(c.pages[i].canvas, c.pages[j].canvas)
    <3>1. /\ g.pages[i].page # g.pages[j].page
          /\ Apart(g.pages[i].canvas, g.pages[j].canvas)
      BY <1>1, <1>2, <2>1 DEF Distinct
    <3>2. /\ c.pages[i].page = g.pages[i].page /\ c.pages[j].page = g.pages[j].page
          /\ c.pages[i].canvas.canvas = g.pages[i].canvas.canvas
          /\ c.pages[j].canvas.canvas = g.pages[j].canvas.canvas
          /\ c.pages[i].canvas.layers = g.pages[i].canvas.layers
          /\ c.pages[j].canvas.layers = g.pages[j].canvas.layers
      BY <1>2, Zenon
    <3> QED
      BY <3>1, <3>2, Zenon DEF Apart
  <2> QED
    BY <2>1, Zenon DEF Distinct
<1>5. ASSUME NEW t, Fresh(t, g) PROVE Fresh(t, c)
  <2>1. ASSUME NEW k \in CanvasesOf(c)
        PROVE  /\ \A r \in t.canvases : r.canvas # k.canvas
               /\ \A l \in t.layers : l.layer \notin k.layers
    <3>1. PICK l \in CanvasesOf(g) : k.canvas = l.canvas /\ k.layers = l.layers
      BY <1>3, Zenon
    <3>2. /\ \A r \in t.canvases : r.canvas # l.canvas
          /\ \A r \in t.layers : r.layer \notin l.layers
      BY <1>5, Zenon DEF Fresh
    <3> QED
      BY <3>1, <3>2
  <2> QED
    BY <2>1, Zenon DEF Fresh
<1>6. ASSUME NEW d \in Pdfs \ {g}, NEW k \in CanvasesOf(c), NEW l \in CanvasesOf(d)
      PROVE  Apart(k, l)
  <2>1. PICK m \in CanvasesOf(g) : k.canvas = m.canvas /\ k.layers = m.layers
    BY <1>3, Zenon
  <2>2. Apart(m, l)
    BY <1>1, Zenon
  <2> QED
    BY <2>1, <2>2 DEF Apart
<1> QED
  BY <1>1, <1>2, <1>4, <1>5, <1>6, Zenon

\* Identifiers are generated, and the asset is there before the document.
LEMMA IngestStep ==
  ASSUME BInv, Ingest
  PROVE  BInv'
<1>1. /\ pc = "ingesting" /\ pc' = "inspecting"
      /\ UNCHANGED <<db, synced, mode, canvas, failures, up, acked, mixed>>
  BY Zenon DEF Ingest
<1>2. PICK g \in Pdfs \ generated, k \in canvas :
        /\ generated' = generated \cup {g}
        /\ pdf' = {InSession(g, k.session)}
        /\ IF mode.keepsAssets
           THEN assets' = assets \cup {g.asset} /\ UNCHANGED memory
           ELSE memory' = memory \cup {g.asset} /\ UNCHANGED assets
  BY Zenon DEF Ingest
<1>3. /\ failures \in Nat /\ mode \in Modes
      /\ failures = 0 => \A j \in up : Bound(db, Key, j)
      /\ mode.keepsCatalog => \A j \in canvas : Bound(db, Key, j)
      /\ mode.keepsCatalog => Range(db.documents) = {}
  BY <1>1 DEF BInv, Control, Served, InHands
<1>4. assets \subseteq assets' /\ (mode.keepsAssets => g.asset \in assets')
  BY <1>2, Zenon
<1>5. Tables' /\ Acknowledged' /\ Backed'
  <2>1. Tables'
    <3>1. generated' \subseteq Pdfs /\ \A d \in Pdfs \ generated' : d \in Pdfs \ generated
      BY <1>2, Zenon DEF BInv, Tables
    <3> QED
      BY <1>1, <3>1, Zenon DEF BInv, Tables
  <2>2. Acknowledged'
    BY <1>1, Zenon DEF BInv, Acknowledged
  <2>3. Backed'
    BY <1>1, <1>4, Zenon DEF BInv, Backed
  <2> QED
    BY <2>1, <2>2, <2>3, Zenon
<1>6. Control' /\ Provided' /\ Accepted'
  BY <1>1, <1>3 DEF Control, Provided, Accepted
<1>7. Served'
  BY <1>1, <1>3, Zenon DEF Served
<1>8. InHands'
  <2> DEFINE c == InSession(g, k.session)
  <2>1. /\ IsComposition(c) /\ Distinct(c) /\ c.document \in PdfIds /\ c.asset = g.asset
        /\ \A t : Fresh(t, g) => Fresh(t, c)
        /\ \A d \in Pdfs \ {g} : \A j \in CanvasesOf(c), l \in CanvasesOf(d) : Apart(j, l)
    BY SessionIds, Zenon
  <2> HIDE DEF c
  <2>2. Fresh(db, c)
    BY <2>1, Zenon DEF BInv, Tables
  <2>3. \A d \in Pdfs \ generated' : d \in Pdfs \ {g}
    BY <1>2, Zenon
  <2>4. Handed(c)'
    BY <1>1, <1>4, <2>1, <2>2, <2>3, Zenon DEF Handed
  <2>5. pdf' = {c}
    BY <1>2, Zenon DEF c
  <2> QED
    BY <1>1, <1>3, <2>4, <2>5, Zenon DEF InHands
<1> QED
  BY <1>5, <1>6, <1>7, <1>8, Zenon DEF BInv

\* A catalog without documents takes the PDF's, as its identifiers are fresh.
LEMMA PublishPdfStep ==
  ASSUME BInv, PublishPdf
  PROVE  BInv'
<1>1. /\ pc = "publishing_document"
      /\ UNCHANGED <<assets, synced, mode, generated, failures, up, acked>>
  BY Zenon DEF PublishPdf, bounds
<1>2. /\ failures \in Nat /\ mode \in Modes /\ Sound(db)
      /\ failures = 0 => \A j \in up : Bound(db, Key, j)
      /\ mode.keepsCatalog => \A j \in canvas : Bound(db, Key, j)
      /\ mode.keepsCatalog => Range(db.documents) = {}
      /\ \A c \in pdf : Handed(c)
  BY <1>1 DEF BInv, Control, Served, InHands, Tables
<1>3. CASE ~mode.keepsCatalog
  <2>1. pc' = "validating" /\ canvas' = canvas /\ db' = db /\ mixed' = mixed
    BY <1>3, Zenon DEF PublishPdf, InHand
  <2>2. Tables' /\ Acknowledged' /\ Backed'
    BY <1>1, <2>1, Quiet, Zenon
  <2>3. Control' /\ InHands' /\ Provided' /\ Accepted' /\ Served'
    BY <1>1, <1>2, <1>3, <2>1 DEF Control, InHands, Provided, Accepted, Served
  <2> QED
    BY <2>2, <2>3, Zenon DEF BInv
<1>4. CASE mode.keepsCatalog
  <2>1. PICK c \in pdf :
          LET a == PublishDocument(db, c)
          IN  /\ db' = a.db
              /\ IF Published(a) THEN pc' = "validating" /\ InHand ELSE Fail
              /\ mixed' = (mixed \/ (Published(a) /\ ~mode.keepsAssets))
    BY <1>4, Zenon DEF PublishPdf
  <2> DEFINE a == PublishDocument(db, c)
  <2>2. /\ IsComposition(c) /\ Distinct(c) /\ Fresh(db, c) /\ c.document \in PdfIds
        /\ mode.keepsAssets => c.asset \in assets
        /\ \A g \in Pdfs \ generated :
             \A k \in CanvasesOf(c), l \in CanvasesOf(g) : Apart(k, l)
    BY <1>2, Zenon DEF Handed
  <2>3. Published(a) /\ Range(db.documents) = {}
    BY <1>2, <1>4, <2>2, FreshPublication, Zenon
  <2>4. /\ Grown(db, a.db, CanvasesOf(c))
        /\ \/ a.db = db
           \/ Range(a.db.documents) = Range(db.documents) \cup {DocumentRow(c)}
    BY <1>2, <2>2, PublicationFacts
  <2> HIDE DEF a
  <2>5. /\ pc' = "validating" /\ canvas' = canvas /\ Grown(db, db', CanvasesOf(c))
        /\ mixed' = (mixed \/ ~mode.keepsAssets)
        /\ Range(db'.documents) = {} \/ Range(db'.documents) = {DocumentRow(c)}
    BY <2>1, <2>3, <2>4, Zenon DEF a, InHand
  <2>6. OnePdf(db')
    BY <2>5, Zenon DEF OnePdf
  <2>7. \A g \in Pdfs \ generated : \A k \in CanvasesOf(c) : \A l \in CanvasesOf(g) : Apart(l, k)
    BY <2>2, Zenon DEF Apart
  <2>8. /\ Tables'
        /\ \A k : Bound(db, Key, k) => Bound(db', Key, k)
        /\ failures = 0 => /\ \A j \in up : Bound(db', Key, j)
                           /\ \A d \in acked.documents : Loaded(db', d)
                           /\ \A j \in acked.canvases : LoadCanvas(db', j.canvas) = {j}
    BY <1>1, <2>5, <2>6, <2>7, Growth, Zenon
  <2>9. Acknowledged'
    BY <1>1, <2>8, Zenon DEF BInv, Acknowledged
  <2>10. Backed'
    <3>1. DocumentRow(c).asset = c.asset
      BY DEF DocumentRow
    <3>2. ASSUME failures' = 0 /\ ~mixed'
          PROVE \A r \in Range(db'.documents) : r.asset \in assets'
      BY <1>1, <2>2, <2>5, <3>1, <3>2, Zenon
    <3> QED
      BY <3>2, Zenon DEF Backed
  <2>11. Control' /\ InHands' /\ Provided' /\ Accepted'
    BY <1>1, <1>2, <2>5, Zenon DEF Control, InHands, Provided, Accepted
  <2>12. Served'
    BY <1>1, <1>2, <2>5, <2>8, Zenon DEF Served
  <2> QED
    BY <2>8, <2>9, <2>10, <2>11, <2>12, Zenon DEF BInv
<1> QED
  BY <1>3, <1>4, Zenon

\* Validation fails only where an asset is missing.
LEMMA ValidateStep ==
  ASSUME BInv, Scans, Validate
  PROVE  BInv'
<1> DEFINE whole == /\ \A d \in Documents : d.asset \in Assets
                    /\ mode.keepsCatalog =>
                         \A r \in Range(db.documents) : DocumentIntact(db, r)
<1>1. /\ pc = "validating"
      /\ UNCHANGED <<db, assets, synced, mode, generated, failures, acked, mixed>>
  BY Zenon DEF Validate, bounds
<1>2. Tables' /\ Acknowledged' /\ Backed'
  BY <1>1, Quiet, Zenon
<1>3. /\ failures \in Nat /\ mode \in Modes /\ Sound(db)
      /\ failures = 0 => \A j \in up : Bound(db, Key, j)
      /\ mode.keepsCatalog => \A j \in canvas : Bound(db, Key, j)
      /\ failures = 0 /\ ~mixed =>
           \A r \in Range(db.documents) : r.document \in PdfIds => r.asset \in assets
  BY <1>1 DEF BInv, Control, Served, Tables, Backed
<1>4. /\ \A d \in Range(ListAllDocuments(db)) : \E r \in Range(db.documents) :
           d.document = r.document /\ d.asset = r.asset
      /\ \A r \in Range(db.documents) : \E d \in Range(ListAllDocuments(db)) :
           d.document = r.document /\ d.asset = r.asset
  BY <1>3, Listed, Zenon
<1>5. CASE whole
  <2>1. /\ pc' = "up" /\ canvas' = canvas /\ memory' = memory
        /\ up' = IF mode.keepsCatalog THEN up \cup canvas ELSE up
    BY <1>5, Zenon DEF Validate, InHand
  <2>2. Assets' = Assets
    BY <1>1, <2>1, Zenon DEF Assets
  <2>3. mode.keepsCatalog => \A r \in Range(db.documents) : r.asset \in Assets
    BY <1>4, <1>5, Zenon DEF Documents
  <2>4. Provided'
    BY <1>1, <2>2, <2>3, Zenon DEF Provided
  <2>5. Control' /\ InHands' /\ Accepted'
    BY <1>1, <1>3, <2>1 DEF Control, InHands, Accepted
  <2>6. Served'
    <3>1. failures = 0 => \A j \in up' : Bound(db, Key, j)
      BY <1>3, <2>1, Zenon
    <3> QED
      BY <1>1, <1>3, <2>1, <3>1, Zenon DEF Served
  <2> QED
    BY <1>2, <2>4, <2>5, <2>6, Zenon DEF BInv
<1>6. CASE ~whole
  <2>1. Gone("refused") /\ up' = up
    BY <1>6, Zenon DEF Validate, Fail
  <2>2. Provided' /\ InHands' /\ Control'
    BY <1>1, <1>3, <2>1, Ended, Zenon
  <2>3. canvas' = {}
    BY <2>1, Zenon DEF Gone
  <2>4. failures = 0 /\ ~mixed /\ mode.keepsAssets => Unbacked # {}
    <3>1. \A r \in Range(db.documents) : DocumentIntact(db, r)
      BY <1>3, Zenon DEF Scans
    <3>2. PICK d \in Documents : d.asset \notin Assets
      BY <1>6, <3>1, Zenon
    <3>3. mode.keepsCatalog /\ d \in Range(ListAllDocuments(db))
      BY <3>2, Zenon DEF Documents
    <3>4. PICK r \in Range(db.documents) : d.document = r.document /\ d.asset = r.asset
      BY <1>4, <3>3, Zenon
    <3>5. failures = 0 /\ ~mixed /\ mode.keepsAssets => d.document \notin PdfIds
      BY <1>3, <3>2, <3>4, Zenon DEF Assets
    <3> QED
      BY <3>2, <3>3, <3>5, Zenon DEF Unbacked, Assets
  <2>5. Unbacked' = Unbacked
    BY <1>1, Zenon DEF Unbacked
  <2>6. Served' /\ Accepted'
    BY <1>1, <1>3, <2>1, <2>3, <2>4, <2>5, SMTT(15) DEF Served, Accepted
  <2> QED
    BY <1>2, <2>2, <2>6, Zenon DEF BInv
<1> QED
  BY <1>5, <1>6, Zenon

\* What every call of the embedder leaves alone.
LEMMA Called ==
  ASSUME BInv, Call, mode.keepsCatalog
  PROVE  /\ pc = "up" /\ failures \in Nat /\ mode \in Modes /\ Sound(db)
         /\ UNCHANGED <<synced, pc, mode, memory, canvas, pdf, generated, failures, up, mixed>>
         /\ \A j \in canvas : Bound(db, Key, j)
         /\ \A r \in Range(db.documents) : r.document \in PdfIds => r.asset \in Assets
<1>1. /\ pc = "up"
      /\ UNCHANGED <<synced, pc, mode, memory, canvas, pdf, generated, failures, up, mixed>>
  BY Zenon DEF Call, local
<1>2. failures \in Nat /\ mode \in Modes /\ Sound(db)
  BY Zenon DEF BInv, Control, Tables
<1> QED
  BY <1>1, <1>2 DEF BInv, Served, Provided

\* What a call leaves of the invariant but for documents and acknowledgements.
LEMMA CallKeeps ==
  ASSUME BInv, Call, mode.keepsCatalog, NEW ks, Grown(db, db', ks), OnePdf(db'),
         \A g \in Pdfs \ generated : \A k \in ks : \A l \in CanvasesOf(g) : Apart(l, k)
  PROVE  /\ Control' /\ Tables' /\ InHands' /\ Served' /\ Accepted'
         /\ failures = 0 => /\ \A c \in acked.documents : Loaded(db', c)
                            /\ \A k \in acked.canvases : LoadCanvas(db', k.canvas) = {k}
<1>1. /\ pc = "up" /\ failures \in Nat /\ mode \in Modes
      /\ UNCHANGED <<synced, pc, mode, memory, canvas, pdf, generated, failures, up, mixed>>
      /\ \A j \in canvas : Bound(db, Key, j)
  BY Called, Zenon
<1>2. /\ Tables'
      /\ \A k : Bound(db, Key, k) => Bound(db', Key, k)
      /\ failures = 0 => /\ \A k \in up : Bound(db', Key, k)
                         /\ \A c \in acked.documents : Loaded(db', c)
                         /\ \A k \in acked.canvases : LoadCanvas(db', k.canvas) = {k}
  BY <1>1, Growth, Zenon
<1>3. Control' /\ InHands' /\ Accepted'
  BY <1>1 DEF Control, InHands, Accepted
<1>4. Served'
  BY <1>1, <1>2, Zenon DEF Served
<1> QED
  BY <1>2, <1>3, <1>4, Zenon

\* ingest, called by the embedder: there is one asset more.
LEMMA CallIngestStep ==
  ASSUME BInv, NEW a, CallIngest(a)
  PROVE  BInv'
<1>1. /\ pc = "up" /\ assets \subseteq assets'
      /\ UNCHANGED <<db, synced, pc, mode, memory, canvas, pdf, generated, failures, up,
                     acked, mixed>>
  BY Zenon DEF CallIngest, Call, local
<1>2. Tables' /\ Acknowledged' /\ Control' /\ Served'
  BY <1>1, Zenon DEF BInv, Tables, Acknowledged, Control, Served
<1>3. Backed' /\ Provided'
  BY <1>1, Zenon DEF BInv, Backed, Provided, Assets
<1>4. InHands' /\ Accepted'
  BY <1>1 DEF InHands, Accepted
<1> QED
  BY <1>2, <1>3, <1>4, Zenon DEF BInv

\* publish_document, called by the embedder.
LEMMA CallPublishDocumentStep ==
  ASSUME BInv, Loads, NEW c \in Compositions, CallPublishDocument(c)
  PROVE  BInv'
<1> DEFINE a == PublishDocument(db, c)
<1>1. Call /\ mode.keepsCatalog
  BY Zenon DEF CallPublishDocument
<1>2. /\ db' = a.db /\ assets' = assets
      /\ acked' = IF Published(a) THEN [acked EXCEPT !.documents = @ \cup {c}] ELSE acked
  BY Zenon DEF CallPublishDocument
<1>3. /\ pc = "up" /\ Sound(db) /\ memory' = memory
      /\ mode' = mode /\ failures' = failures /\ mixed' = mixed
      /\ \A r \in Range(db.documents) : r.document \in PdfIds => r.asset \in Assets
  BY <1>1, Called, Zenon
<1>4. IsComposition(c) /\ \A g \in Pdfs : c.document # g.document
  BY InputsAssumption, GeneratedAssumption, Zenon
<1>5. /\ Grown(db, a.db, CanvasesOf(c))
      /\ \/ a.db = db /\ (Published(a) => Loaded(db, c))
         \/ /\ Published(a) /\ Laid(a.db, c)
            /\ Range(a.db.documents) = Range(db.documents) \cup {DocumentRow(c)}
  <2>1. Sound(db) /\ IsComposition(c)
    BY <1>3, <1>4, Zenon
  <2> QED
    BY <2>1, PublicationFacts, Zenon
<1> HIDE DEF a
<1>6. /\ Grown(db, db', CanvasesOf(c))
      /\ \A r \in Range(db'.documents) : r \in Range(db.documents) \/ r = DocumentRow(c)
  BY <1>2, <1>5, Zenon
<1>7. Published(a) => Loaded(db', c)
  <2>1. CASE a.db = db /\ (Published(a) => Loaded(db, c))
    BY <1>2, <2>1, Zenon
  <2>2. CASE /\ Laid(a.db, c)
             /\ Range(a.db.documents) = Range(db.documents) \cup {DocumentRow(c)}
    <3>1. Sound(a.db) /\ DocumentRow(c) \in Range(a.db.documents)
      BY <1>5, <2>2, Zenon DEF Grown
    <3> QED
      BY <1>2, <1>4, <2>2, <3>1, Zenon DEF Loads
  <2> QED
    BY <1>5, <2>1, <2>2, Zenon
<1>8. DocumentRow(c).document = c.document /\ DocumentRow(c).asset = c.asset
  BY SMTT(15) DEF DocumentRow
<1>9. OnePdf(db')
  <2>1. DocumentRow(c).document \notin PdfIds
    BY <1>4, <1>8, Zenon DEF PdfIds
  <2>2. OnePdf(db)
    BY Zenon DEF BInv, Tables
  <2> QED
    BY <1>6, <2>1, <2>2 DEF OnePdf
<1>10. \A g \in Pdfs \ generated : \A k \in CanvasesOf(c) : \A l \in CanvasesOf(g) : Apart(l, k)
  BY Generated, Zenon
<1>11. /\ Control' /\ Tables' /\ InHands' /\ Served' /\ Accepted'
       /\ failures = 0 => /\ \A d \in acked.documents : Loaded(db', d)
                          /\ \A k \in acked.canvases : LoadCanvas(db', k.canvas) = {k}
  BY <1>1, <1>6, <1>9, <1>10, CallKeeps, Zenon
<1>12. Provided' /\ Backed'
  <2>1. \A r \in Range(db'.documents) : r.document \in PdfIds => r \in Range(db.documents)
    BY <1>4, <1>6, <1>8, Zenon DEF PdfIds
  <2>2. Assets' = Assets
    BY <1>2, <1>3, Zenon DEF Assets
  <2>3. Provided'
    BY <1>3, <2>1, <2>2, Zenon DEF Provided
  <2>4. Backed'
    BY <1>2, <1>3, <2>1, Zenon DEF BInv, Backed
  <2> QED
    BY <2>3, <2>4, Zenon
<1>13. Acknowledged'
  <2>1. acked = [documents |-> acked.documents, canvases |-> acked.canvases]
    BY Zenon DEF BInv, Acknowledged
  <2>2. /\ acked' = [documents |-> acked'.documents, canvases |-> acked'.canvases]
        /\ acked'.canvases = acked.canvases
        /\ \A d \in acked'.documents : d \in acked.documents \/ (d = c /\ Published(a))
    BY <1>2, <2>1
  <2> QED
    BY <1>3, <1>7, <1>11, <2>2, Zenon DEF Acknowledged
<1> QED
  BY <1>11, <1>12, <1>13, Zenon DEF BInv

\* publish_standalone, called by the embedder.
LEMMA CallPublishStandaloneStep ==
  ASSUME BInv, NEW k \in Canvases, CallPublishStandalone(k)
  PROVE  BInv'
<1> DEFINE a == PublishStandalone(db, k)
<1>1. Call /\ mode.keepsCatalog /\ assets' = assets
  BY Zenon DEF CallPublishStandalone
<1>2. /\ db' = a.db
      /\ acked' = IF Published(a) THEN [acked EXCEPT !.canvases = @ \cup {k}] ELSE acked
  BY Zenon DEF CallPublishStandalone
<1>3. /\ pc = "up" /\ pc' = pc /\ Sound(db) /\ memory' = memory
      /\ mode' = mode /\ failures' = failures /\ mixed' = mixed
  BY <1>1, Called, Zenon
<1>4. IsCanvas(k)
  BY InputsAssumption, Zenon
<1>5. /\ Grown(db, a.db, {k}) /\ a.db.documents = db.documents
      /\ Published(a) => LoadCanvas(a.db, k.canvas) = {k}
  BY <1>3, <1>4, StandaloneFacts, Zenon
<1> HIDE DEF a
<1>6. Grown(db, db', {k}) /\ db'.documents = db.documents
  BY <1>2, <1>5, Zenon
<1>7. OnePdf(db')
  BY <1>6, Zenon DEF BInv, Tables, OnePdf
<1>8. \A g \in Pdfs \ generated : \A j \in {k} : \A l \in CanvasesOf(g) : Apart(l, j)
  BY Generated, Zenon
<1>9. /\ Control' /\ Tables' /\ InHands' /\ Served' /\ Accepted'
      /\ failures = 0 => /\ \A d \in acked.documents : Loaded(db', d)
                         /\ \A j \in acked.canvases : LoadCanvas(db', j.canvas) = {j}
  BY <1>1, <1>6, <1>7, <1>8, CallKeeps, Zenon
<1>10. Provided' /\ Backed'
  BY <1>1, <1>3, <1>6, Zenon DEF BInv, Provided, Backed, Assets
<1>11. Acknowledged'
  <2>1. acked = [documents |-> acked.documents, canvases |-> acked.canvases]
    BY Zenon DEF BInv, Acknowledged
  <2>2. /\ acked' = [documents |-> acked'.documents, canvases |-> acked'.canvases]
        /\ acked'.documents = acked.documents
        /\ \A j \in acked'.canvases : j \in acked.canvases \/ (j = k /\ Published(a))
    BY <1>2, <2>1
  <2> QED
    BY <1>2, <1>3, <1>5, <1>9, <2>2, Zenon DEF Acknowledged
<1> QED
  BY <1>9, <1>10, <1>11, Zenon DEF BInv

\* put_bootstrap_binding, called by the embedder.
LEMMA CallPutBindingStep ==
  ASSUME BInv, NEW b \in Bindings, CallPutBinding(b)
  PROVE  BInv'
<1>1. /\ Call /\ mode.keepsCatalog
      /\ db' = PutBinding(db, b).db /\ assets' = assets /\ acked' = acked
  BY Zenon DEF CallPutBinding
<1>2. /\ Sound(db) /\ memory' = memory /\ pc' = pc
      /\ mode' = mode /\ failures' = failures /\ mixed' = mixed
  BY <1>1, Called, Zenon
<1>3. Grown(db, db', {}) /\ db'.documents = db.documents
  BY <1>1, <1>2, BindingFacts, Zenon
<1>4. OnePdf(db')
  BY <1>3, Zenon DEF BInv, Tables, OnePdf
<1>5. /\ Control' /\ Tables' /\ InHands' /\ Served' /\ Accepted'
      /\ failures = 0 => /\ \A d \in acked.documents : Loaded(db', d)
                         /\ \A j \in acked.canvases : LoadCanvas(db', j.canvas) = {j}
  BY <1>1, <1>3, <1>4, CallKeeps, Zenon
<1>6. Provided' /\ Backed'
  BY <1>1, <1>2, <1>3, Zenon DEF BInv, Provided, Backed, Assets
<1>7. Acknowledged'
  BY <1>1, <1>2, <1>5, Zenon DEF BInv, Acknowledged
<1> QED
  BY <1>5, <1>6, <1>7, Zenon DEF BInv

\* The process ends.
LEMMA ExitStep ==
  ASSUME BInv, Exit
  PROVE  BInv'
<1>1. /\ Stop
      /\ UNCHANGED <<db, assets, synced, generated, failures, up, acked, mixed>>
  BY Zenon DEF Exit, bounds
<1>2. Tables' /\ Acknowledged' /\ Backed'
  BY <1>1, Quiet, Zenon
<1>3. failures \in Nat /\ (failures = 0 => \A k \in up : Bound(db, Key, k))
  BY Zenon DEF BInv, Control, Served
<1>4. Gone("down") /\ mode' \in Modes
  BY <1>1 DEF Stop, DefaultMode, Modes
<1>5. Provided' /\ InHands' /\ Control' /\ Accepted'
  BY <1>1, <1>3, <1>4, Ended, Zenon
<1>6. Served'
  BY <1>1, <1>3, <1>4, Zenon DEF Gone, Served
<1> QED
  BY <1>2, <1>5, <1>6, Zenon DEF BInv

\* A checkpoint changes only what a power failure goes back to.
LEMMA SyncStep ==
  ASSUME BInv, SyncCatalog \/ SyncAssets
  PROVE  BInv'
<1>1. UNCHANGED <<db, assets, pc, mode, memory, canvas, pdf, generated, failures,
                  up, acked, mixed>>
  BY Zenon DEF SyncCatalog, SyncAssets, local, bounds
<1>2. /\ synced' = [db |-> synced'.db, assets |-> synced'.assets]
      /\ synced'.db = db \/ synced'.db = synced.db
  <2>1. synced = [db |-> synced.db, assets |-> synced.assets]
    BY Zenon DEF BInv, Tables
  <2> QED
    BY <2>1 DEF SyncCatalog, SyncAssets
<1>3. Tables'
  BY <1>1, <1>2, Zenon DEF BInv, Tables
<1>4. Control' /\ Served'
  BY <1>1, Zenon DEF BInv, Control, Served
<1>5. InHands'
  BY <1>1, Zenon DEF BInv, InHands, Handed
<1>6. Acknowledged' /\ Provided' /\ Backed' /\ Accepted'
  BY <1>1, Zenon DEF BInv, Acknowledged, Provided, Backed, Accepted, Unbacked, Assets
<1> QED
  BY <1>3, <1>4, <1>5, <1>6, Zenon DEF BInv

\* A power failure goes back to sound tables.
LEMMA LosePowerStep ==
  ASSUME BInv, LosePower
  PROVE  BInv'
<1>1. /\ failures' = failures + 1 /\ db' = synced.db /\ Stop
      /\ UNCHANGED <<synced, generated, up, acked, mixed>>
  BY Zenon DEF LosePower
<1>2. failures \in Nat
  BY Zenon DEF BInv, Control
<1>3. failures' \in Nat /\ failures' # 0
  BY <1>1, <1>2
<1>4. Gone("down") /\ mode' \in Modes
  BY <1>1 DEF Stop, DefaultMode, Modes
<1>5. Provided' /\ InHands' /\ Control' /\ Accepted'
  BY <1>3, <1>4, Ended, Zenon
<1>6. Served' /\ Backed'
  BY <1>3, <1>4 DEF Gone, Served, Backed
<1>7. Tables'
  BY <1>1, Zenon DEF BInv, Tables
<1>8. Acknowledged'
  BY <1>1, <1>3, Zenon DEF BInv, Acknowledged
<1> QED
  BY <1>5, <1>6, <1>7, <1>8, Zenon DEF BInv

\* The invariant is inductive.
LEMMA Step ==
  ASSUME Scans, Loads, BInv, [Next]_vars
  PROVE  BInv'
<1>1. CASE Open \/ FindBinding \/ PublishCanvas \/ List
  BY <1>1, OpenStep, FindBindingStep, PublishCanvasStep, ListStep, Zenon
<1>2. CASE Ingest \/ Inspect \/ PdfFails \/ PublishPdf \/ Validate
  BY <1>2, IngestStep, InspectStep, PdfFailsStep, PublishPdfStep, ValidateStep, Zenon
<1>3. CASE \/ \E c \in Compositions : CallIngest(c.asset)
           \/ \E c \in Compositions : CallPublishDocument(c)
           \/ \E k \in Canvases : CallPublishStandalone(k)
           \/ \E b \in Bindings : CallPutBinding(b)
  BY <1>3, CallIngestStep, CallPublishDocumentStep, CallPublishStandaloneStep,
     CallPutBindingStep, Zenon
<1>4. CASE Exit \/ SyncCatalog \/ SyncAssets \/ LosePower
  BY <1>4, ExitStep, SyncStep, LosePowerStep, Zenon
<1>5. CASE UNCHANGED vars
  <2>1. UNCHANGED <<db, assets, synced, pc, mode, memory, canvas, pdf, generated,
                    failures, up, acked, mixed>>
    BY <1>5, Zenon DEF vars, local, bounds
  <2>2. Tables' /\ Acknowledged' /\ Backed'
    BY <2>1, Quiet, Zenon
  <2>3. Control' /\ Served' /\ InHands'
    BY <2>1, Zenon DEF BInv, Control, Served, InHands, Handed
  <2>4. Provided' /\ Accepted'
    BY <2>1, Zenon DEF BInv, Provided, Accepted, Unbacked, Assets
  <2> QED
    BY <2>2, <2>3, <2>4, Zenon DEF BInv
<1> QED
  BY <1>1, <1>2, <1>3, <1>4, <1>5, Zenon DEF Next

-----------------------------------------------------------------------------
(* Pages in order.                                                         *)

FST == INSTANCE FiniteSetTheorems

\* The instance counts as FiniteSets does.
LEMMA SameSize ==
  ASSUME NEW S
  PROVE  FST!Cardinality(S) = Cardinality(S)
  BY Zenon DEF FST!Cardinality, Cardinality

\* Rows with the indices 1 to n, each once.
Numbered(S, n) ==
  /\ \A r \in S : r.index \in 1 .. n
  /\ \A r, q \in S : r.index = q.index => r = q
  /\ \A i \in 1 .. n : \E r \in S : r.index = i

\* Rows numbered 1 to n are n.
LEMMA Counted ==
  ASSUME NEW S, NEW n \in Nat, Numbered(S, n)
  PROVE  Cardinality(S) = n
<1> DEFINE f == [i \in 1 .. n |-> CHOOSE r \in S : r.index = i]
<1>1. \A i \in 1 .. n : f[i] \in S /\ f[i].index = i
  BY Zenon DEF Numbered
<1>2. f \in [1 .. n -> S]
  <2>1. \A i \in 1 .. n : (CHOOSE r \in S : r.index = i) \in S
    BY Zenon DEF Numbered
  <2> QED
    BY <2>1, Zenon
<1> HIDE DEF f
<1>3. DOMAIN f = 1 .. n
  BY <1>2, Zenon
<1>4. f \in FST!Injection(1 .. n, S)
  <2>1. \A i, j \in DOMAIN f : f[i] = f[j] => i = j
    BY <1>1, <1>3
  <2> QED
    BY <1>2, <2>1, Zenon DEF FST!Injection, FST!IsInjective
<1>5. f \in FST!Surjection(1 .. n, S)
  <2>1. \A r \in S : r.index \in 1 .. n /\ f[r.index] = r
    BY <1>1, Zenon DEF Numbered
  <2> QED
    BY <1>2, <2>1, Zenon DEF FST!Surjection
<1>6. FST!ExistsBijection(1 .. n, S)
  BY <1>4, <1>5, Zenon DEF FST!ExistsBijection, FST!Bijection
<1>7. FST!Cardinality(S) = n
  BY <1>6, FST!FS_CountingElements, Zenon
<1> QED
  BY <1>7, SameSize, Zenon

\* A row has as many before it as its index says.
LEMMA Rank ==
  ASSUME NEW S, NEW n \in Nat, Numbered(S, n), NEW r \in S
  PROVE  Cardinality({q \in S : q.index < r.index}) = r.index - 1
<1> DEFINE T == {q \in S : q.index < r.index}
<1>1. r.index \in 1 .. n
  BY Zenon DEF Numbered
<1>2. r.index - 1 \in Nat
  BY <1>1
<1>3. Numbered(T, r.index - 1)
  <2>1. \A q \in S : q.index \in 1 .. n
    BY Zenon DEF Numbered
  <2>2. \A q \in T : q.index \in 1 .. r.index - 1
    BY <1>1, <2>1
  <2>3. \A q, u \in T : q.index = u.index => q = u
    BY Zenon DEF Numbered
  <2>4. ASSUME NEW i \in 1 .. r.index - 1 PROVE \E q \in T : q.index = i
    <3>1. i \in 1 .. n /\ i < r.index
      BY <1>1
    <3>2. PICK q \in S : q.index = i
      BY <3>1, Zenon DEF Numbered
    <3>3. q.index < r.index
      BY <3>1, <3>2
    <3> QED
      BY <3>2, <3>3, Zenon
  <2> HIDE DEF T
  <2> QED
    BY <2>2, <2>3, <2>4, Zenon DEF Numbered
<1> HIDE DEF T
<1>4. Cardinality(T) = r.index - 1
  BY <1>2, <1>3, Counted, Zenon
<1> QED
  BY <1>4, Zenon DEF T

\* ORDER BY page_index puts the row with index i in the i-th place.
LEMMA OrderedPages ==
  ASSUME NEW S, NEW n \in Nat, Numbered(S, n)
  PROVE  /\ InOrder(S) = [i \in 1 .. n |-> InOrder(S)[i]] /\ Len(InOrder(S)) = n
         /\ \A r \in S : r.index \in 1 .. n /\ InOrder(S)[r.index] =
                           [page |-> r.page, size |-> r.size, canvas |-> r.canvas]
<1> DEFINE Nth(i) == CHOOSE r \in S :
                       Cardinality({q \in S : q.index < r.index}) = i - 1
           Page(r) == [page |-> r.page, size |-> r.size, canvas |-> r.canvas]
<1>1. Cardinality(S) = n
  BY Counted, Zenon
<1>2. InOrder(S) = [i \in 1 .. n |-> Page(Nth(i))]
  BY <1>1, Zenon DEF InOrder
<1>3. ASSUME NEW r \in S PROVE r.index \in 1 .. n /\ Nth(r.index) = r
  <2>1. \A q \in S : q.index \in 1 .. n
    BY Zenon DEF Numbered
  <2>2. \A q \in S : Cardinality({u \in S : u.index < q.index}) = q.index - 1
    BY Rank, Zenon
  <2>3. Nth(r.index) \in S
        /\ Cardinality({u \in S : u.index < Nth(r.index).index}) = r.index - 1
    BY <2>2, Zenon
  <2> HIDE DEF Nth
  <2>4. Nth(r.index).index - 1 = r.index - 1
    BY <2>2, <2>3, Zenon
  <2>5. Nth(r.index).index = r.index
    BY <2>1, <2>3, <2>4
  <2> QED
    BY <2>1, <2>3, <2>5, Zenon DEF Numbered
<1> HIDE DEF Nth, Page
<1>4. /\ DOMAIN InOrder(S) = 1 .. n
      /\ InOrder(S) = [i \in 1 .. n |-> InOrder(S)[i]]
      /\ \A i \in 1 .. n : InOrder(S)[i] = Page(Nth(i))
  BY <1>2
<1>5. Len(InOrder(S)) = n
  BY <1>4
<1>6. \A r \in S : InOrder(S)[r.index] = Page(r)
  BY <1>3, <1>4
<1> QED
  BY <1>3, <1>4, <1>5, <1>6, Zenon DEF Page

\* The pages of a document of sound tables.
LEMMA SoundPages ==
  ASSUME NEW t, Sound(t), NEW r \in Range(t.documents)
  PROVE  /\ DocumentIntact(t, r)
         /\ \A i \in DOMAIN LoadPages(t, r.document) :
              \E q \in PagesOf(t, r.document) :
                LoadPages(t, r.document)[i] =
                  [page |-> q.page, size |-> q.size, canvas |-> q.canvas]
<1> DEFINE P == PagesOf(t, r.document)
<1>1. /\ r.count \in Nat \ {0}
      /\ \A q \in P : q.index \in 1 .. r.count
      /\ \A i \in 1 .. r.count : \E q \in P : q.index = i
  BY Zenon DEF Sound, DocumentsOK, DocumentOK
<1>2. \A q, u \in P : q.index = u.index => q = u
  <2>1. \A q, u \in t.pages : q.document = u.document /\ q.index = u.index => q = u
    BY ConstraintsFacts DEF Sound
  <2>2. \A q \in P : q \in t.pages /\ q.document = r.document
    BY Zenon DEF PagesOf
  <2> HIDE DEF P
  <2> QED
    BY <2>1, <2>2, Zenon
<1> HIDE DEF P
<1>3. Numbered(P, r.count)
  BY <1>1, <1>2, Zenon DEF Numbered
<1>4. r.count \in Nat /\ r.count > 0
  BY <1>1
<1>5. /\ InOrder(P) = [i \in 1 .. r.count |-> InOrder(P)[i]] /\ Len(InOrder(P)) = r.count
      /\ \A q \in P : InOrder(P)[q.index] =
                        [page |-> q.page, size |-> q.size, canvas |-> q.canvas]
  BY <1>3, <1>4, OrderedPages, Zenon
<1>6. LoadPages(t, r.document) = InOrder(P)
  BY Zenon DEF LoadPages, P
<1>7. DOMAIN InOrder(P) = 1 .. r.count
  BY <1>5
<1>8. DocumentIntact(t, r)
  BY <1>4, <1>5, <1>6, Zenon DEF DocumentIntact
<1>9. \A i \in 1 .. r.count : \E q \in P :
        InOrder(P)[i] = [page |-> q.page, size |-> q.size, canvas |-> q.canvas]
  <2>1. ASSUME NEW i \in 1 .. r.count
        PROVE  \E q \in P : InOrder(P)[i] =
                 [page |-> q.page, size |-> q.size, canvas |-> q.canvas]
    <3>1. PICK q \in P : q.index = i
      BY <1>1, Zenon
    <3>2. InOrder(P)[i] = [page |-> q.page, size |-> q.size, canvas |-> q.canvas]
      BY <1>5, <3>1, Zenon
    <3> QED
      BY <3>2, Zenon
  <2> QED
    BY <2>1, Zenon
<1> QED
  BY <1>6, <1>7, <1>8, <1>9, Zenon DEF P

\* Sound tables pass the scan of an opening.
LEMMA SoundScan ==
  ASSUME NEW t, Sound(t), ~Misbound(t)
  PROVE  ScanIntegrity(t)
<1>1. ASSUME NEW r \in Range(t.documents), NEW i \in DOMAIN LoadPages(t, r.document)
      PROVE  \E k \in LoadCanvas(t, LoadPages(t, r.document)[i].canvas) :
               k.session = r.session /\ k.size = LoadPages(t, r.document)[i].size
  <2> DEFINE p == LoadPages(t, r.document)[i]
  <2>1. PICK q \in PagesOf(t, r.document) :
          p = [page |-> q.page, size |-> q.size, canvas |-> q.canvas]
    BY SoundPages, SMTT(15)
  <2>2. p.canvas = q.canvas /\ p.size = q.size
    <3> HIDE DEF p
    <3> QED
      BY <2>1
  <2>3. PICK k \in t.canvases :
          k.canvas = q.canvas /\ k.session = r.session /\ k.size = q.size
    BY Zenon DEF Sound, DocumentsOK, DocumentOK
  <2> DEFINE d == [canvas |-> k.canvas, session |-> k.session, size |-> k.size,
                   layers |-> LayersOf(t, p.canvas), default |-> k.default]
  <2>4. d \in LoadCanvas(t, p.canvas)
    BY <2>2, <2>3, ZenonT(30) DEF LoadCanvas
  <2>5. d.session = r.session /\ d.size = p.size
    BY <2>2, <2>3
  <2> HIDE DEF p, d
  <2> QED
    BY <2>4, <2>5, Zenon DEF p
<1>2. \A r \in Range(t.documents) : DocumentIntact(t, r)
  BY SoundPages, Zenon
<1>3. \A r \in t.canvases : CanvasIntact(t, r)
  BY Zenon DEF Sound, CanvasesOK
<1>4. \A l \in t.layers : LoadCanvas(t, l.canvas) # {}
  BY Known, Zenon DEF Sound, CanvasesOK
<1> QED
  BY <1>1, <1>2, <1>3, <1>4, Zenon DEF ScanIntegrity, Sound, Constraints

\* A composition whose rows are all there is loaded as it was given.
LEMMA LaidLoads ==
  ASSUME NEW t, NEW c, Sound(t), IsComposition(c), Laid(t, c),
         DocumentRow(c) \in Range(t.documents)
  PROVE  Loaded(t, c)
<1> DEFINE n == Len(c.pages)
           P == PagesOf(t, c.document)
           Page(i) == [page |-> c.pages[i].page, size |-> c.pages[i].canvas.size,
                       canvas |-> c.pages[i].canvas.canvas]
<1>1. n \in Nat /\ DOMAIN c.pages = 1 .. n
  BY DEF IsComposition
<1>2. P = {PageRow(c, i) : i \in 1 .. n}
  BY Zenon DEF Laid
<1>3. \A i \in 1 .. n :
        /\ PageRow(c, i).index = i
        /\ [page |-> PageRow(c, i).page, size |-> PageRow(c, i).size,
            canvas |-> PageRow(c, i).canvas] = Page(i)
  BY DEF PageRow
<1> HIDE DEF P, Page, n
<1>4. Numbered(P, n)
  BY <1>2, <1>3 DEF Numbered
<1>5. /\ InOrder(P) = [i \in 1 .. n |-> InOrder(P)[i]]
      /\ \A q \in P : InOrder(P)[q.index] =
                        [page |-> q.page, size |-> q.size, canvas |-> q.canvas]
  BY <1>1, <1>4, OrderedPages, Zenon
<1>6. \A i \in 1 .. n : InOrder(P)[i] = Page(i)
  <2>1. ASSUME NEW i \in 1 .. n PROVE InOrder(P)[i] = Page(i)
    <3>1. PageRow(c, i) \in P
      BY <1>2, Zenon
    <3> QED
      BY <1>3, <1>5, <3>1, Zenon
  <2> QED
    BY <2>1, Zenon
<1>7. InOrder(P) = [i \in 1 .. n |-> Page(i)]
  BY <1>5, <1>6
<1>8. DescriptorOf(c) = [document |-> c.document, session |-> c.session,
                         asset |-> c.asset, pages |-> InOrder(P)]
  BY <1>1, <1>7, Zenon DEF DescriptorOf, Page
<1>9. /\ DocumentRow(c).document = c.document /\ DocumentRow(c).session = c.session
      /\ DocumentRow(c).asset = c.asset
  BY DEF DocumentRow
<1>10. {q \in Range(t.documents) : q.document = c.document} = {DocumentRow(c)}
  <2>1. \A q \in Range(t.documents) : q.document = c.document => q = DocumentRow(c)
    BY <1>9, Zenon DEF Sound, DocumentsOK
  <2> QED
    BY <1>9, <2>1, Zenon
<1>11. LoadDocument(t, c.document) =
         {[document |-> c.document, session |-> DocumentRow(c).session,
           asset |-> DocumentRow(c).asset, pages |-> LoadPages(t, c.document)]}
  BY <1>10, Zenon DEF LoadDocument
<1>12. LoadPages(t, c.document) = InOrder(P)
  BY Zenon DEF LoadPages, P
<1>13. LoadDocument(t, c.document) = {DescriptorOf(c)}
  BY <1>8, <1>9, <1>11, <1>12, Zenon
<1> QED
  BY <1>13, Zenon DEF Laid, Loaded

\* The invariant holds in every state.
LEMMA Invariant ==
  Spec => []BInv
<1>1. Scans /\ Loads
  BY SoundPages, SoundScan, LaidLoads, Zenon DEF Scans, Loads
<1>2. BInv /\ [Next]_vars => BInv'
  BY <1>1, Step, Zenon
<1> QED
  BY <1>2, Start, PTL DEF Spec

-----------------------------------------------------------------------------
(* The theorems.                                                           *)

\* A set whose elements are all the same has at most one.
LEMMA AtMostOne ==
  ASSUME NEW S, \A x, y \in S : x = y
  PROVE  Cardinality(S) <= 1
<1>1. CASE S = {}
  <2>1. FST!Cardinality(S) = 0
    BY <1>1, FST!FS_EmptySet, Zenon
  <2>2. Cardinality(S) = 0
    BY <2>1, SameSize, Zenon
  <2> QED
    BY <2>2
<1>2. CASE S # {}
  <2>1. PICK x \in S : \A y \in S : y = x
    BY <1>2, Zenon
  <2>2. S = {x} /\ FST!Cardinality({x}) = 1
    BY <2>1, FST!FS_Singleton
  <2>3. Cardinality(S) = 1
    BY <2>2, SameSize, Zenon
  <2> QED
    BY <2>3
<1> QED
  BY <1>1, <1>2, Zenon

\* Whatever the embedder called and whichever power failed, scan_integrity
\* accepts the tables, misbindings apart.
THEOREM CatalogOpens ==
  Spec => []ScanPasses
<1>1. BInv => ScanPasses
  BY SoundScan, Zenon DEF BInv, Tables, ScanPasses
<1> QED
  BY <1>1, Invariant, PTL

\* Every publication that publish_document or publish_standalone acknowledged
\* loads as it was given, until a power failure.
THEOREM PublicationsLast ==
  Spec => []AckedLoads
<1>1. BInv => AckedLoads
  BY Zenon DEF BInv, Acknowledged, AckedLoads, Loaded
<1> QED
  BY <1>1, Invariant, PTL

\* Starts after the first that came up serve its canvas, and neither the stores
\* nor, once there is a document, the configured PDF refuses them.
THEOREM StartsAgain ==
  Spec => []BootsAgain
<1>1. ASSUME BInv PROVE BootsAgain
  <2>1. ASSUME failures = 0 PROVE Cardinality(up) <= 1
    <3>1. \A k, l \in up : k = l
      BY <1>1, <2>1, OneBound, Zenon DEF BInv, Served, Tables
    <3> QED
      BY <3>1, AtMostOne, Zenon
  <2>2. failures = 0 /\ up # {} /\ ~Misbound(db) /\ ~mixed /\ Unbacked = {}
          /\ mode.keepsAssets => pc # "refused"
    BY <1>1, Zenon DEF BInv, Accepted
  <2>3. ASSUME pc = "pdf_refused" PROVE Documents = {}
    <3>1. mode.keepsCatalog => Range(db.documents) = {}
      BY <1>1, <2>3 DEF BInv, InHands
    <3>2. Sound(db)
      BY <1>1, Zenon DEF BInv, Tables
    <3>3. mode.keepsCatalog => Range(ListAllDocuments(db)) = {}
      BY <3>1, <3>2, Listed, Zenon
    <3> QED
      BY <3>3, Zenon DEF Documents
  <2> QED
    BY <2>1, <2>2, <2>3, Zenon DEF BootsAgain
<1> QED
  BY <1>1, Invariant, PTL

\* However often bootstrap_development_pdf is killed and repeated, one document
\* of the development PDF is in the catalog at most.
THEOREM OnePdfPublished ==
  Spec => []OneDevelopmentDocument
<1>1. ASSUME BInv PROVE OneDevelopmentDocument
  <2> DEFINE S == PdfIds \cap {d.document : d \in Range(ListAllDocuments(db))}
  <2>1. Sound(db) /\ OnePdf(db)
    BY <1>1, Zenon DEF BInv, Tables
  <2>2. ASSUME NEW x \in S PROVE x \in PdfIds /\ \E r \in Range(db.documents) : x = r.document
    <3>1. PICK d \in Range(ListAllDocuments(db)) : x = d.document
      BY <2>2, Zenon
    <3>2. \E r \in Range(db.documents) : d.document = r.document
      BY <2>1, Listed, Zenon
    <3> QED
      BY <2>2, <3>1, <3>2, Zenon DEF PdfIds
  <2> HIDE DEF S
  <2>3. \A x, y \in S : x = y
    BY <2>1, <2>2 DEF OnePdf
  <2>4. Cardinality(S) <= 1
    BY <2>3, AtMostOne, Zenon
  <2> QED
    BY <2>4, Zenon DEF OneDevelopmentDocument, S
<1> QED
  BY <1>1, Invariant, PTL

\* No server is up with the document of the development PDF and without its
\* asset, and no kill between the two publications leaves that document behind.
THEOREM AssetsFirst ==
  Spec => []DocumentsHaveAssets
<1>1. ASSUME BInv PROVE DocumentsHaveAssets
  <2>1. \A d \in Range(ListAllDocuments(db)) : \E r \in Range(db.documents) :
          d.document = r.document /\ d.asset = r.asset
    <3>1. Sound(db)
      BY <1>1, Zenon DEF BInv, Tables
    <3> QED
      BY <3>1, Listed, Zenon
  <2>2. pc = "up" => \A d \in Documents : d.document \in PdfIds => d.asset \in Assets
    BY <1>1, <2>1 DEF BInv, Provided, Documents
  <2>3. failures = 0 /\ ~mixed =>
          \A d \in Range(ListAllDocuments(db)) : d.document \in PdfIds => d.asset \in assets
    BY <1>1, <2>1, Zenon DEF BInv, Backed
  <2> QED
    BY <2>2, <2>3, Zenon DEF DocumentsHaveAssets
<1> QED
  BY <1>1, Invariant, PTL
=============================================================================
