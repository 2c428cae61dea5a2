----------------------------- MODULE MCBootstrap -----------------------------
(* Model checking of Bootstrap and Catalog.  The calls meet every kind of   *)
(* collision: of canvases, layers, pages, documents and bindings.           *)
EXTENDS Bootstrap

Canvas(k, s, size, layers, default) ==
  [canvas |-> k, session |-> s, size |-> size, layers |-> layers,
   default |-> default]
Document(d, s, a, pages) ==
  [document |-> d, session |-> s, asset |-> a, pages |-> pages]
Page(p, k) == [page |-> p, canvas |-> k]

TwoConfigured == {Canvas("k1", "s1", 1, {"l1"}, "l1"),
                  Canvas("k2", "s2", 1, {"l2"}, "l2")}

TwoPdfs == {Document("d8", "s1", "a8", <<Page("p8", Canvas("k8", "s1", 2, {"l8"}, "l8"))>>),
            Document("d9", "s1", "a9", <<Page("p9", Canvas("k9", "s1", 2, {"l9"}, "l9"))>>)}

\* A document of two pages; the same document with other pages; one that has
\* the identifier of a page of it; one whose canvas is the development canvas.
FourCompositions ==
  LET k3 == Canvas("k3", "s1", 1, {"l3", "m3"}, "m3")
      k4 == Canvas("k4", "s1", 2, {"l4"}, "l4")
  IN  {Document("d1", "s1", "a1", <<Page("p1", k3), Page("p2", k4)>>),
       Document("d1", "s1", "a1", <<Page("p2", k4), Page("p1", k3)>>),
       Document("d2", "s1", "a1", <<Page("p1", Canvas("k5", "s1", 1, {"l5"}, "l5"))>>),
       Document("d3", "s1", "a1", <<Page("p3", Canvas("k1", "s1", 1, {"l1"}, "l1"))>>)}

\* A canvas of the document above, the same with other layers, and one with a
\* layer of the development canvas.
ThreeCanvases == {Canvas("k4", "s1", 2, {"l4"}, "l4"),
                  Canvas("k4", "s1", 2, {"l6"}, "l6"),
                  Canvas("k6", "s1", 1, {"l1"}, "l1")}

\* The binding of the development canvas to another session, another one, and
\* one of a canvas that may not exist.
ThreeBindings == {[key |-> "default", session |-> "s2", canvas |-> "k1"],
                  [key |-> "other", session |-> "s2", canvas |-> "k1"],
                  [key |-> "other", session |-> "s1", canvas |-> "k4"]}

\* Bound: starts in another mode after at most one call or failure.
Persistent == mode = [development |-> TRUE, keepsAssets |-> TRUE, keepsCatalog |-> TRUE]
FewModes == pc = "down" \/ Persistent \/ calls + failures <= 1
=============================================================================
