----------------------------- MODULE MCCatalog -----------------------------
(***************************************************************************)
(* A small instance of Catalog: a workshop in the one category, a second   *)
(* workshop and a second category that may be created.                     *)
(***************************************************************************)
EXTENDS Catalog, TLC

CONSTANTS c1, c2, l1, w1, w2, v1, v2, u1, n1, n2, i1, i2, k1, k2, r1, r2, r3, s1

\* Two titles with the same slug.
OneSlug == [n \in Names |-> s1]

OneCategory ==
  [g \in Groups |-> [name |-> IF g \in {c1, l1} THEN n1 ELSE None,
                     deleted |-> FALSE]]

OneWorkshop ==
  [w \in Workshops |->
     IF w = w1
     THEN [title |-> n1, suffix |-> 0, category |-> c1, level |-> l1,
           images |-> {i1}, deleted |-> FALSE]
     ELSE [title |-> None, suffix |-> 0, category |-> None, level |-> None,
           images |-> {}, deleted |-> FALSE]]

\* Two whole workshops, one of them with an image besides i1, a move
\* with an empty list of images, and the removal of all images.
Bodies ==
  LET Whole(n) == [Empty EXCEPT !.title = n, !.category = c1, !.level = l1]
  IN {Whole(n1), [Whole(n2) EXCEPT !.lists = TRUE, !.add = {i2}],
      [Empty EXCEPT !.category = c2, !.lists = TRUE],
      [Empty EXCEPT !.lists = TRUE, !.drop = Images]}

Slots == Permutations(Requests)
=============================================================================
