----------------------------- MODULE MCArticles -----------------------------
(* Instances of module Articles for TLC. *)
EXTENDS Articles, TLC

CONSTANTS r1, r2, a1, a2, a3, p1, p2, nothing

\* A topic to be written now; the other's article to be taken off; and a plan: that
\* article written again, and the topic added or taken as it is, first in line.
MCChange ==
  a1 :> {<<"topic", r2>>, <<"ask", r2>>} @@ a2 :> {<<"unpublish", r1>>}
  @@ a3 :> {<<"rewrite", r1>>, <<"topic", r2>>}
MCOrders == {a3}
MCSymmetry == Permutations(Deciders)
=============================================================================
