----------------------------- MODULE MCEditorial -----------------------------
(* Editorial with small sets; articles and handlers are only compared.        *)
EXTENDS Editorial, TLC

Symmetry == Permutations(Articles) \cup Permutations(Handlers)

\* Text alone; and a body that makes of any article a live hero without a date.
TextOnly == {Text}
TextAndColumns == {Text, [columns |-> {"status", "featured"},
                          row |-> [NoRow EXCEPT !.status = "PUBLISHED", !.featured = TRUE]]}
=============================================================================
