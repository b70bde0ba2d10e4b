--------------------------- MODULE ArticleRowProofs ---------------------------
(* Facts about the operators of ArticleRow, used by the proofs about           *)
(* ArticleForm, ArticleWorkflow and Editorial.                                 *)
EXTENDS ArticleRow, TLAPS

\* Every operation makes a row of a row.
LEMMA RowTypes ==
  ASSUME NEW x \in Rows
  PROVE  /\ Created(x) \in Rows /\ Removed(x) \in Rows
         /\ \A body \in PatchBodies : Updated(x, body) \in Rows
         /\ Submitted(x) \in Rows /\ Rejected(x) \in Rows /\ Unpublished(x) \in Rows
         /\ \A d \in Nat : Published(x, d) \in Rows
         /\ \A p \in BOOLEAN : Pinned(x, p) \in Rows /\ [x EXCEPT !.featured = p] \in Rows
<1>1. Created(x) \in Rows /\ Submitted(x) \in Rows
  BY DEF Rows, Statuses, Created, Submitted
<1>2. Rejected(x) \in Rows /\ Unpublished(x) \in Rows
  BY DEF Rows, Statuses, Rejected, Unpublished
<1>3. ASSUME NEW body \in PatchBodies PROVE Updated(x, body) \in Rows
  <2>1. body.row \in Rows /\ x.edits + 1 \in Nat
    BY DEF PatchBodies, Rows
  <2> QED
    BY <2>1 DEF Updated, Rows
<1>4. Removed(x) \in Rows
  BY DEF Rows, NoRow, Removed
<1>5. \A d \in Nat : Published(x, d) \in Rows
  BY DEF Rows, Statuses, Published
<1>6. \A p \in BOOLEAN : Pinned(x, p) \in Rows /\ [x EXCEPT !.featured = p] \in Rows
  BY DEF Rows, Pinned
<1> QED
  BY <1>1, <1>2, <1>3, <1>4, <1>5, <1>6

\* What a PATCH leaves: a text of the studio's editor leaves every column of the
\* workflow, and no body takes the row out of the table.
LEMMA PatchKeeps ==
  ASSUME NEW x \in Rows, NEW body \in PatchBodies
  PROVE  /\ x.status \in Statuses => Updated(x, body).status \in Statuses
         /\ body.columns = {} =>
              /\ Updated(x, body).status = x.status
              /\ Updated(x, body).submitted = x.submitted
              /\ Updated(x, body).published_at = x.published_at
              /\ Updated(x, body).note = x.note
              /\ Updated(x, body).featured = x.featured
BY DEF Updated, PatchBodies

\* No operation is accepted on a row that is not there.
LEMMA RequiredAreStatuses ==
  ASSUME NEW op \in Operations, NEW by \in Actors PROVE Required(op, by) \subseteq Statuses
BY DEF Required, Operations, Actors, Statuses
===============================================================================
