------------------------------ MODULE ArticleRow ------------------------------
(***************************************************************************)
(* One row of the articles table, who may ask what of it, and what each    *)
(* operation of StudioService writes.  No state: ArticleWorkflow applies   *)
(* these to the row as it is, Editorial to the row as it has become.       *)
(***************************************************************************)
EXTENDS Naturals

Statuses == {"DRAFT", "IN_REVIEW", "PUBLISHED", "ARCHIVED"}

\* NEW: not created yet.  DELETED: created and deleted.  submitted, note and
\* pinned: submitted_at, review_note and pin_order are not null.  published_at: 0
\* is null.  edits numbers the versions of the text.
Rows == [status : Statuses \cup {"NEW", "DELETED"}, submitted : BOOLEAN,
         published_at : Nat, note : BOOLEAN, featured : BOOLEAN, pinned : BOOLEAN,
         edits : Nat]

NoRow == [status |-> "NEW", submitted |-> FALSE, published_at |-> 0, note |-> FALSE,
          featured |-> FALSE, pinned |-> FALSE, edits |-> 0]

\* author: the writer whose article it is.  editor: an editor or admin, of any
\* article.  Every other request is refused by the role guard or by findOwned.
Actors == {"author", "editor"}

\* A PATCH carries a Partial<CreateArticleDto>, which at run time is no class: the
\* ValidationPipe lets any column of the table through.  columns: those of the
\* workflow that the body names.  row: what it says of them; the schema's enum is
\* all that confines them.
Columns == {"status", "submitted", "published_at", "note", "featured", "pinned"}

PatchBodies == {body \in [columns : SUBSET Columns, row : Rows] :
                    "status" \in body.columns => body.row.status \in Statuses}

\* The body that the studio's editor sends: text, and no column of the workflow.
Text == [columns |-> {}, row |-> NoRow]

Operations == {"update", "remove", "submit", "publish", "reject", "unpublish",
               "feature", "pin"}

\* Mutant: assertStatus of reject() also lists PUBLISHED.
RequiredLoose(op, by) ==
    CASE op \in {"update", "remove"} -> IF by = "editor" THEN Statuses ELSE {"DRAFT"}
      [] op = "submit"               -> {"DRAFT"}
      [] op = "publish"              -> IF by = "editor"
                                        THEN {"DRAFT", "IN_REVIEW", "ARCHIVED"} ELSE {}
      [] op = "reject"               -> IF by = "editor" THEN {"IN_REVIEW", "PUBLISHED"} ELSE {}
      [] op \in {"unpublish", "feature"} -> IF by = "editor" THEN {"PUBLISHED"} ELSE {}
      [] op = "pin"                  -> IF by = "editor" THEN Statuses ELSE {}

\* The statuses in which an operation is accepted.
Required(op, by) ==
    CASE op \in {"update", "remove"} -> IF by = "editor" THEN Statuses ELSE {"DRAFT"}
      [] op = "submit"               -> {"DRAFT"}
      [] op = "publish"              -> IF by = "editor"
                                        THEN {"DRAFT", "IN_REVIEW", "ARCHIVED"} ELSE {}
      [] op = "reject"               -> IF by = "editor" THEN {"IN_REVIEW"} ELSE {}
      [] op \in {"unpublish", "feature"} -> IF by = "editor" THEN {"PUBLISHED"} ELSE {}
      [] op = "pin"                  -> IF by = "editor" THEN Statuses ELSE {}

Created(x)   == [x EXCEPT !.status = "DRAFT"]
Removed(x)   == [NoRow EXCEPT !.status = "DELETED"]

\* data: dto.  A new version of the text, and the columns that the body names.
Updated(x, body) ==
    LET from(column) == IF column \in body.columns THEN body.row ELSE x
    IN  [status |-> from("status").status, submitted |-> from("submitted").submitted,
         published_at |-> from("published_at").published_at, note |-> from("note").note,
         featured |-> from("featured").featured, pinned |-> from("pinned").pinned,
         edits |-> x.edits + 1]

\* Mutants: reject() with a status that the schema does not have; submit() that
\* forgets submitted_at; unpublish() that forgets the hero.
RejectedAsSuch(x) == [x EXCEPT !.status = "REJECTED", !.note = TRUE]
SubmittedUndated(x) == [x EXCEPT !.status = "IN_REVIEW", !.note = FALSE]
UnpublishedHero(x) == [x EXCEPT !.status = "ARCHIVED", !.pinned = FALSE]

Submitted(x) == [x EXCEPT !.status = "IN_REVIEW", !.submitted = TRUE, !.note = FALSE]
Published(x, date) ==
                [x EXCEPT !.status = "PUBLISHED", !.published_at = date, !.note = FALSE]
Rejected(x)  == [x EXCEPT !.status = "DRAFT", !.note = TRUE]
Unpublished(x) ==
                [x EXCEPT !.status = "ARCHIVED", !.featured = FALSE, !.pinned = FALSE]
Pinned(x, p) == [x EXCEPT !.pinned = p]

\* Mutant: every publication is dated anew.
DateNow(published_at, now) == now

\* article.published_at ?? new Date()
DateOr(published_at, now) == IF published_at = 0 THEN now ELSE published_at
===============================================================================
