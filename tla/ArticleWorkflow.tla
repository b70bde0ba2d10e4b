---------------------------- MODULE ArticleWorkflow ----------------------------
(***************************************************************************)
(* The editorial workflow as the studio means it: every operation meets    *)
(* the row it was asked for and happens at once.                           *)
(*                                                                         *)
(*   DRAFT -> IN_REVIEW -> PUBLISHED -> ARCHIVED -> PUBLISHED,              *)
(*   DRAFT -> PUBLISHED, and IN_REVIEW -> DRAFT with a note.                *)
(*                                                                         *)
(* An update has no limits of its own: its body may name the columns that  *)
(* the other operations guard.  What the workflow promises is therefore    *)
(* promised of the articles that no such body was sent for.                *)
(*                                                                         *)
(* Editorial.tla has the operations as the code runs them; it implements   *)
(* this module while requests do not overlap.                              *)
(***************************************************************************)
EXTENDS ArticleRow

CONSTANTS
    Articles,           \* article ids
    Bodies              \* what a PATCH may carry

BodiesAssumption == Bodies \subseteq PatchBodies

VARIABLES
    article,            \* the articles table, by id
    clock,              \* new Date(), as the number of publications so far
    patched             \* history: articles whose workflow columns a PATCH named

wvars == <<article, clock, patched>>

TypeOK ==
    /\ article \in [Articles -> Rows]
    /\ clock \in Nat
    /\ patched \subseteq Articles

Init ==
    /\ article = [a \in Articles |-> NoRow]
    /\ clock = 0
    /\ patched = {}

Write(a, row) == article' = [article EXCEPT ![a] = row]

May(op, a) == \E by \in Actors : article[a].status \in Required(op, by)

Create(a) ==
    /\ article[a].status = "NEW"
    /\ Write(a, Created(article[a])) /\ UNCHANGED <<clock, patched>>

Update(a) ==
    /\ May("update", a)
    /\ \E body \in Bodies :
        /\ Write(a, Updated(article[a], body))
        /\ patched' = IF body.columns = {} THEN patched ELSE patched \cup {a}
    /\ UNCHANGED clock

Remove(a) ==
    /\ May("remove", a)
    /\ Write(a, Removed(article[a])) /\ UNCHANGED <<clock, patched>>

Submit(a) ==
    /\ May("submit", a)
    /\ Write(a, Submitted(article[a])) /\ UNCHANGED <<clock, patched>>

Publish(a) ==
    /\ May("publish", a)
    /\ clock' = clock + 1
    /\ Write(a, Published(article[a], DateOr(article[a].published_at, clock')))
    /\ UNCHANGED patched

Reject(a) ==
    /\ May("reject", a)
    /\ Write(a, Rejected(article[a])) /\ UNCHANGED <<clock, patched>>

Unpublish(a) ==
    /\ May("unpublish", a)
    /\ Write(a, Unpublished(article[a])) /\ UNCHANGED <<clock, patched>>

Feature(a) ==
    /\ May("feature", a)
    /\ article' = [b \in Articles |-> [article[b] EXCEPT !.featured = (b = a)]]
    /\ UNCHANGED <<clock, patched>>

Pin(a) ==
    /\ May("pin", a)
    /\ \E p \in BOOLEAN : Write(a, Pinned(article[a], p))
    /\ UNCHANGED <<clock, patched>>

Next ==
    \E a \in Articles :
        \/ Create(a) \/ Update(a) \/ Remove(a) \/ Submit(a) \/ Publish(a)
        \/ Reject(a) \/ Unpublish(a) \/ Feature(a) \/ Pin(a)

Spec == Init /\ [][Next]_wvars
-------------------------------------------------------------------------------
(* Properties *)

\* The articles whose status, dates, note and flags only the workflow has written.
Untouched == Articles \ patched

\* feature(): "exactly one at a time" (studio.service.ts:174).
AtMostOneFeatured ==
    \A a, b \in Untouched : article[a].featured /\ article[b].featured => a = b

\* The hero is live: feature() sets the flag on a PUBLISHED article only, and
\* whatever takes an article down clears it.
FeaturedIsPublished ==
    \A a \in Untouched : article[a].featured => article[a].status = "PUBLISHED"

\* The columns agree with the status: what is or was live has a date (the site
\* sorts by it), what is in review was submitted, and a review note is on a draft
\* that was sent back.
RowsCoherent ==
    \A a \in Untouched :
        /\ article[a].status \in {"PUBLISHED", "ARCHIVED"} => article[a].published_at > 0
        /\ article[a].status = "IN_REVIEW" => article[a].submitted
        /\ article[a].note => article[a].status = "DRAFT" /\ article[a].submitted

\* An article keeps the date of its first publication, however often it is taken
\* down and published again (publish(): article.published_at ?? new Date()).
DatesKept ==
    [][\A a \in Untouched' : article[a].published_at > 0 /\ article'[a].status # "DELETED"
            => article'[a].published_at = article[a].published_at]_wvars

\* The status moves along the workflow only.
Moves == {<<"NEW", "DRAFT">>, <<"DRAFT", "IN_REVIEW">>, <<"DRAFT", "PUBLISHED">>,
          <<"IN_REVIEW", "PUBLISHED">>, <<"IN_REVIEW", "DRAFT">>,
          <<"PUBLISHED", "ARCHIVED">>, <<"ARCHIVED", "PUBLISHED">>}

LegalMoves ==
    [][\A a \in Untouched' :
            \/ article'[a].status \in {article[a].status, "DELETED"}
            \/ <<article[a].status, article'[a].status>> \in Moves]_wvars
===============================================================================
