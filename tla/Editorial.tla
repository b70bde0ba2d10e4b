------------------------------- MODULE Editorial -------------------------------
(***************************************************************************)
(* The article operations of StudioService as the backend runs them.       *)
(*                                                                         *)
(* Every operation first reads the row (findOwned or findOrThrow), decides *)
(* on its status, and then, after an await, writes by id alone.  A handler *)
(* is one request between those two calls; many are in flight, and a write *)
(* meets whatever the row has become.                                      *)
(*                                                                         *)
(* feature() writes in a transaction of two statements, which Postgres     *)
(* runs READ COMMITTED: the updateMany finds the rows that are featured,   *)
(* waits for those another transaction has changed, passes over what is no *)
(* longer featured and locks the rest; both statements show at the commit. *)
(***************************************************************************)
EXTENDS ArticleRow, FiniteSets

CONSTANTS
    Articles,       \* article ids (cuid: never reused)
    Handlers,       \* requests that may be in flight together
    Bodies,         \* what a PATCH may carry
    MaxEdits,       \* bound: versions saved by PATCHes, of all articles
    MaxPublishes,   \* bound: publications
    MaxRemoved      \* bound: articles deleted

ASSUME BodiesAssumption == Bodies \subseteq PatchBodies

VARIABLES
    article,        \* the articles table, by id
    handler,        \* the requests in flight
    clock,          \* new Date(), as the number of publications so far
    overlapped,     \* history: articles with two requests in flight so far
    patched         \* history: articles whose workflow columns a PATCH named

vars == <<article, handler, clock, overlapped, patched>>

\* checked: accepted, its write pending.  looked: the updateMany of feature() has
\* found its rows.  cleared: it has changed and locked them.  published_at: as
\* read.  clears: those rows.
Requests == [pc : {"checked", "looked", "cleared"}, op : Operations, id : Articles, by : Actors,
             published_at : Nat, clears : SUBSET Articles]
Idle == [pc |-> "idle"]

TypeOK ==
    /\ article \in [Articles -> Rows]
    /\ handler \in [Handlers -> Requests \cup {Idle}]
    /\ clock \in Nat
    /\ overlapped \subseteq Articles
    /\ patched \subseteq Articles

Init ==
    /\ article = [a \in Articles |-> NoRow]
    /\ handler = [h \in Handlers |-> Idle]
    /\ clock = 0
    /\ overlapped = {}
    /\ patched = {}

\* The requests in flight for an article.
On(a) == {h \in Handlers : handler[h] # Idle /\ handler[h].id = a}

\* The versions that updates have saved.
Saved == {v \in Articles \X (1..MaxEdits) : v[2] <= article[v[1]].edits}

Create(a) ==
    /\ article[a].status = "NEW"
    /\ article' = [article EXCEPT ![a] = Created(@)]
    /\ UNCHANGED <<handler, clock, overlapped, patched>>

\* The read and the decision of any operation; a refused request changes nothing.
Check(h, op, a, by) ==
    /\ handler[h] = Idle
    /\ article[a].status \in Required(op, by)
    /\ op = "update" => Cardinality(Saved) < MaxEdits
    /\ handler' = [handler EXCEPT ![h] =
            [pc |-> "checked", op |-> op, id |-> a, by |-> by,
             published_at |-> IF op = "publish" THEN article[a].published_at ELSE 0,
             clears |-> {}]]
    /\ overlapped' = IF On(a) = {} THEN overlapped ELSE overlapped \cup {a}
    /\ UNCHANGED <<article, clock, patched>>

\* The request ends without a write: the database failed, the process died, or
\* the row is gone (an update or delete by id of no row throws).
Fail(h) ==
    /\ handler[h] # Idle
    /\ handler' = [handler EXCEPT ![h] = Idle]
    /\ UNCHANGED <<article, clock, overlapped, patched>>

\* The rows that the open transactions of other requests have changed.
Locked(h) ==
    UNION {handler[g].clears : g \in {f \in Handlers \ {h} : handler[f].pc = "cleared"}}

\* The handler's write pending for operation op finds its row.
Writes(h, op) ==
    /\ handler[h] # Idle /\ handler[h].op = op
    /\ article[handler[h].id].status \in Statuses
    /\ handler[h].id \notin Locked(h)
    /\ handler' = [handler EXCEPT ![h] = Idle]
    /\ UNCHANGED overlapped

Write(h, row) == article' = [article EXCEPT ![handler[h].id] = row]

Row(h) == article[handler[h].id]

Update(h) ==
    /\ Writes(h, "update") /\ Cardinality(Saved) < MaxEdits
    /\ \E body \in Bodies :
        /\ Write(h, Updated(Row(h), body))
        /\ patched' = IF body.columns = {} THEN patched ELSE patched \cup {handler[h].id}
    /\ UNCHANGED clock

Remove(h) ==
    /\ Writes(h, "remove")
    /\ Cardinality({a \in Articles : article[a].status = "DELETED"}) < MaxRemoved
    /\ Write(h, Removed(Row(h))) /\ UNCHANGED <<clock, patched>>

Submit(h) ==
    /\ Writes(h, "submit")
    /\ Write(h, Submitted(Row(h))) /\ UNCHANGED <<clock, patched>>

\* The date is decided from what was read, not from what is there.
Publish(h) ==
    /\ Writes(h, "publish") /\ clock < MaxPublishes
    /\ clock' = clock + 1
    /\ Write(h, Published(Row(h), DateOr(handler[h].published_at, clock')))
    /\ UNCHANGED patched

Reject(h) ==
    /\ Writes(h, "reject")
    /\ Write(h, Rejected(Row(h))) /\ UNCHANGED <<clock, patched>>

\* Mutant: unpublish() writes the status only.
UnpublishStatus(h) ==
    /\ Writes(h, "unpublish")
    /\ Write(h, [Row(h) EXCEPT !.status = "ARCHIVED"]) /\ UNCHANGED <<clock, patched>>

Unpublish(h) ==
    /\ Writes(h, "unpublish")
    /\ Write(h, Unpublished(Row(h))) /\ UNCHANGED <<clock, patched>>

\* First statement of the transaction: the rows that match.
FeatureLook(h) ==
    /\ handler[h] # Idle /\ handler[h].op = "feature" /\ handler[h].pc = "checked"
    /\ handler' = [handler EXCEPT ![h].pc = "looked",
                        ![h].clears = {a \in Articles : article[a].featured}]
    /\ UNCHANGED <<article, clock, overlapped, patched>>

\* Those that still match, once they are free.
FeatureClear(h) ==
    /\ handler[h] # Idle /\ handler[h].pc = "looked"
    /\ handler[h].clears \cap Locked(h) = {}
    /\ handler' = [handler EXCEPT ![h].pc = "cleared",
                        ![h].clears = {a \in handler[h].clears : article[a].featured}]
    /\ UNCHANGED <<article, clock, overlapped, patched>>

\* Second statement and commit.
FeatureCommit(h) ==
    /\ Writes(h, "feature") /\ handler[h].pc = "cleared"
    /\ article' = [a \in Articles |->
            IF a = handler[h].id THEN [article[a] EXCEPT !.featured = TRUE]
            ELSE IF a \in handler[h].clears THEN [article[a] EXCEPT !.featured = FALSE]
            ELSE article[a]]
    /\ UNCHANGED <<clock, patched>>

Pin(h) ==
    /\ Writes(h, "pin")
    /\ \E p \in BOOLEAN : Write(h, Pinned(Row(h), p))
    /\ UNCHANGED <<clock, patched>>

Handle(h) ==
    \/ \E op \in Operations, a \in Articles, by \in Actors : Check(h, op, a, by)
    \/ Update(h) \/ Remove(h) \/ Submit(h) \/ Publish(h) \/ Reject(h) \/ Unpublish(h)
    \/ FeatureLook(h) \/ FeatureClear(h) \/ FeatureCommit(h) \/ Pin(h)
    \/ Fail(h)

Next ==
    \/ \E a \in Articles : Create(a)
    \/ \E h \in Handlers : Handle(h)

Spec == Init /\ [][Next]_vars
-------------------------------------------------------------------------------
(* Properties *)

W == INSTANCE ArticleWorkflow

\* Whatever overlaps, a row that is or was live has a date, one in review was
\* submitted, one with a note was submitted, and a hero was published, as long as
\* no PATCH has named these columns.
RowsMakeSense ==
    \A a \in W!Untouched :
        /\ article[a].status \in {"PUBLISHED", "ARCHIVED"} => article[a].published_at > 0
        /\ article[a].status = "IN_REVIEW" => article[a].submitted
        /\ article[a].note => article[a].submitted
        /\ article[a].featured => article[a].published_at > 0

\* One request at a time is the workflow.
ImplementsWorkflow == W!Spec

\* The articles whose requests came one after the other, and whose workflow
\* columns no PATCH has named.
Apart == W!Untouched \ overlapped

\* Such an article moves along the workflow only, whatever happens to others and
\* however many requests there are for them.
LegalMoves ==
    [][\A a \in Apart' :
            \/ article'[a].status \in {article[a].status, "DELETED"}
            \/ <<article[a].status, article'[a].status>> \in W!Moves]_vars

\* It keeps the date of its first publication.
DatesKept ==
    [][\A a \in Apart' : article[a].published_at > 0 /\ article'[a].status # "DELETED"
            => article'[a].published_at = article[a].published_at]_vars

\* And it is live when it is the hero.  An article taken down while it is being
\* featured may be a hero that is not: it has overlapped.
FeaturedIsPublished ==
    \A a \in Apart : article[a].featured => article[a].status = "PUBLISHED"

-------------------------------------------------------------------------------
(* What the code says of itself and does not keep; see the findings.        *)

\* "Make this article the homepage hero (exactly one at a time)"
\* (studio.service.ts:174).
AtMostOneFeatured == W!AtMostOneFeatured
===============================================================================
