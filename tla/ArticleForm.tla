------------------------------ MODULE ArticleForm ------------------------------
(***************************************************************************)
(* The article page of the studio: ArticleForm over the copy of the        *)
(* article that the page last fetched, the requests its buttons send, and  *)
(* the cover that may be uploaded and purged on the way.  The server's     *)
(* side is ArticleRow, one request at a time; colleagues use it too.       *)
(***************************************************************************)
EXTENDS ArticleRow

CONSTANTS
    MaxArticles,    \* bound: articles
    MaxUploads,     \* bound: covers uploaded
    Budgets         \* bound: pages opened, texts typed here or elsewhere, covers uploaded,
                    \* clicks that send a request, operations of colleagues and answers
                    \* lost, in one behaviour

Bounds == [visits : Nat, texts : Nat, uploads : 0..MaxUploads, clicks : Nat, elsewhere : Nat,
           lost : Nat]

ASSUME ArticleFormAssumption ==
    MaxArticles \in Nat /\ MaxUploads \in Nat /\ Budgets \subseteq Bounds

Ids == 1..MaxArticles
Assets == 1..MaxUploads

\* Values of cover_url: none, a pasted address, or an uploaded image.
NoCover == 0
Pasted == MaxUploads + 1
Covers == {NoCover, Pasted} \cup Assets

VARIABLES
    me,             \* who uses the page
    row,            \* the articles table; edits names the text
    cover,          \* cover_url of each article
    page,           \* the page: what it shows, what was typed, what it does next
    copy,           \* the article as the tab last fetched it, by article
    sent,           \* requests of this page and of those before it
    stored,         \* images at Cloudinary
    texts,          \* versions of a text so far
    mine,           \* history: images that the form on the page uploaded
    purged,         \* history: <<image, whether the form that purged it uploaded it>>
    refused,        \* history: <<request, status shown, status met>> of what was refused
    kept,           \* history: the cover that each article had before it was last saved
    released,       \* history: <<text at the click, text sent out, whether pages crossed>> by
                    \* submit and publish
    crossed,        \* history: articles saved while a request of an earlier page was on its way
    elsewhere,      \* history: articles changed since the page's last save, by anybody else or
                    \* by an earlier page
    budget          \* what is left of the bound

server == <<row, cover, stored, texts>>
history == <<purged, refused, released, crossed, kept>>
vars == <<me, page, copy, sent, server, mine, history, elsewhere, budget>>

\* shown: the status of the page's copy, NEW without one.  upload: uploadedCover.
\* saved: nothing was typed since the last save.  next: where router.replace goes.
Pages == [mode : {"none", "loading", "new", "edit"}, visit : Nat, id : Ids \cup {0},
          shown : Statuses \cup {"NEW", "DELETED"}, featured : BOOLEAN, text : Nat,
          cover : Covers, upload : Assets \cup {0}, saved : BOOLEAN, next : Ids \cup {0},
          modal : {"none", "delete", "reject", "cover"}, met : Statuses \cup {"NEW", "DELETED"}]

Copies == [shown : Statuses \cup {"NEW"}, featured : BOOLEAN, text : Nat, cover : Covers]

\* then: the request that follows a save.  seen: the status that was shown for it.
Requests == [op : Operations \cup {"create", "upload", "purge"}, id : Ids \cup {0},
             then : {"none", "submit", "publish"}, text : Nat, cover : Covers,
             seen : Statuses \cup {"NEW", "DELETED"}, visit : Nat]

TypeOK ==
    /\ me \in Actors
    /\ row \in [Ids -> Rows] /\ cover \in [Ids -> Covers] /\ kept \in [Ids -> Covers]
    /\ page \in Pages /\ sent \subseteq Requests
    /\ copy \in [Ids -> Copies]
    /\ stored \subseteq Assets /\ texts \in Nat /\ budget \in Bounds

Closed == [mode |-> "none", visit |-> 0, id |-> 0, shown |-> "NEW", featured |-> FALSE,
           text |-> 0, cover |-> NoCover, upload |-> 0, saved |-> FALSE, next |-> 0,
           modal |-> "none", met |-> "NEW"]

NoCopy == [shown |-> "NEW", featured |-> FALSE, text |-> 0, cover |-> NoCover]

Init ==
    /\ me \in Actors
    /\ row = [i \in Ids |-> NoRow] /\ cover = [i \in Ids |-> NoCover]
    /\ page = Closed /\ sent = {}
    /\ copy = [i \in Ids |-> NoCopy]
    /\ stored = {} /\ texts = 0
    /\ mine = {} /\ purged = {} /\ refused = {} /\ released = {} /\ crossed = {} /\ elsewhere = {}
    /\ kept = [i \in Ids |-> NoCover]
    /\ budget \in Budgets

-------------------------------------------------------------------------------
(* The page *)

Spend(what) == budget[what] > 0 /\ budget' = [budget EXCEPT ![what] = @ - 1]

Opened == {"new", "edit"}

\* isPending of the mutations that disable the form.
Busy == \E r \in sent : r.visit = page.visit /\ r.op \notin {"feature", "purge"}

Shows(statuses) == page.mode = "edit" /\ page.shown \in statuses

Locked == me = "author" /\ page.mode = "edit" /\ page.shown # "DRAFT"

\* A page that was asked for; the form that was there is gone.
Visit(mode, i) ==
    /\ Spend("visits")
    /\ page' = [Closed EXCEPT !.mode = mode, !.visit = page.visit + 1, !.id = i]
    /\ mine' = {}
    /\ UNCHANGED <<me, copy, sent, server, history, elsewhere>>

New == Visit("new", 0)

Open(i) == row[i].status # "NEW" /\ Visit("loading", i)

\* router.replace, some time after the creation.
Redirect == page.mode = "new" /\ page.next # 0 /\ Visit("loading", page.next)

\* The page begins with the copy in the query cache, however old.
OpenCopy(i) ==
    LET c == copy[i] IN
    /\ c.shown # "NEW" /\ Spend("visits")
    /\ page' = [Closed EXCEPT !.mode = "edit", !.visit = page.visit + 1, !.id = i, !.shown = c.shown,
                              !.featured = c.featured, !.text = c.text, !.cover = c.cover]
    /\ mine' = {}
    /\ UNCHANGED <<me, copy, sent, server, history, elsewhere>>

\* The article is fetched, first for the form, whose fields begin as it is, and
\* again after each change: then only what is not typed follows.
Fetch ==
    LET x == row[page.id] IN
    /\ page.mode \in {"loading", "edit"}
    /\ page' = CASE x.status = "DELETED" -> [page EXCEPT !.mode = "none", !.modal = "none"]
                 [] x.status # "DELETED" /\ page.mode = "edit" ->
                        [page EXCEPT !.shown = x.status, !.featured = x.featured]
                 [] x.status # "DELETED" /\ page.mode = "loading" ->
                        [page EXCEPT !.mode = "edit", !.shown = x.status, !.featured = x.featured,
                                     !.text = x.edits, !.cover = cover[page.id]]
    /\ copy' = IF x.status = "DELETED" THEN copy
               ELSE [copy EXCEPT ![page.id] = [shown |-> x.status, featured |-> x.featured,
                                               text |-> x.edits, cover |-> cover[page.id]]]
    /\ UNCHANGED <<me, sent, server, mine, history, elsewhere, budget>>

\* The editor of the body is no form control: a disabled fieldset does not disable it.
Type ==
    /\ page.mode \in Opened /\ page.modal = "none" /\ Spend("texts")
    /\ texts' = texts + 1
    /\ page' = [page EXCEPT !.text = texts + 1, !.saved = FALSE]
    /\ UNCHANGED <<me, copy, row, cover, stored, sent, mine, history, elsewhere>>

Paste ==
    /\ page.mode \in Opened /\ ~Locked /\ ~Busy /\ page.modal = "none"
    /\ page' = [page EXCEPT !.cover = Pasted, !.saved = FALSE]
    /\ UNCHANGED <<me, copy, sent, server, mine, history, elsewhere, budget>>

Request(op, i, then, seen) ==
    [op |-> op, id |-> i, then |-> then, text |-> page.text, cover |-> page.cover,
     seen |-> seen, visit |-> page.visit]

\* Mutant: a lock that leaves out what is in review.
SaveShownInReview(then) ==
    CASE then = "none"    -> ~(Locked /\ page.shown # "IN_REVIEW")
      [] then = "submit"  -> me = "author" /\ (page.mode = "new" \/ Shows({"DRAFT"}))
      [] then = "publish" -> me = "editor" /\ ~Shows({"PUBLISHED"})

\* Save, Submit for review and Publish.
SaveShown(then) ==
    CASE then = "none"    -> ~Locked
      [] then = "submit"  -> me = "author" /\ (page.mode = "new" \/ Shows({"DRAFT"}))
      [] then = "publish" -> me = "editor" /\ ~Shows({"PUBLISHED"})

\* A text that is too short is not sent.
Save(then) ==
    /\ page.mode \in Opened /\ SaveShown(then) /\ ~Busy /\ page.modal = "none" /\ page.text > 0
    /\ Spend("clicks")
    /\ sent' = sent \cup {Request(IF page.mode = "new" THEN "create" ELSE "update",
                                  page.id, then, page.shown)}
    /\ crossed' = IF \E r \in sent : r.id = page.id /\ r.visit # page.visit
                  THEN crossed \cup {page.id} ELSE crossed
    /\ UNCHANGED <<me, page, copy, server, mine, purged, refused, released, kept, elsewhere>>

Feature ==
    /\ me = "editor" /\ Shows({"PUBLISHED"}) /\ ~page.featured /\ ~Busy /\ page.modal = "none"
    /\ Spend("clicks")
    /\ sent' = sent \cup {Request("feature", page.id, "none", page.shown)}
    /\ UNCHANGED <<me, page, copy, server, mine, history, elsewhere>>

Unpublish ==
    /\ me = "editor" /\ Shows({"PUBLISHED"}) /\ ~Busy /\ page.modal = "none"
    /\ Spend("clicks")
    /\ sent' = sent \cup {Request("unpublish", page.id, "none", page.shown)}
    /\ UNCHANGED <<me, page, copy, server, mine, history, elsewhere>>

\* Send back, Delete and the cross of the cover ask first.
Ask(modal) ==
    /\ CASE modal = "reject" -> me = "editor" /\ Shows({"IN_REVIEW"}) /\ ~Busy
         [] modal = "delete" -> Shows(IF me = "editor" THEN Statuses ELSE {"DRAFT"}) /\ ~Busy
         [] modal = "cover"  -> page.mode \in Opened /\ page.cover # NoCover /\ ~Locked /\ ~Busy
                                /\ \A r \in sent : ~(r.op = "purge" /\ r.visit = page.visit)
    /\ page.modal = "none"
    /\ page' = [page EXCEPT !.modal = modal, !.met = page.shown]
    /\ UNCHANGED <<me, copy, sent, server, mine, history, elsewhere, budget>>

Dismiss ==
    /\ page.modal # "none"
    /\ page' = [page EXCEPT !.modal = "none"]
    /\ UNCHANGED <<me, copy, sent, server, mine, history, elsewhere, budget>>

Confirm ==
    /\ page.modal \in {"reject", "delete"} /\ ~Busy /\ Spend("clicks")
    /\ sent' = sent \cup {Request(IF page.modal = "reject" THEN "reject" ELSE "remove",
                                  page.id, "none", page.met)}
    /\ UNCHANGED <<me, page, copy, server, mine, history, elsewhere>>

\* Mutant: whatever image the field has is purged.
RemoveCoverShown ==
    /\ page.modal = "cover"
    /\ IF page.cover \in Assets
       THEN /\ sent' = sent \cup {[Request("purge", page.id, "none", page.shown) EXCEPT
                                        !.cover = page.cover]}
            /\ page' = [page EXCEPT !.modal = "none"]
       ELSE /\ page' = [page EXCEPT !.modal = "none", !.cover = NoCover, !.saved = FALSE]
            /\ UNCHANGED sent
    /\ UNCHANGED <<me, copy, server, mine, history, elsewhere, budget>>

\* Only an upload of this form is purged, and then the field is cleared.
RemoveCover ==
    /\ page.modal = "cover"
    /\ IF page.upload # 0
       THEN /\ sent' = sent \cup {[Request("purge", page.id, "none", page.shown) EXCEPT
                                        !.cover = page.upload]}
            /\ page' = [page EXCEPT !.modal = "none"]
       ELSE /\ page' = [page EXCEPT !.modal = "none", !.cover = NoCover, !.saved = FALSE]
            /\ UNCHANGED sent
    /\ UNCHANGED <<me, copy, server, mine, history, elsewhere, budget>>

Upload ==
    /\ page.mode \in Opened /\ ~Locked /\ ~Busy /\ page.modal = "none" /\ Spend("uploads")
    /\ sent' = sent \cup {[Request("upload", page.id, "none", page.shown) EXCEPT
                                !.cover = budget.uploads]}
    /\ UNCHANGED <<me, page, copy, server, mine, history, elsewhere>>

-------------------------------------------------------------------------------
(* The server, and what the page makes of its answers *)

Accepted(op) == IF op = "create" THEN {"NEW"} ELSE Required(op, me)

Unused == {i \in Ids : row[i].status = "NEW"}

\* What the operations make of a row.  The text stands for the fields that a form cannot
\* leave empty, the cover for the optional ones: those are not in the request when they
\* are empty, and the row keeps what it has.
Effect(r, x) ==
    CASE r.op = "create"    -> [Created(x) EXCEPT !.edits = r.text]
      [] r.op = "update"    -> [x EXCEPT !.edits = r.text]
      [] r.op = "remove"    -> Removed(x)
      [] r.op = "submit"    -> Submitted(x)
      [] r.op = "publish"   -> Published(x, 1)
      [] r.op = "reject"    -> Rejected(x)
      [] r.op = "unpublish" -> Unpublished(x)
      [] r.op = "feature"   -> [x EXCEPT !.featured = TRUE]

Stored(r, i) == IF r.op \in {"create", "update"} /\ r.cover # NoCover THEN r.cover ELSE cover[i]

\* Mutant: the next request follows whether or not the article was saved.
FollowingAlways(r, i, done) ==
    IF i # 0 /\ r.then # "none"
    THEN {[r EXCEPT !.op = r.then, !.id = i, !.then = "none"]} ELSE {}

\* saveThen: the request that follows r once it is done.
Following(r, i, done) ==
    IF done /\ r.then # "none"
    THEN {[r EXCEPT !.op = r.then, !.id = i, !.then = "none"]} ELSE {}

\* The page, if it is still the one that sent r.
After(r, i) ==
    IF r.visit # page.visit \/ page.mode \notin Opened THEN page
    ELSE CASE r.op = "create" -> [page EXCEPT !.next = i,
                    !.saved = (page.text = r.text /\ page.cover = r.cover)]
           [] r.op = "update" -> [page EXCEPT !.saved = (page.text = r.text /\ page.cover = r.cover)]
           [] r.op = "remove" -> [page EXCEPT !.mode = "none", !.modal = "none"]
           [] r.op = "reject" -> [page EXCEPT !.modal = "none"]
           [] r.op = "upload" -> [page EXCEPT !.cover = r.cover, !.upload = r.cover, !.saved = FALSE]
           [] r.op = "purge"  -> [page EXCEPT !.cover = NoCover, !.upload = 0, !.saved = FALSE]
           [] OTHER -> page

\* An operation on articles is carried out.  If its answer is lost, the page takes
\* it for a failure.
Accept(r) ==
    /\ r.op \in Operations \cup {"create"}
    /\ \E i \in IF r.op = "create" THEN Unused ELSE {r.id}, heard \in BOOLEAN :
        /\ row[i].status \in Accepted(r.op)
        /\ row' = [row EXCEPT ![i] = Effect(r, @)]
        /\ cover' = [cover EXCEPT ![i] = Stored(r, i)]
        /\ sent' = (sent \ {r}) \cup Following(r, i, heard)
        /\ page' = IF heard THEN After(r, i) ELSE page
        /\ IF heard THEN UNCHANGED budget ELSE Spend("lost")
        /\ elsewhere' = CASE r.op \notin {"create", "update"} -> elsewhere
                           [] r.op \in {"create", "update"} -> 
                                IF r.visit = page.visit THEN elsewhere \ {i} ELSE elsewhere \cup {i}
        /\ released' = IF r.op \in {"submit", "publish"}
                       THEN released \cup {<<r.text, row[i].edits, i \in crossed>>} ELSE released
        /\ kept' = IF r.op \in {"create", "update"} THEN [kept EXCEPT ![i] = cover[i]] ELSE kept
    /\ UNCHANGED <<me, copy, stored, texts, mine, purged, refused, crossed>>

\* It is refused, or the article is gone.  CreateArticleDto may refuse any creation: the
\* form checks less (a title of one letter is too short for it, a pasted cover may be no URL).
\* The body of an update is not validated.
Refuse(r) ==
    /\ \/ r.op = "create"
       \/ r.op \in Operations /\ row[r.id].status \notin Accepted(r.op)
    /\ sent' = (sent \ {r}) \cup Following(r, r.id, FALSE)
    /\ refused' = refused \cup {<<r.op, r.seen, IF r.op = "create" THEN "NEW" ELSE row[r.id].status>>}
    /\ UNCHANGED <<me, page, copy, server, mine, purged, released, crossed, kept, elsewhere, budget>>

\* The library takes the image.
Take(r) ==
    /\ r.op = "upload"
    /\ stored' = stored \cup {r.cover}
    /\ mine' = IF r.visit = page.visit THEN mine \cup {r.cover} ELSE mine
    /\ sent' = sent \ {r} /\ page' = After(r, 0)
    /\ UNCHANGED <<me, copy, row, cover, texts, history, elsewhere, budget>>

\* The library deletes the image.
Purge(r) ==
    /\ r.op = "purge"
    /\ stored' = stored \ {r.cover}
    /\ purged' = purged \cup {<<r.cover, r.visit # page.visit \/ r.cover \in mine>>}
    /\ sent' = sent \ {r} /\ page' = After(r, 0)
    /\ UNCHANGED <<me, copy, row, cover, texts, mine, refused, released, crossed, kept, elsewhere,
                   budget>>

\* It fails on its way there, or the library fails.
Fail(r) ==
    /\ Spend("lost")
    /\ sent' = (sent \ {r}) \cup Following(r, r.id, FALSE)
    /\ UNCHANGED <<me, page, copy, server, mine, history, elsewhere>>

\* A colleague works on the article.
Elsewhere(i) ==
    /\ budget.elsewhere > 0
    /\ \E op \in Operations \ {"pin"}, by \in Actors :
        /\ row[i].status \in Required(op, by)
        /\ op = "update" => budget.texts > 0
        /\ texts' = IF op = "update" THEN texts + 1 ELSE texts
        /\ budget' = [budget EXCEPT !.elsewhere = @ - 1, !.texts = @ - (texts' - texts)]
        /\ row' = [row EXCEPT ![i] = Effect([op |-> op, text |-> texts + 1], @)]
    /\ elsewhere' = elsewhere \cup {i}
    /\ UNCHANGED <<me, page, copy, sent, cover, stored, mine, history>>

Next ==
    \/ New \/ Redirect \/ Fetch \/ Type \/ Paste
    \/ \E i \in Ids : Open(i) \/ OpenCopy(i) \/ Elsewhere(i)
    \/ \E then \in {"none", "submit", "publish"} : Save(then)
    \/ Feature \/ Unpublish
    \/ \E modal \in {"delete", "reject", "cover"} : Ask(modal)
    \/ Dismiss \/ Confirm \/ RemoveCover \/ Upload
    \/ \E r \in sent : Accept(r) \/ Refuse(r) \/ Take(r) \/ Purge(r) \/ Fail(r)

Spec == Init /\ [][Next]_vars

-------------------------------------------------------------------------------
(* Properties *)

\* The page offers what the server allows ("mirror the backend rule in the UI",
\* article-form.tsx): a request about an article is refused only if its status has changed
\* since the page showed it, also the second request of a click.  A creation may be refused
\* for its fields, of which the form checks less than CreateArticleDto.
RefusedOnlyIfStale == \A r \in refused : r[1] # "create" => r[2] # r[3]

\* "Only purge from Cloudinary if this session uploaded it" (article-form.tsx).
PurgesItsOwn == \A p \in purged : p[2]

Held == IF page.mode = "edit" THEN page.id ELSE page.next

SavedHere(i) == page.saved /\ i # 0 /\ i \notin elsewhere /\ row[i].status # "DELETED"

\* What goes to review or out to readers is what was typed before the click, or
\* something newer: never what was there before a save that failed; two pages that
\* save the same article at once are left out.  And once saved, while nobody else
\* changes it, the article has the text that the form shows, and its cover; a form
\* without one (cleanPayload sends no empty field) leaves the cover as it was.
TypedIsStored ==
    /\ \A r \in released : ~r[3] => r[2] >= r[1]
    /\ SavedHere(Held) =>
            /\ row[Held].edits = page.text
            /\ cover[Held] = IF page.cover = NoCover THEN kept[Held] ELSE page.cover

\* The words alone: "The cover will be cleared from this article" (article-form.tsx:458):
\* a form that was saved without a cover leaves an article without one.
RemovedCoverIsCleared ==
    SavedHere(Held) /\ page.cover = NoCover => cover[Held] = NoCover
===============================================================================
