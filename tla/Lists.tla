--------------------------------- MODULE Lists ---------------------------------
(***************************************************************************)
(* A studio page that shows a list a page at a time, filtered by a tab and *)
(* by a search: users, subscribers, articles, media and the review queue.  *)
(* What it shows comes from TanStack Query's cache by the key of what was  *)
(* chosen; while that is fetched, the page goes on showing what it showed. *)
(* The rows are others' work too.                                          *)
(***************************************************************************)
EXTENDS Naturals, FiniteSets

CONSTANTS
    Items,          \* rows that may exist, 1..n in the order of their creation
    Named,          \* those whose name the search matches
    Limit,          \* rows on a page
    Budgets         \* bound: choices, changes by the page and by others, aging, failures

ListsAssumption ==
    /\ IsFiniteSet(Items) /\ Items = 1..Cardinality(Items)
    /\ Named \subseteq Items /\ Limit \in Nat \ {0}
    /\ Budgets \subseteq [{"choices", "changes", "others", "aging", "lost"} -> Nat]

Kinds == {"users", "subscribers", "articles", "media", "review"}

VARIABLES
    kind,           \* which page it is
    rows,           \* the table: none, or whether the tab matches
    typed,          \* what the search field says
    timer,          \* the search is yet to take effect
    sel,            \* what is chosen: tab, search and page
    cache,          \* answers that the query cache holds, by key
    fresh,          \* keys whose answer is not refetched when it is shown again
    failed,         \* keys whose last fetch failed
    flights,        \* fetches in progress; got: the answer is on its way
    last,           \* the last answer that was shown
    asked,          \* the row that a dialog asks about, or 0
    sent,           \* rows that a request of the page is about
    carried,        \* rows that a request was carried out on, of which the page is yet to hear
    done,           \* history: rows that the page removed from the list, and heard so
    overtaken,      \* history: keys whose last fetch had read the rows when the page heard of a
                    \* change, and was neither cancelled nor begun anew
    moved,          \* history: the list shrank, or was paged, while an older one was shown
    budget          \* what is left of the bound

vars == <<kind, rows, typed, timer, sel, cache, fresh, failed, flights, last, asked, sent,
          carried, done, overtaken, moved, budget>>

Wide == {"all", "some"}

Selections == [tab : Wide, search : Wide, at : Nat \ {0}]

Nothing == [of |-> [tab |-> "all", search |-> "all", at |-> 1], ids |-> {}, total |-> 0]

\* Mutant: a key that leaves out what is searched.
KeyUnsearched(s) == [s EXCEPT !.search = "all"]

\* studioKeys and newsletterAdminKeys name all that the request depends on.
Key(s) == s

Matching(s) ==
    {i \in Items : /\ rows[i] # "none"
                   /\ s.tab = "some" => rows[i] = "tab"
                   /\ s.search = "some" => i \in Named}

Pages(total) == (total + Limit - 1) \div Limit

\* The newest first: skip (page - 1) * limit, take limit.
PageOf(all, at) ==
    {i \in all : LET newer == Cardinality({j \in all : j > i}) IN
                 (at - 1) * Limit <= newer /\ newer < at * Limit}

\* What a page may have: articles come by their last change, so in any order.
PagesOf(all, at) ==
    IF kind = "articles" THEN {p \in SUBSET all : Cardinality(p) = Cardinality(PageOf(all, at))}
    ELSE {PageOf(all, at)}

Listings(s) ==
    {[of |-> s, ids |-> p, total |-> Cardinality(Matching(s))] : p \in PagesOf(Matching(s), s.at)}

Cached(k) == \E c \in cache : c.key = k

Held(k) == (CHOOSE c \in cache : c.key = k).data

\* data, and whether isLoading
Shown == IF Cached(Key(sel)) THEN Held(Key(sel)) ELSE IF Key(sel) \in failed THEN Nothing ELSE last.data

Loading == ~Cached(Key(sel)) /\ Key(sel) \notin failed /\ last.none

Settled == \A f \in flights : f.key # Key(sel)

TypeOK ==
    /\ kind \in Kinds /\ rows \in [Items -> {"none", "other", "tab"}]
    /\ typed \in Wide /\ timer \in BOOLEAN /\ sel \in Selections
    /\ \A c \in cache : c.key \in Selections /\ c.data.ids \subseteq Items
    /\ fresh \cup failed \subseteq Selections
    /\ \A f, g \in flights : f.key = g.key => f = g
    /\ asked \in Items \cup {0} /\ sent \cup carried \subseteq Items

\* The review queue is what is in review, and is not paged.
Start == [tab |-> IF kind = "review" THEN "some" ELSE "all", search |-> "all", at |-> 1]

Init ==
    /\ kind \in Kinds
    /\ rows \in {[i \in Items |-> IF i <= n THEN w ELSE "none"] :
                    n \in {0, Cardinality(Items) - 1}, w \in {"tab", "other"}}
    /\ typed = "all" /\ sel = Start
    /\ timer = (kind \in {"users", "subscribers"})
    /\ cache = {} /\ fresh = {} /\ failed = {} /\ last = [none |-> TRUE, data |-> Nothing]
    /\ flights = {[key |-> Key(Start), of |-> Start, read |-> FALSE, got |-> Nothing]}
    /\ asked = 0 /\ sent = {} /\ carried = {} /\ done = {} /\ overtaken = {} /\ moved = FALSE
    /\ budget \in Budgets

-------------------------------------------------------------------------------
(* What is chosen *)

Spend(what) == budget[what] > 0 /\ budget' = [budget EXCEPT ![what] = @ - 1]

Fetch(s) == [key |-> Key(s), of |-> s, read |-> FALSE, got |-> Nothing]

\* Another key is observed: it is fetched, unless it is fresh or on its way, and what
\* was shown stands in for it (placeholderData).
Select(s) ==
    /\ sel' = s
    /\ last' = IF Cached(Key(sel)) THEN [none |-> FALSE, data |-> Held(Key(sel))] ELSE last
    /\ IF Key(s) = Key(sel) \/ Key(s) \in fresh \/ (\E f \in flights : f.key = Key(s))
       THEN UNCHANGED <<flights, failed, overtaken>>
       ELSE /\ flights' = flights \cup {Fetch(s)}
            /\ failed' = failed \ {Key(s)} /\ overtaken' = overtaken \ {Key(s)}
    /\ UNCHANGED <<kind, rows, cache, fresh, asked, sent, carried, done>>

\* A tab, or the section of articles, counts at once, from its first page.
Tab(w) ==
    /\ kind \in {"articles", "subscribers"} /\ w # sel.tab /\ asked = 0 /\ Spend("choices")
    /\ Select([sel EXCEPT !.tab = w, !.at = 1])
    /\ UNCHANGED <<typed, timer, moved>>

\* The search of articles does too; that of users and subscribers waits for a pause.
Type(w) ==
    /\ w # typed /\ asked = 0 /\ Spend("choices") /\ typed' = w
    /\ CASE kind = "articles" -> Select([sel EXCEPT !.search = w, !.at = 1]) /\ UNCHANGED timer
         [] kind \in {"users", "subscribers"} ->
                /\ timer' = TRUE
                /\ UNCHANGED <<kind, rows, sel, cache, fresh, failed, flights, last, asked, sent,
                               carried, done, overtaken>>
         [] OTHER -> FALSE
    /\ UNCHANGED moved

Debounce ==
    /\ timer /\ timer' = FALSE
    /\ Select([sel EXCEPT !.search = typed, !.at = 1])
    /\ UNCHANGED <<typed, moved, budget>>

\* Prev and Next are there if what is shown has several pages.
Turn(at) ==
    /\ kind # "review" /\ asked = 0 /\ Spend("choices")
    /\ ~Loading /\ Pages(Shown.total) > 1
    /\ at \in {sel.at - 1, sel.at + 1} /\ at >= 1
    /\ at > sel.at => sel.at < Pages(Shown.total)
    /\ moved' = (moved \/ Shown.of # sel)
    /\ Select([sel EXCEPT !.at = at])
    /\ UNCHANGED <<typed, timer>>

-------------------------------------------------------------------------------
(* Answers *)

Read(f) ==
    /\ ~f.read
    /\ \E d \in Listings(f.of) :
           flights' = (flights \ {f}) \cup {[f EXCEPT !.read = TRUE, !.got = d]}
    /\ UNCHANGED <<kind, rows, typed, timer, sel, cache, fresh, failed, last, asked, sent, carried, done,
                   overtaken, moved, budget>>

Arrive(f) ==
    /\ f.read
    /\ flights' = flights \ {f}
    /\ cache' = {c \in cache : c.key # f.key} \cup {[key |-> f.key, data |-> f.got]}
    /\ fresh' = fresh \cup {f.key}
    /\ UNCHANGED <<kind, rows, typed, timer, sel, failed, last, asked, sent, carried, done, overtaken,
                   moved, budget>>

\* The fetch and its retry fail.
Lose(f) ==
    /\ Spend("lost")
    /\ flights' = flights \ {f}
    /\ failed' = failed \cup {f.key}
    /\ UNCHANGED <<kind, rows, typed, timer, sel, cache, fresh, last, asked, sent, carried, done, overtaken,
                   moved>>

\* Two minutes go by.
Age ==
    /\ fresh # {} /\ Spend("aging")
    /\ fresh' = {}
    /\ UNCHANGED <<kind, rows, typed, timer, sel, cache, failed, flights, last, asked, sent, carried, done,
                   overtaken, moved>>

-------------------------------------------------------------------------------
(* Changes *)

\* Subscribers are removed after a question, as are articles sent back; a publication
\* is not asked about.
Ask(i) ==
    /\ kind \in {"subscribers", "review"} /\ ~Loading /\ i \in Shown.ids
    /\ i \notin sent \cup carried /\ asked = 0 /\ asked' = i
    /\ UNCHANGED <<kind, rows, typed, timer, sel, cache, fresh, failed, flights, last, sent, carried, done,
                   overtaken, moved, budget>>

Close ==
    /\ asked # 0 /\ asked' = 0
    /\ UNCHANGED <<kind, rows, typed, timer, sel, cache, fresh, failed, flights, last, sent, carried, done,
                   overtaken, moved, budget>>

Mutate(i) ==
    /\ ~Loading /\ i \in Shown.ids /\ i \notin sent \cup carried /\ Spend("changes")
    /\ CASE kind = "review" -> asked \in {0, i}
         [] kind = "subscribers" -> asked = i
         [] kind \in {"users", "articles"} -> asked = 0
         [] kind = "media" -> FALSE
    /\ sent' = sent \cup {i}
    /\ UNCHANGED <<kind, rows, typed, timer, sel, cache, fresh, failed, flights, last, asked, carried, done,
                   overtaken, moved>>

\* A new image, from the library's page.
Upload ==
    /\ kind = "media" /\ sent \cup carried = {} /\ Spend("changes")
    /\ \E i \in Items : /\ rows[i] = "none" /\ \A j \in Items : j < i => rows[j] # "none"
                        /\ sent' = {i}
    /\ UNCHANGED <<kind, rows, typed, timer, sel, cache, fresh, failed, flights, last, asked, carried, done,
                   overtaken, moved>>

\* invalidateQueries: every answer is old, and what is shown is fetched anew: a fetch of it
\* is cancelled, but joined if there is no answer yet that it would replace.  Fetches for
\* lists that are not shown go on, and what they bring counts as fresh.
Invalidate ==
    LET joined == {f \in flights : f.key # Key(sel) \/ ~Cached(Key(sel))} IN
    /\ fresh' = {}
    /\ flights' = IF \E f \in joined : f.key = Key(sel) THEN joined ELSE joined \cup {Fetch(sel)}
    /\ failed' = failed \ {Key(sel)}
    /\ overtaken' = (overtaken \ {Key(sel)}) \cup {f.key : f \in {g \in joined : g.read}}

\* What the request does to its row, if it is still there to do it to.
Carried(i) ==
    CASE kind = "subscribers" -> [rows EXCEPT ![i] = "none"]
      [] kind = "review" -> [rows EXCEPT ![i] = "other"]
      [] kind = "media" -> [rows EXCEPT ![i] = "other"]
      [] OTHER -> rows

Carries(i) ==
    CASE kind = "review" -> rows[i] = "tab"
      [] kind = "media"  -> TRUE
      [] OTHER -> rows[i] # "none"

Carry(i) ==
    /\ i \in sent /\ Carries(i)
    /\ rows' = Carried(i) /\ sent' = sent \ {i} /\ carried' = carried \cup {i}
    /\ moved' = (moved \/ kind \in {"subscribers", "review"})
    /\ UNCHANGED <<kind, typed, timer, sel, cache, fresh, failed, flights, last, asked, done,
                   overtaken, budget>>

\* onSuccess; by then somebody may have brought the row back.
Hear(i) ==
    /\ i \in carried /\ carried' = carried \ {i}
    /\ asked' = IF asked = i THEN 0 ELSE asked
    /\ done' = IF kind \in {"subscribers", "review"} /\ rows = Carried(i) THEN done \cup {i} ELSE done
    /\ Invalidate
    /\ UNCHANGED <<kind, rows, typed, timer, sel, cache, last, sent, moved, budget>>

Refuse(i) ==
    /\ i \in sent /\ ~Carries(i)
    /\ sent' = sent \ {i}
    /\ UNCHANGED <<kind, rows, typed, timer, sel, cache, fresh, failed, flights, last, asked, carried, done,
                   overtaken, moved, budget>>

\* Somebody else adds a row, changes one or removes it.
Elsewhere(i, w) ==
    /\ w # rows[i] /\ i \notin sent /\ Spend("others")
    /\ rows[i] = "none" => \A j \in Items : j < i => rows[j] # "none"
    /\ rows' = [rows EXCEPT ![i] = w]
    /\ done' = done \ {i}
    /\ moved' = (moved \/ rows[i] # "none")
    /\ UNCHANGED <<kind, typed, timer, sel, cache, fresh, failed, flights, last, asked, sent,
                   carried, overtaken>>

Next ==
    \/ \E w \in Wide : Tab(w) \/ Type(w)
    \/ Debounce
    \/ \E at \in 1..Cardinality(Items) : Turn(at)
    \/ \E f \in flights : Read(f) \/ Arrive(f) \/ Lose(f)
    \/ Age \/ Close \/ Upload
    \/ \E i \in Items : Ask(i) \/ Mutate(i) \/ Carry(i) \/ Hear(i) \/ Refuse(i)
    \/ \E i \in Items, w \in {"none", "other", "tab"} : Elsewhere(i, w)

Spec == Init /\ [][Next]_vars

-------------------------------------------------------------------------------
(* Properties *)

SaysEmpty == ~Loading /\ Shown.ids = {}

\* Once nothing is on its way and nothing failed, what is shown is an answer to what is
\* chosen, however choices and answers overtook one another.  A row that the page removed,
\* and heard so, is not in it, unless the answer was on its way back to the tab when it
\* heard: a fetch for a list that was left, or that had no answer before, is not begun anew.
\* And it is empty ("No users match", "No subscribers match this view yet") only if the
\* list is, unless rows went, or the page was turned, while an older list was shown.
ShowsTheList ==
    Settled /\ Key(sel) \notin failed =>
        /\ ~Loading => Shown.of = sel
        /\ Key(sel) \notin overtaken => Shown.ids \cap done = {}
        /\ SaysEmpty /\ ~moved => Shown.total = 0

\* The words alone: where the page says that nothing matches, nothing matched when the
\* server was asked.
EmptyMeansNone == SaysEmpty /\ Settled => Shown.of = sel /\ Shown.total = 0
===============================================================================
