-------------------------------- MODULE Composer -------------------------------
(***************************************************************************)
(* The page on which an admin writes a newsletter campaign, sends it to    *)
(* themselves and then to everybody (CampaignComposer, with the hooks it   *)
(* uses), and the row and the sending loop behind it, as far as the page   *)
(* depends on them.  Newsletter.tla has the loop and its mails in detail.  *)
(***************************************************************************)
EXTENDS Naturals, FiniteSets

CONSTANT Budgets    \* bound: texts, clicks, visits, and losses of answers or of the loop

ComposerAssumption == Budgets \subseteq [{"texts", "clicks", "visits", "lost"} -> Nat]

Statuses == {"DRAFT", "SENDING", "SENT"}

VARIABLES
    row,            \* the campaign: its status, NEW before it exists, and its text
    loops,          \* CampaignSenderService.run: begun, or sending the text it read
    page,           \* the page; see Pages
    sent,           \* requests without an answer
    cache,          \* the tab's copy of the row, if there is one, and if it is to be read anew
    fetch,          \* the page's query: no, asked, or the row as it was read
    texts,          \* texts so far; a larger number is a newer text
    mailed,         \* history: <<newest text that was known to be stored at the click, text>>
    tested,         \* history: <<text at the click, text>> of test mails
    early,          \* history: a read fell between a send and its loop's first write, or failed,
                    \* or the answer of a send was lost
    left,           \* history: the page was left with a request in flight, or came up from a
                    \* copy that was stale, or another than the row by then
    budget          \* what is left of the bound

history == <<mailed, tested, early, left>>
vars == <<row, loops, page, sent, cache, fetch, texts, history, budget>>

Rows == [status : Statuses \cup {"NEW"}, text : Nat]

\* missing: "Campaign not found.", after a failed fetch.  known: the newest text that the
\* page knows to be stored.  next: the creation is done, router.replace is yet to come.
Pages == [mode : {"new", "loading", "edit", "missing"}, visit : Nat, typed : Nat, known : Nat,
          modal : BOOLEAN, next : BOOLEAN]

\* then: what follows a save; gone: the tab was reloaded, nothing does.  at: the text known,
\* or typed, at the click.
Requests == [op : {"create", "update", "test", "send"}, then : {"none", "test", "gone"},
             text : Nat, at : Nat, visit : Nat]

Loops == [at : {"begun", "sending"}, text : Nat, known : Nat]

TypeOK ==
    /\ row \in Rows /\ page \in Pages /\ sent \subseteq Requests
    /\ loops \subseteq Loops
    /\ cache \in [at : {"none", "fresh", "stale"}, row : Rows]
    /\ fetch \in [at : {"no", "asked", "read"}, row : Rows]
    /\ texts \in Nat /\ mailed \cup tested \subseteq Nat \X Nat

NewRow == [status |-> "NEW", text |-> 0]

NoCopy == [at |-> "none", row |-> NewRow]
Idle == [at |-> "no", row |-> NewRow]
Asked == [at |-> "asked", row |-> NewRow]

\* The fields of the form are those of a row when it comes up.
Page(mode, visit, r) ==
    [mode |-> mode, visit |-> visit, typed |-> r.text, known |-> r.text,
     modal |-> FALSE, next |-> FALSE]

Init ==
    /\ row = NewRow /\ loops = {}
    /\ page = Page("new", 0, NewRow)
    /\ sent = {} /\ cache = NoCopy /\ fetch = Idle /\ texts = 0
    /\ mailed = {} /\ tested = {} /\ early = FALSE /\ left = FALSE
    /\ budget \in Budgets

-------------------------------------------------------------------------------
(* The page *)

Spend(what) == budget[what] > 0 /\ budget' = [budget EXCEPT ![what] = @ - 1]

InFlight == {q \in sent : q.visit = page.visit}

Busy == InFlight # {}

Locked == page.mode = "edit" /\ cache.row.status # "DRAFT"

\* The form is there and takes clicks.
Open == page.mode \in {"new", "edit"} /\ ~page.modal /\ ~page.next /\ ~Busy

\* The editor of the body is no form control: the disabled fieldset does not disable it while
\* a request is on its way.  A locked form has none.
Type ==
    /\ page.mode \in {"new", "edit"} /\ ~page.modal /\ ~Locked /\ Spend("texts")
    /\ texts' = texts + 1 /\ page' = [page EXCEPT !.typed = texts + 1]
    /\ UNCHANGED <<row, loops, sent, cache, fetch, history>>

Request(op, then, at) ==
    [op |-> op, then |-> then, text |-> page.typed, at |-> at, visit |-> page.visit]

\* Mutant: the test goes out beside the save.
SaveBeside(then) ==
    /\ Open /\ ~Locked /\ page.typed > 0 /\ Spend("clicks")
    /\ sent' = sent \cup {Request(IF page.mode = "new" THEN "create" ELSE "update", "none", page.typed)}
                    \cup (IF then = "test" /\ page.mode = "edit"
                          THEN {Request("test", "none", page.typed)} ELSE {})
    /\ UNCHANGED <<row, loops, page, cache, fetch, texts, history>>

\* Save, or Send test, which saves first.  A text that is too short is not sent.
Save(then) ==
    /\ Open /\ ~Locked /\ page.typed > 0 /\ Spend("clicks")
    /\ sent' = sent \cup {Request(IF page.mode = "new" THEN "create" ELSE "update", then, page.typed)}
    /\ UNCHANGED <<row, loops, page, cache, fetch, texts, history>>

AskSend ==
    /\ Open /\ page.mode = "edit" /\ ~Locked
    /\ page' = [page EXCEPT !.modal = TRUE]
    /\ UNCHANGED <<row, loops, sent, cache, fetch, texts, history, budget>>

CloseModal ==
    /\ page.modal
    /\ page' = [page EXCEPT !.modal = FALSE]
    /\ UNCHANGED <<row, loops, sent, cache, fetch, texts, history, budget>>

\* What is typed and not saved is not sent: at is what was, or is being, saved.
ConfirmSend ==
    /\ page.modal /\ Spend("clicks")
    /\ page' = [page EXCEPT !.modal = FALSE]
    /\ sent' = sent \cup {Request("send", "none", IF Busy THEN page.typed ELSE page.known)}
    /\ UNCHANGED <<row, loops, cache, fetch, texts, history>>

\* The page is opened over a link, or a new campaign's by router.replace: from the copy if
\* there is one, which is read anew if it is stale.
Visit ==
    /\ row.status # "NEW"
    /\ IF page.next THEN UNCHANGED budget ELSE Spend("visits")
    /\ page' = Page(IF cache.at = "none" THEN "loading" ELSE "edit", page.visit + 1, cache.row)
    /\ fetch' = IF fetch.at = "no" /\ cache.at # "fresh" THEN Asked ELSE fetch
    /\ left' = (left \/ sent # {} \/ cache.at = "stale"
                     \/ (cache.at # "none" /\ cache.row.text # row.text))
    /\ UNCHANGED <<row, loops, sent, cache, texts, mailed, tested, early>>

\* The tab is loaded anew: copies and whatever awaits an answer are gone.
Reload ==
    /\ row.status # "NEW" /\ Spend("visits")
    /\ page' = Page("loading", page.visit + 1, NewRow)
    /\ cache' = NoCopy /\ fetch' = Asked
    /\ sent' = {[q EXCEPT !.then = "gone"] : q \in sent}
    /\ left' = (left \/ sent # {})
    /\ UNCHANGED <<row, loops, texts, mailed, tested, early>>

-------------------------------------------------------------------------------
(* The query *)

Read ==
    /\ fetch.at = "asked"
    /\ fetch' = [at |-> "read", row |-> row]
    /\ early' = (early \/ \E l \in loops : l.at = "begun")
    /\ UNCHANGED <<row, loops, page, sent, cache, texts, mailed, tested, left, budget>>

\* The form takes its fields when it comes up, and keeps them.
Arrive ==
    /\ fetch.at = "read"
    /\ fetch' = Idle /\ cache' = [at |-> "fresh", row |-> fetch.row]
    /\ page' = IF page.mode \in {"loading", "missing"}
               THEN Page("edit", page.visit, fetch.row) ELSE page
    /\ UNCHANGED <<row, loops, sent, texts, history, budget>>

\* isError: the form gives way to "Campaign not found."
FetchFails ==
    /\ fetch.at # "no" /\ Spend("lost")
    /\ fetch' = Idle
    /\ page' = IF page.mode = "new" THEN page ELSE [page EXCEPT !.mode = "missing", !.modal = FALSE]
    /\ early' = TRUE
    /\ UNCHANGED <<row, loops, sent, cache, texts, mailed, tested, left>>

\* refetchInterval: every two seconds, while the copy says SENDING.
Poll ==
    /\ page.mode # "new" /\ cache.row.status = "SENDING" /\ fetch.at = "no"
    /\ fetch' = Asked
    /\ UNCHANGED <<row, loops, page, sent, cache, texts, history, budget>>

\* staleTime: two minutes.
Age ==
    /\ cache.at = "fresh" /\ Spend("lost")
    /\ cache' = [cache EXCEPT !.at = "stale"]
    /\ UNCHANGED <<row, loops, page, sent, fetch, texts, history>>

-------------------------------------------------------------------------------
(* The server, and what the page makes of its answers *)

\* A second creation makes another campaign, which is not followed here.
Allowed(q) == IF q.op = "create" THEN row.status = "NEW"
              ELSE q.op = "test" \/ row.status = "DRAFT"

Following(q) == IF q.then = "test" THEN {[q EXCEPT !.op = "test", !.then = "none"]} ELSE {}

\* Mutant: the copy is left as it is.
RefetchedNever == UNCHANGED <<cache, fetch>>

\* A mutation that succeeds makes the copy stale, and has it read anew if it is in use; a
\* first fetch goes on.
Refetched ==
    /\ cache' = IF cache.at = "none" THEN cache ELSE [cache EXCEPT !.at = "stale"]
    /\ fetch' = IF page.mode = "new" \/ cache.at = "none" THEN fetch ELSE Asked

\* What the page makes of an answer, if it is still the one that asked.
After(q) ==
    IF q.visit = page.visit /\ q.op \in {"create", "update"}
    THEN [page EXCEPT !.known = q.text, !.next = (q.op = "create")] ELSE page

\* If the answer is lost, the page takes it for a failure.
Accept(q) ==
    /\ Allowed(q)
    /\ row' = IF q.op \in {"create", "update"} THEN [status |-> "DRAFT", text |-> q.text] ELSE row
    /\ tested' = IF q.op = "test" THEN tested \cup {<<q.at, row.text>>} ELSE tested
    /\ loops' = IF q.op = "send"
                THEN loops \cup {[at |-> "begun", text |-> 0, known |-> q.at]} ELSE loops
    /\ \/ /\ q.then # "gone"
          /\ sent' = (sent \ {q}) \cup Following(q)
          /\ page' = After(q)
          /\ IF q.op = "test" THEN UNCHANGED <<cache, fetch>> ELSE Refetched
          /\ UNCHANGED <<early, budget>>
       \/ /\ IF q.then = "gone" THEN UNCHANGED budget ELSE Spend("lost")
          /\ sent' = sent \ {q}
          /\ early' = (early \/ q.op = "send")
          /\ UNCHANGED <<page, cache, fetch>>
    /\ UNCHANGED <<texts, mailed, left>>

\* It is refused, or fails.
Refuse(q) ==
    /\ IF Allowed(q) THEN Spend("lost") ELSE UNCHANGED budget
    /\ sent' = sent \ {q}
    /\ UNCHANGED <<row, loops, page, cache, fetch, texts, history>>

\* run() reads the campaign and the subscribers, marks it, and mails them in batches.
Mark(l) ==
    /\ l.at = "begun"
    /\ loops' = (loops \ {l}) \cup {[l EXCEPT !.at = "sending", !.text = row.text]}
    /\ row' = [row EXCEPT !.status = "SENDING"]
    /\ UNCHANGED <<page, sent, cache, fetch, texts, history, budget>>

Finish(l) ==
    /\ l.at = "sending"
    /\ mailed' = mailed \cup {<<l.known, l.text>>}
    /\ row' = [row EXCEPT !.status = "SENT"]
    /\ loops' = loops \ {l}
    /\ UNCHANGED <<page, sent, cache, fetch, texts, tested, early, left, budget>>

\* The process ends, and the loops with it.
Crash ==
    /\ loops # {} /\ Spend("lost")
    /\ loops' = {}
    /\ UNCHANGED <<row, page, sent, cache, fetch, texts, history>>

Next ==
    \/ Type \/ AskSend \/ CloseModal \/ ConfirmSend \/ Visit \/ Reload
    \/ \E then \in {"none", "test"} : Save(then)
    \/ Read \/ Arrive \/ FetchFails \/ Poll \/ Age \/ Crash
    \/ \E q \in sent : Accept(q) \/ Refuse(q)
    \/ \E l \in loops : Mark(l) \/ Finish(l)

Spec == Init /\ [][Next]_vars

-------------------------------------------------------------------------------
(* Properties *)

\* On a page that came up fresh and was not left: what goes out to subscribers is nothing
\* older than what the page knew to be stored when Send was confirmed, and "Send test to
\* myself" sends what the form showed when it was clicked, or a text that was saved since.
NothingOlder == ~left => \A m \in mailed \cup tested : m[2] >= m[1]

\* The page has nothing to wait for.
Quiet == page.mode = "edit" /\ fetch.at = "no" /\ sent = {}

\* "keep polling so progress (sent_count) updates live" (newsletter-admin.hooks.ts:62):
\* a page at rest, on which the campaign was sent, does not take it for a draft, unless
\* its last read fell between the send and the loop's first write, or failed.
BehindOnlyIfEarly ==
    Quiet /\ row.status \in {"SENDING", "SENT"} /\ cache.row.status = "DRAFT" => early

\* The words alone: while a send is in flight, the page shows it or is about to ask.
ProgressIsShown == Quiet /\ row.status = "SENDING" => cache.row.status = "SENDING"
===============================================================================
