-------------------------------- MODULE MCServer --------------------------------
(* The server's components that share no rows with one another in what they      *)
(* promise: accounts, staff, the media library, articles one request at a time,  *)
(* and what readers get.  A behaviour is one of a single component, so that one  *)
(* run does for all of them; the others' variables keep their first values.      *)
EXTENDS Accounts, TLC

CONSTANTS a1, a2, n1, n2        \* addresses and usernames

CONSTANTS Users, Choices, StaffBudgets,                         \* of Staff.tla
          Writers, Editors, MaxUploads, MaxDeletes, MaxFaults,  \* of Media.tla
          Stories, Rails, RailOf, TagsOf, RecentSize, ShownSize, RailSize, Limit, Pool, MaxChanges  \* of FrontPage.tla

\* Both addresses suggest the same username.
SameName == [a \in Addresses |-> n1]

\* How many requests of each kind there are: none but those listed.
Plan(counts) == counts @@ [k \in Kinds \cup {"fault"} |-> 0]

\* Accounts that begin at the same time; one address verified over several links;
\* a password set over several links and a change; a staff account and its
\* password.
FirstPlan == Plan("register" :> 2 @@ "google" :> 1 @@ "verify" :> 1)
Plans == {
    FirstPlan,
    Plan("register" :> 1 @@ "staff" :> 1 @@ "google" :> 1 @@ "verify" :> 1 @@ "fault" :> 1),
    Plan("register" :> 1 @@ "resend" :> 1 @@ "verify" :> 2 @@ "fault" :> 1),
    Plan("register" :> 1 @@ "forgot" :> 2 @@ "reset" :> 2 @@ "fault" :> 1),
    Plan("register" :> 1 @@ "verify" :> 1 @@ "forgot" :> 1 @@ "reset" :> 1 @@ "change" :> 1 @@ "fault" :> 1),
    Plan("register" :> 1 @@ "google" :> 1 @@ "verify" :> 1 @@ "forgot" :> 1 @@ "reset" :> 1),
    Plan("staff" :> 1 @@ "forgot" :> 1 @@ "reset" :> 1 @@ "change" :> 2 @@ "fault" :> 1),
    Plan("staff" :> 2 @@ "google" :> 1 @@ "change" :> 1)}

\* Roles change hands; accounts are made; both.
StaffPlan(c, i, l) == [changes |-> c, invites |-> i, lost |-> l]
StaffPlans == {StaffPlan(3, 0, 0), StaffPlan(0, 2, 2), StaffPlan(1, 2, 1)}

\* Four stories in two sections, one of which has a rail; the first has no tags.
Numbers == 1..4
SectionOf == [s \in Numbers |-> IF s % 2 = 0 THEN "rail" ELSE "other"]
Tagged == [s \in Numbers |-> CASE s = 1 -> {} [] s = 3 -> {1} [] OTHER -> {1, 2}]

\* What a PATCH may carry: text; and a body that makes of any article a live hero
\* without a date.
AR == INSTANCE ArticleRow
Patches == {AR!Text, [columns |-> {"status", "featured"},
                     row |-> [AR!NoRow EXCEPT !.status = "PUBLISHED", !.featured = TRUE]]}

VARIABLES part,
    role, staffMail, signed, requests, panel, waits, seen, mailed, acted, made, dropped, misled,
    staffBudget,
    assets, media, mediaRequests, uploads, deletes, faults, hit, deleted,
    live, featured, pin, home, related, always, ever, steady, changes,
    article, handler, clock, overlapped, patched

S == INSTANCE Staff WITH Budgets <- StaffBudgets, configured <- staffMail, shown <- seen,
        budget <- staffBudget

M == INSTANCE Media WITH requests <- mediaRequests

F == INSTANCE FrontPage

E == INSTANCE Editorial WITH Articles <- {1, 2}, Handlers <- {1}, Bodies <- Patches,
        MaxEdits <- 1, MaxPublishes <- 3, MaxRemoved <- 1

ASSUME ServerAssumption == S!StaffAssumption /\ M!MediaAssumption /\ F!FrontPageAssumption

staffVars == <<role, staffMail, signed, requests, panel, waits, seen, mailed, acted, made, dropped,
               misled, staffBudget>>
mediaVars == <<assets, media, mediaRequests, uploads, deletes, faults, hit, deleted>>
newsVars == <<live, featured, pin, home, related, always, ever, steady, changes>>
editorialVars == <<article, handler, clock, overlapped, patched>>

\* The first state of a component that does nothing.
NoAccounts == Init /\ configured /\ budget = Plan("register" :> 2 @@ "google" :> 1 @@ "verify" :> 1)
NoStaff == S!Init /\ staffMail /\ role = [u \in Users |-> "ADMIN"] /\ staffBudget = StaffPlan(3, 0, 0)
NoNews == F!Init /\ live = {} /\ home.at = "unasked"

ServerInit ==
    /\ part \in {"accounts", "staff", "media", "news", "editorial"}
    /\ IF part = "accounts" THEN Init ELSE NoAccounts
    /\ IF part = "staff" THEN S!Init ELSE NoStaff
    /\ IF part = "news" THEN F!Init ELSE NoNews
    /\ M!Init /\ E!Init

ServerNext ==
    \/ /\ part = "accounts" /\ Next
       /\ UNCHANGED <<part, staffVars, mediaVars, newsVars, editorialVars>>
    \/ /\ part = "staff" /\ S!Next
       /\ UNCHANGED <<part, vars, mediaVars, newsVars, editorialVars>>
    \/ /\ part = "media" /\ M!Next
       /\ UNCHANGED <<part, vars, staffVars, newsVars, editorialVars>>
    \/ /\ part = "news" /\ F!Next
       /\ UNCHANGED <<part, vars, staffVars, mediaVars, editorialVars>>
    \/ /\ part = "editorial" /\ E!Next
       /\ UNCHANGED <<part, vars, staffVars, mediaVars, newsVars>>

ServerSpec ==
    ServerInit /\ [][ServerNext]_<<part, vars, staffVars, mediaVars, newsVars, editorialVars>>

-------------------------------------------------------------------------------
(* The components' properties, by their names *)

\* Every variable has its type.
TypesOK == TypeOK /\ S!TypeOK /\ M!TypeOK /\ F!TypeOK /\ E!TypeOK

\* Of Staff.tla: the last admin remains.
AdminRemains == S!AdminRemains

\* Of Staff.tla: an invited member of staff is told the one-time password.
SomebodyKnows == S!SomebodyKnows

\* Of Media.tla: images and their rows come and go together.
RowsAndImagesMatch == M!RowsAndImagesMatch

\* Of FrontPage.tla: the front page is put together of what is live.
FrontPageIsWhole == F!FrontPageIsWhole

\* Of FrontPage.tla: related stories are others, live and apt.
RelatedIsApt == F!RelatedIsApt

\* Of Editorial.tla: one request at a time is the workflow of ArticleWorkflow.tla
\* (E!ImplementsWorkflow; the other components leave its variables alone).
ImplementsWorkflow == E!W!Init /\ [][part = "editorial" => E!W!Next]_(E!W!wvars)
===============================================================================
