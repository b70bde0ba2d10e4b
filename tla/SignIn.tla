--------------------------------- MODULE SignIn ---------------------------------
(***************************************************************************)
(* One tab of one person: the pages to register, to sign in, to verify an  *)
(* address and to set passwords, the guards that send people on, and what  *)
(* the tab knows of the person (useMe), with as much of the server as they *)
(* depend on.  Accounts.tla and Sessions.tla have the server in detail.    *)
(*                                                                         *)
(* A navigation inside the site (a link, router.push, router.replace)      *)
(* takes its time, and a later one overrides it; a page load begins anew.  *)
(* What a render causes (its effects) comes before the next click.         *)
(***************************************************************************)
EXTENDS Naturals

CONSTANT Budgets        \* bound: submissions, links, visits, time, others' doings and losses

SignInAssumption ==
    Budgets \subseteq [submits : Nat, links : Nat, visits : Nat, aging : Nat, elsewhere : Nat, lost : Nat]

VARIABLES
    account,        \* the person's row
    session,        \* the tab's cookies: none, live, or dead (the server accepts them no more)
    me, asking,     \* the cached answer of /auth/me, and the request for it
    where, going,   \* the page, and the page that the last navigation is for
    due,            \* effects of the last render are to come
    says,           \* what a page says of its request
    calls,          \* the other requests
    bound,          \* history: where the person wants to be
    ahead,          \* history: the page after a registration, or one that a page to sign in pushed
                    \* and that came before its guard could send the person elsewhere
    learnt,         \* history: the tab learnt by the way that the password was, or was not, set
    stale,          \* history: what the tab knows was old when it learnt it, or got old elsewhere
    budget          \* what is left of the bound

vars == <<account, session, me, asking, where, going, due, says, calls, bound, ahead, learnt, stale,
          budget>>

SignIns == {"login", "register", "google"}
Ops == SignIns \cup {"change", "logout", "verify", "resend", "forgot", "reset"}

\* Where a callbackUrl may lead.
Goals == {"home", "article", "studio", "change"}

\* A page with the goal of its callbackUrl.
Pages == [at : Goals \cup {"login", "register", "forgot", "reset", "verify", "sent"}, to : Goals]
To(at, goal) == [at |-> at, to |-> goal]
Page(at) == To(at, "home")

Rows == [made : BOOLEAN, forced : BOOLEAN, verified : BOOLEAN]
Row(forced, verified) == [made |-> TRUE, forced |-> forced, verified |-> verified]
NoRow == [made |-> FALSE, forced |-> FALSE, verified |-> FALSE]

\* unknown: no answer yet, or not asked; nobody: refused.
Known == [at : {"unknown", "nobody", "user"}, forced : BOOLEAN, verified : BOOLEAN]
Nothing(at) == [at |-> at, forced |-> FALSE, verified |-> FALSE]
Unknown == Nothing("unknown")
User(row) == [at |-> "user", forced |-> row.forced, verified |-> row.verified]

\* right: password, token or name are; here: the page that asked is still there.
Calls == [op : Ops, right : BOOLEAN, pc : {"sent", "granted", "refused"}, here : BOOLEAN, user : Known]
Call(op, right) == [op |-> op, right |-> right, pc |-> "sent", here |-> TRUE, user |-> Unknown]

NotAsking == [pc |-> "none", user |-> Unknown]
Sent == [pc |-> "sent", user |-> Unknown]

TypeOK ==
    /\ account \in Rows /\ session \in {"none", "live", "dead"}
    /\ me \in Known /\ asking \in [pc : {"none", "sent", "served"}, user : Known]
    /\ where \in Pages /\ going \in Pages /\ bound \in Pages
    /\ says \in {"", "verifying", "verified", "failed", "sent"}
    /\ calls \subseteq Calls
    /\ due \in BOOLEAN /\ ahead \in Pages /\ learnt \in BOOLEAN /\ stale \in BOOLEAN

Spend(what) == budget[what] > 0 /\ budget' = [budget EXCEPT ![what] = @ - 1]

Marker == session # "none"              \* hasSessionMarker
Loading == me.at = "unknown" /\ asking.pc # "none"
SignedIn == me.at = "user"
Guest == ~Loading /\ ~SignedIn

Init ==
    /\ account \in {NoRow, Row(FALSE, FALSE), Row(TRUE, TRUE)}
    /\ session \in IF account.made THEN {"none", "live", "dead"} ELSE {"none"}
    /\ me = Unknown /\ asking = IF Marker THEN Sent ELSE NotAsking
    /\ where = Page("home") /\ going = where /\ bound = where
    /\ due = TRUE /\ says = "" /\ calls = {} 
    /\ ahead = where /\ learnt = FALSE /\ stale = FALSE
    /\ budget \in Budgets

-------------------------------------------------------------------------------
(* Getting about *)

\* Page p is loaded, with the requests that it begins with.
Load(p, begins) ==
    /\ where' = p /\ going' = p /\ bound' = p
    /\ me' = Unknown /\ asking' = IF Marker THEN Sent ELSE NotAsking
    /\ due' = TRUE /\ calls' = begins
    /\ says' = IF p.at = "verify" THEN "verifying" ELSE ""
    /\ ahead' = p /\ learnt' = FALSE /\ stale' = FALSE
    /\ UNCHANGED <<account, session>>

\* An address is typed, or a link in a mail opened; the mail's token may be old.
Visit(p, right) ==
    /\ ~due /\ Spend("visits")
    /\ Load(p, IF p.at = "verify" THEN {Call("verify", right)} ELSE {})

\* What the page links to; the pages of guests and of the studio are blank for others.
Links ==
    CASE where.at \in {"home", "article"} -> {Page("home"), Page("article")} \cup
            (IF SignedIn THEN {Page("studio")} ELSE IF Guest THEN {To("login", where.at)} ELSE {})
      [] where.at = "login"    -> IF Guest THEN {Page(p) : p \in {"register", "forgot", "home"}} ELSE {}
      [] where.at = "register" -> IF Guest THEN {Page(p) : p \in {"login", "home"}} ELSE {}
      [] where.at = "studio"   -> IF SignedIn THEN {Page("home")} ELSE {}
      [] where.at = "verify"   -> CASE says = "verified" -> {Page("home")}
                                    [] says = "failed" -> {Page("login")} [] OTHER -> {}
      [] where.at \in {"forgot", "reset"} -> {Page("login")}
      [] where.at \in {"sent", "change"}  -> {Page("home")}

Click(p) ==
    /\ ~due /\ p \in Links \ {where} /\ Spend("links")
    /\ going' = p /\ bound' = p /\ ahead' = p
    /\ UNCHANGED <<account, session, me, asking, where, due, says, calls, learnt, stale>>

\* Mutant: whoever must set a password loses the goal.
SentOnPlain ==
    CASE where.at \in {"login", "register"} /\ SignedIn ->
            IF me.forced THEN Page("change") ELSE Page(where.to)
      [] where.at = "studio" /\ Guest -> To("login", "studio")
      [] where.at = "studio" /\ SignedIn /\ me.forced -> To("change", "studio")
      [] where.at = "change" /\ Guest -> To("login", "change")
      [] OTHER -> going

\* Where GuestGuard, StudioLayout and ChangePasswordContent send people.
SentOn ==
    CASE where.at \in {"login", "register"} /\ SignedIn ->
            IF me.forced THEN To("change", where.to) ELSE Page(where.to)
      [] where.at = "studio" /\ Guest -> To("login", "studio")
      [] where.at = "studio" /\ SignedIn /\ me.forced -> To("change", "studio")
      [] where.at = "change" /\ Guest -> To("login", "change")
      [] OTHER -> going

\* The new page is there; the guard of the one that is left may not have had its turn.
Arrive ==
    /\ going # where
    /\ where' = going /\ due' = TRUE
    /\ says' = IF {where.at, going.at} = {"home", "article"} THEN says ELSE ""     \* one banner
    /\ calls' = {[c EXCEPT !.here = FALSE] : c \in calls}
    /\ ahead' = IF due /\ where.at \in {"login", "register"} /\ SignedIn /\ going # SentOn
                THEN going ELSE ahead
    /\ UNCHANGED <<account, session, me, asking, going, bound, learnt, stale, budget>>

\* A link that was followed meanwhile is overridden.  From the password page guests are
\* sent without its callbackUrl: the goal is forgotten.  GuestGuard takes the Google button
\* away, and with it what it would do on an answer.
Guard ==
    /\ due /\ due' = FALSE
    /\ going' = SentOn
    /\ bound' = IF where.at = "change" /\ Guest THEN SentOn
                ELSE IF going \notin {where, SentOn} THEN where ELSE bound
    /\ calls' = {IF c.op = "google" /\ where.at \in {"login", "register"} /\ ~Guest
                 THEN [c EXCEPT !.here = FALSE] ELSE c : c \in calls}
    /\ UNCHANGED <<account, session, me, asking, where, says, ahead, learnt, stale, budget>>

-------------------------------------------------------------------------------
(* useMe *)

\* m says otherwise than what is known.
Otherwise(m) == SignedIn /\ m.at = "user" /\ m.forced # me.forced

\* The tab learns m.
Learn(m) ==
    /\ me' = m /\ due' = (due \/ m # me \/ Loading)
    /\ stale' = (m.at = "user" /\ m # User(account))

MeServed ==
    /\ asking.pc = "sent"
    /\ asking' = [pc |-> "served",
                  user |-> IF session = "live" THEN User(account) ELSE Nothing("nobody")]
    /\ UNCHANGED <<account, session, me, where, going, due, says, calls, bound, ahead, learnt, stale, budget>>

\* What is known outlives a refusal.
MeAnswered ==
    /\ asking.pc = "served" /\ asking' = NotAsking
    /\ IF asking.user.at = "nobody" /\ SignedIn
       THEN UNCHANGED <<me, due>> /\ stale' = TRUE ELSE Learn(asking.user)
    /\ learnt' = (learnt \/ Otherwise(asking.user))
    /\ UNCHANGED <<account, session, where, going, says, calls, bound, ahead, budget>>

MeLost ==
    /\ asking.pc # "none" /\ Spend("lost") /\ asking' = NotAsking
    /\ IF SignedIn THEN UNCHANGED <<me, due>> /\ stale' = TRUE ELSE Learn(Nothing("nobody"))
    /\ UNCHANGED <<account, session, where, going, says, calls, bound, ahead, learnt>>

\* A banner or screen that uses the answer is mounted, and the answer is five minutes old,
\* or was a refusal.
AskAgain ==
    /\ where.at \in {"home", "article", "sent"} /\ asking.pc = "none" /\ Marker
    /\ me.at # "unknown" /\ Spend("aging")
    /\ asking' = Sent /\ me' = IF SignedIn THEN me ELSE Unknown
    /\ due' = (due \/ ~SignedIn)
    /\ UNCHANGED <<account, session, where, going, says, calls, bound, ahead, learnt, stale>>

-------------------------------------------------------------------------------
(* The other requests *)

Pending(op) == \E c \in calls : c.op = op /\ c.here

\* Where the page has a form or a button for op.
Offered(op) ==
    CASE op \in {"login", "register"} -> where.at = op /\ Guest
      [] op = "google" -> where.at \in {"login", "register"} /\ Guest
      [] op = "change" -> where.at = "change" /\ ~Guest
      [] op = "logout" -> where.at \in {"home", "article"} /\ SignedIn
      [] op = "reset"  -> where.at = "reset"
      [] op = "forgot" -> where.at = "forgot" /\ says = ""
      [] op = "resend" -> \/ where.at = "sent" /\ says = ""
                          \/ where.at = "verify" /\ says = "failed"
                          \/ where.at \in {"home", "article"} /\ says = "" /\ SignedIn /\ ~me.verified
      [] op = "verify" -> FALSE

Submit(op, right) ==
    /\ ~due /\ Offered(op) /\ ~Pending(op) /\ Spend("submits")
    /\ calls' = calls \cup {Call(op, right)} /\ bound' = going
    /\ UNCHANGED <<account, session, me, asking, where, going, due, says, ahead, learnt, stale>>

\* The rows that a request may leave when it is granted; none if it is refused.
Granted(c) ==
    CASE c.op = "login"    -> {r \in {account} : c.right /\ r.made}
      [] c.op = "register" -> {r \in {Row(FALSE, FALSE)} : c.right /\ ~account.made}
      [] c.op = "google"   -> IF account.made THEN {account, [account EXCEPT !.verified = TRUE]}
                              ELSE {Row(FALSE, v) : v \in BOOLEAN}
      [] c.op = "change"   -> {r \in {[account EXCEPT !.forced = FALSE]} : c.right /\ session = "live"}
      [] c.op = "verify"   -> {r \in {[account EXCEPT !.verified = TRUE]} : c.right /\ r.made}
      [] c.op = "reset"    -> {r \in {account} : c.right /\ r.made}
      [] c.op = "logout"   -> {r \in {account} : session = "live"}
      [] c.op \in {"resend", "forgot"} -> {account}

\* A reset revokes the session, which outlives it by what is left of its fifteen minutes.
Serve(c) ==
    /\ c.pc = "sent"
    /\ IF Granted(c) = {}
       THEN /\ calls' = (calls \ {c}) \cup {[c EXCEPT !.pc = "refused"]}
            /\ UNCHANGED <<account, session>>
       ELSE /\ account' \in Granted(c)
            /\ session' \in IF c.op = "reset" /\ session = "live" THEN {"live", "dead"} ELSE {session}
            /\ calls' = (calls \ {c}) \cup {[c EXCEPT !.pc = "granted", !.user = User(account')]}
    /\ UNCHANGED <<me, asking, where, going, due, says, bound, ahead, learnt, stale, budget>>

\* Where the page goes after it.
Following(c) ==
    CASE c.op = "login" -> IF c.user.forced THEN To("change", where.to) ELSE Page(where.to)
      [] c.op \in {"google", "change"} -> Page(where.to)
      [] c.op = "register" -> Page("sent")
      [] c.op = "reset"    -> Page("login")
      [] OTHER -> going

\* What the tab makes of it: setQueryData, clear, or invalidateQueries, which joins a
\* first request that is under way and replaces any other.
TellTab(c) ==
    CASE c.op \in SignIns \cup {"change"} -> Learn(c.user) /\ UNCHANGED asking
      [] c.op = "logout" -> Learn(Unknown) /\ asking' = NotAsking
      [] c.op = "verify" /\ Marker /\ me.at # "unknown" ->
            /\ asking' = Sent
            /\ IF SignedIn THEN UNCHANGED <<me, due, stale>> ELSE Learn(Unknown)
      [] OTHER -> UNCHANGED <<me, due, stale, asking>>

Said(c, good) ==
    CASE c.here /\ c.op = "verify" -> IF good THEN "verified" ELSE "failed"
      [] c.here /\ c.op \in {"resend", "forgot"} -> "sent"
      [] OTHER -> says

Accept(c) ==
    /\ c.pc = "granted" /\ calls' = calls \ {c}
    /\ session' = CASE c.op \in SignIns -> "live" [] c.op = "logout" -> "none" [] OTHER -> session
    /\ TellTab(c)
    /\ says' = Said(c, TRUE)
    /\ going' = IF c.here THEN Following(c) ELSE going
    /\ bound' = CASE c.here /\ c.op \in SignIns -> where       \* whatever link was followed meanwhile
                  [] c.here /\ c.op \in {"change", "reset"} -> Following(c)
                  [] c.op = "logout" -> going
                  [] OTHER -> bound
    /\ ahead' = IF c.here /\ c.op = "register" THEN Following(c) ELSE ahead
    /\ learnt' = (learnt \/ IF c.op = "change" THEN ~c.here ELSE Otherwise(me'))
    /\ UNCHANGED <<account, where, budget>>

\* A request that failed; logging out clears the cache all the same, and a marker that is
\* still there makes the tab ask anew.
GiveUp(c) ==
    /\ calls' = calls \ {c}
    /\ says' = Said(c, FALSE)
    /\ IF c.op = "logout"
       THEN Learn(Unknown) /\ asking' = (IF Marker THEN Sent ELSE NotAsking) /\ bound' = going
       ELSE /\ stale' = (stale \/ (c.pc = "granted" /\ c.op \in {"change", "verify", "google"}))
            /\ UNCHANGED <<me, due, asking, bound>>
    /\ UNCHANGED <<account, session, where, going, ahead, learnt>>

\* A 401 that a refresh does not help loads the login page, from all pages but three.
Refuse(c) ==
    /\ c.pc = "refused" /\ UNCHANGED budget
    /\ IF c.op \in {"login", "change", "logout"} /\ where.at \notin {"home", "login", "register"}
       THEN Load(Page("login"), {}) ELSE GiveUp(c)

\* The answer does not come, whatever the server made of the request.
Lose(c) == Spend("lost") /\ GiveUp(c)

\* So do the requests of the studio's pages.
StudioRefused ==
    /\ where.at = "studio" /\ SignedIn /\ session # "live" /\ UNCHANGED budget
    /\ Load(Page("login"), {})

\* The person signs in, signs out, sets the password or opens the link in another
\* browser, or the cookies expire.
Elsewhere ==
    /\ Spend("elsewhere")
    /\ \/ session = "live" /\ session' \in {"dead", "none"} /\ UNCHANGED account
       \/ account.made /\ account' \in {[account EXCEPT !.forced = FALSE], [account EXCEPT !.verified = TRUE]}
          /\ account' # account /\ UNCHANGED session
    /\ stale' = TRUE
    /\ UNCHANGED <<me, asking, where, going, due, says, calls, bound, ahead, learnt>>

\* Addresses that are typed, or mailed.
Addresses == {Page("home"), Page("studio"), Page("reset"), Page("verify"), To("change", "home")}

Next ==
    \/ \E p \in Addresses, right \in BOOLEAN : Visit(p, right)
    \/ \E p \in Links : Click(p)
    \/ Arrive \/ Guard \/ MeServed \/ MeAnswered \/ MeLost \/ AskAgain
    \/ \E op \in Ops, right \in BOOLEAN : Submit(op, right)
    \/ \E c \in calls : Serve(c) \/ Accept(c) \/ Refuse(c) \/ Lose(c)
    \/ StudioRefused \/ Elsewhere

Spec == Init /\ [][Next]_vars

-------------------------------------------------------------------------------
(* Properties *)

AtRest == calls = {} /\ going = where /\ ~due /\ asking.pc = "none"

\* The page that the person gets for asking for p.
Due(p, forced) ==
    CASE p.at = "studio" /\ ~SignedIn            -> To("login", "studio")
      [] p.at = "studio" /\ SignedIn /\ forced   -> To("change", "studio")
      [] p.at = "change" /\ ~SignedIn            -> To("login", "change")
      [] p.at \in {"login", "register"} /\ SignedIn ->
            IF forced THEN To("change", p.to) ELSE Page(p.to)
      [] OTHER -> p

\* Whatever guards, answers and clicks overtake one another, the person ends up where they
\* wanted to be, once signed in and with a password of their own where that is asked for:
\* nobody comes to rest in the studio with a one-time password ("must set their own before
\* working", studio/layout.tsx:29), and who signs in with one rests on the page to change it.
\* Two pages come first where they were pushed: the one that says to look for a mail, after
\* registering, and a page of the site that the Google button pushed and that was there before
\* GuestGuard's effect, which "before anything else" (guest-guard.tsx:17) would not have.  And
\* the tab knows the person as the server does, but for what was old when it came, lost, or
\* done elsewhere.
EndsUpRight ==
    AtRest =>
        /\ \/ where = Due(bound, me.forced)
           \/ SignedIn /\ where = ahead /\ where.at \notin {"studio", "login", "register"}
           \/ learnt /\ where = Due(bound, ~me.forced)
        /\ SignedIn /\ session = "live" /\ ~stale => me = User(account)
===============================================================================
