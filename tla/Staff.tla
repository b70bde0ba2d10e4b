--------------------------------- MODULE Staff ---------------------------------
(***************************************************************************)
(* Roles, and the staff that an admin invites.  Each request reads the     *)
(* role of its user once, as it begins (JwtStrategy.validate, RolesGuard), *)
(* and is carried out later.  The panel of the users page sends an         *)
(* invitation and shows its answer, if it is still there.                  *)
(***************************************************************************)
EXTENDS Naturals, FiniteSets

CONSTANTS
    Users,          \* who may have an account
    None,
    Choices,        \* roles that are chosen for somebody: bound
    Budgets         \* bound: role changes, invitations, and mails and answers that are lost

Roles == {"USER", "WRITER", "EDITOR", "ADMIN"}

StaffAssumption ==
    /\ None \notin Roles /\ Choices \subseteq Roles
    /\ Budgets \subseteq [{"changes", "invites", "lost"} -> Nat]

VARIABLES
    role,           \* user.role, None without an account
    configured,     \* EmailService.configured; without a key, mails are skipped
    signed,         \* users who have signed in
    requests,       \* requests that the guards let in
    panel,          \* InvitePanel: closed, form, pending or created
    waits,          \* the invitation that the panel waits for
    shown,          \* users whose one-time password the panel has shown
    mailed,         \* users to whom it was mailed
    acted,          \* history: <<role at arrival, role when it was carried out>> of actors
    made,           \* history: users whose account is an invitation's
    dropped,        \* history: users whose invitation's answer found no panel, or was lost
    misled,         \* history: users of whom the panel said that a mail is on its way, and none is
    budget          \* what is left of the bound

guards == <<configured, signed, acted>>
invitations == <<panel, waits, shown, mailed, made, dropped, misled>>
vars == <<role, configured, signed, requests, panel, waits, shown, mailed, acted, made, dropped,
          misled, budget>>

\* by: the actor; about: whose role; mail: sendEmail did not throw.
Requests == [op : {"role", "create", "answer"}, by : Users, about : Users, to : Roles,
             had : Roles, mail : BOOLEAN, no : Nat]

TypeOK ==
    /\ role \in [Users -> Roles \cup {None}] /\ signed \subseteq Users
    /\ configured \in BOOLEAN /\ requests \subseteq Requests
    /\ panel \in {"closed", "form", "pending", "created"}
    /\ shown \cup mailed \cup made \cup dropped \cup misled \subseteq Users
    /\ waits \in Nat
    /\ acted \subseteq Roles \X Roles

\* The first admin is made by hand; others have come to be staff or readers.
Init ==
    /\ \E admins \in SUBSET Users, rest \in {"USER", None} :
        /\ admins # {}
        /\ role = [u \in Users |-> IF u \in admins THEN "ADMIN" ELSE rest]
    /\ configured \in BOOLEAN /\ signed = {}
    /\ requests = {} /\ panel = "closed" /\ shown = {} /\ mailed = {} /\ acted = {}
    /\ made = {} /\ dropped = {} /\ misled = {} /\ waits = 0
    /\ budget \in Budgets

-------------------------------------------------------------------------------
(* Guards *)

Spend(what) == budget[what] > 0 /\ budget' = [budget EXCEPT ![what] = @ - 1]

SignIn(u) ==
    /\ role[u] # None /\ u \notin signed
    /\ signed' = signed \cup {u}
    /\ UNCHANGED <<role, configured, requests, acted, budget, invitations>>

\* JwtAuthGuard and RolesGuard with MinRole(ADMIN): the role is read from the table.
LetsIn(u) == u \in signed /\ role[u] = "ADMIN"

\* Mutant: without the refusal of one's own role.
UpdateRoleOfAnyone(u, v, to) ==
    /\ LetsIn(u) /\ role[v] # None /\ Spend("changes")
    /\ requests' = requests \cup {[op |-> "role", by |-> u, about |-> v, to |-> to,
                                   had |-> role[u], mail |-> FALSE, no |-> 0]}
    /\ UNCHANGED <<role, guards, invitations>>

UpdateRole(u, v, to) ==
    /\ LetsIn(u) /\ u # v /\ role[v] # None /\ Spend("changes")
    /\ requests' = requests \cup {[op |-> "role", by |-> u, about |-> v, to |-> to,
                                   had |-> role[u], mail |-> FALSE, no |-> 0]}
    /\ UNCHANGED <<role, guards, invitations>>

Carry(q) ==
    /\ q.op = "role"
    /\ role' = [role EXCEPT ![q.about] = q.to]
    /\ acted' = acted \cup {<<q.had, role[q.by]>>}
    /\ requests' = requests \ {q}
    /\ UNCHANGED <<configured, signed, budget, invitations>>

-------------------------------------------------------------------------------
(* Invitations *)

OpenPanel ==
    /\ panel = "closed" /\ panel' = "form"
    /\ UNCHANGED <<role, guards, requests, waits, shown, mailed, made, dropped, misled, budget>>

\* Cancel, also while the request is on its way, and Done.
ClosePanel ==
    /\ panel # "closed" /\ panel' = "closed" /\ waits' = 0
    /\ UNCHANGED <<role, guards, requests, shown, mailed, made, dropped, misled, budget>>

Submit(u, v, to) ==
    /\ panel = "form" /\ LetsIn(u) /\ Spend("invites")
    /\ panel' = "pending" /\ waits' = budget.invites
    /\ requests' = requests \cup {[op |-> "create", by |-> u, about |-> v, to |-> to,
                                   had |-> role[u], mail |-> FALSE, no |-> budget.invites]}
    /\ UNCHANGED <<role, guards, shown, mailed, made, dropped, misled>>

\* The account, then the mail with its one-time password: it is sent, or it fails, or
\* it is skipped, which nobody can tell from its being sent.
Create(q, mail) ==
    /\ q.op = "create" /\ role[q.about] = None
    /\ mail \/ configured
    /\ role' = [role EXCEPT ![q.about] = q.to]
    /\ made' = made \cup {q.about}
    /\ mailed' = IF mail /\ configured THEN mailed \cup {q.about} ELSE mailed
    /\ IF mail THEN UNCHANGED budget ELSE Spend("lost")
    /\ requests' = (requests \ {q}) \cup {[q EXCEPT !.op = "answer", !.mail = mail]}
    /\ acted' = acted \cup {<<q.had, role[q.by]>>}
    /\ UNCHANGED <<configured, signed, panel, waits, shown, dropped, misled>>

\* The form is there again once its request is refused or times out.
Again(q) ==
    IF waits = q.no THEN panel' = "form" /\ waits' = 0 ELSE UNCHANGED <<panel, waits>>

\* "Email already in use"
CreateRefused(q) ==
    /\ q.op = "create" /\ role[q.about] # None
    /\ requests' = requests \ {q} /\ Again(q)
    /\ UNCHANGED <<role, guards, shown, mailed, made, dropped, misled, budget>>

\* Mutant: the panel does not look whether the mail was sent.
AnswerOnly(q) ==
    /\ q.op = "answer"
    /\ requests' = requests \ {q}
    /\ IF waits = q.no
       THEN panel' = "created" /\ waits' = 0 /\ UNCHANGED <<shown, dropped>>
       ELSE dropped' = dropped \cup {q.about} /\ UNCHANGED <<panel, waits, shown>>
    /\ UNCHANGED <<role, guards, mailed, made, misled, budget>>

\* The answer has the one-time password if the mail failed.  A panel that was closed
\* meanwhile, or opened anew, does not get it.
Answer(q) ==
    /\ q.op = "answer"
    /\ requests' = requests \ {q}
    /\ IF waits = q.no
       THEN /\ panel' = "created" /\ waits' = 0
            /\ shown' = IF q.mail THEN shown ELSE shown \cup {q.about}
            /\ misled' = IF q.mail /\ q.about \notin mailed THEN misled \cup {q.about} ELSE misled
            /\ UNCHANGED dropped
       ELSE dropped' = dropped \cup {q.about} /\ UNCHANGED <<panel, waits, shown, misled>>
    /\ UNCHANGED <<role, guards, mailed, made, budget>>

\* A retry of a request that timed out is refused.
AnswerLost(q) ==
    /\ q.op = "answer" /\ Spend("lost")
    /\ requests' = requests \ {q} /\ Again(q)
    /\ dropped' = dropped \cup {q.about}
    /\ UNCHANGED <<role, guards, shown, mailed, made, misled>>

Next ==
    \/ \E u \in Users : SignIn(u)
    \/ \E u, v \in Users, to \in Choices : UpdateRole(u, v, to)
    \/ \E q \in requests : Carry(q) \/ CreateRefused(q) \/ Answer(q) \/ AnswerLost(q)
    \/ \E q \in requests, mail \in BOOLEAN : Create(q, mail)
    \/ OpenPanel \/ ClosePanel
    \/ \E u, v \in Users, to \in Choices \cap {"WRITER", "EDITOR"} : Submit(u, v, to)

Spec == Init /\ [][Next]_vars

-------------------------------------------------------------------------------
(* Properties *)

\* "You cannot change your own role": the studio loses its last admin only through a
\* request that was under way while its actor was demoted.
AdminRemains == (\E u \in Users : role[u] = "ADMIN") \/ (\E a \in acted : a[2] # "ADMIN")

\* "Share this one-time password with them - it won't be shown again": an invited
\* member of staff got it by mail or an admin saw it, unless the panel was closed, or
\* its request timed out, before the answer came.  A backend that sends no mail for
\* want of a key is the exception that the code makes: there, and only there, the panel
\* says "An invite with their one-time password is on its way" and nobody has it.
SomebodyKnows ==
    /\ \A u \in made : \/ u \in mailed \cup shown \cup dropped \cup misled
                       \/ \E q \in requests : q.op = "answer" /\ q.about = u
    /\ configured => misled = {}
===============================================================================
