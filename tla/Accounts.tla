------------------------------- MODULE Accounts -------------------------------
(***************************************************************************)
(* The users table and the mails about it: registration, verification of   *)
(* the address, password links, password changes, Google sign-in and staff *)
(* invitations (AuthService, and createStaff of StudioService).            *)
(*                                                                         *)
(* A request reads, awaits, and writes by id what it decided on the row it *)
(* read.  A request that is refused when it reads leaves nothing and is no *)
(* step here.  Session tokens are in Sessions.tla.                         *)
(***************************************************************************)
EXTENDS Naturals, FiniteSets

CONSTANTS
    Addresses,      \* mail addresses; an account never changes its own
    Names,          \* usernames that people ask for
    None,
    NameOf,         \* what uniqueUsernameFromEmail makes of an address
    Budgets         \* bound: requests of each kind and faults, in one behaviour

Kinds == {"register", "resend", "verify", "forgot", "reset", "change", "google", "staff"}

ASSUME AccountsAssumption ==
    /\ None \notin Names /\ \A n \in Names \cup {None} : n \notin Nat
    /\ NameOf \in [Addresses -> Names]
    /\ Budgets \subseteq [Kinds \cup {"fault"} -> Nat]

VARIABLES
    account,        \* the users table, by address
    configured,     \* EmailService.configured; without a key, mails are skipped
    mailbox,        \* mails that arrived, for good
    expired,        \* codes of links that are too old
    calls,          \* requests between two awaits
    last,           \* requests so far; the number of a request names its token or password
    told,           \* history: the password of each address that its setter was told of
    newest,         \* history: the last link stored for an address, by kind
    used,           \* history: <<link, request>> of the links that did their work
    proof,          \* history: <<address, how it came to count as verified>>
    met,            \* history: addresses with two requests in progress at once
    cut,            \* history: addresses with a request or a mail that failed
    budget          \* what is left of the bound

history == <<told, newest, used, proof, cut>>
vars == <<account, configured, mailbox, expired, calls, last, history, met, budget>>

\* 0 is null in password and the tokens.  once: the one-time password that a staff
\* account was created with.
Rows == [name : Names \cup Nat \cup {None}, password : Nat, once : Nat, forced : BOOLEAN,
         verified : BOOLEAN, google : BOOLEAN, vtoken : Nat, rtoken : Nat]

NoAccount == [name |-> None, password |-> 0, once |-> 0, forced |-> FALSE,
              verified |-> FALSE, google |-> FALSE, vtoken |-> 0, rtoken |-> 0]

\* A link or a one-time password; code is the request that made it.
Mails == [to : Addresses, kind : {"verify", "reset", "invite"}, code : Nat]

\* A link was opened where the address is read; Google said that the address is verified;
\* an account that was there was linked to Google's, which did not say so.
Proofs == {"link", "google", "linked"}

\* pick: Google's account needs a name.  create, link, issue, reissue, confirm,
\* write: the call to the database is next.  mail: the call to the mail service.
\* answer: done but for the answer.
Calls == [id : Nat, op : Kinds, at : Addresses, name : Names \cup Nat \cup {None}, link : Nat,
          pc : {"pick", "create", "link", "issue", "reissue", "confirm", "write", "mail", "answer"}]

TypeOK ==
    /\ account \in [Addresses -> Rows]
    /\ configured \in BOOLEAN
    /\ mailbox \subseteq Mails /\ expired \subseteq Nat
    /\ calls \subseteq Calls /\ last \in Nat
    /\ told \in [Addresses -> Nat]
    /\ newest \in [{"verify", "reset"} -> [Addresses -> Nat]]
    /\ used \subseteq Nat \X Nat
    /\ proof \subseteq Addresses \X Proofs /\ met \subseteq Addresses /\ cut \subseteq Addresses

Init ==
    /\ account = [a \in Addresses |-> NoAccount]
    /\ configured \in BOOLEAN
    /\ mailbox = {} /\ expired = {} /\ calls = {} /\ last = 0
    /\ told = [a \in Addresses |-> 0]
    /\ newest = [k \in {"verify", "reset"} |-> [a \in Addresses |-> 0]]
    /\ used = {} /\ proof = {} /\ met = {} /\ cut = {}
    /\ budget \in Budgets

-------------------------------------------------------------------------------
(* Requests arrive and read *)

Exists(a) == account[a].name # None

Taken(name) == \E a \in Addresses : account[a].name = name

Spend(what) == budget[what] > 0 /\ budget' = [budget EXCEPT ![what] = @ - 1]

\* A request that goes on after its first read, about the account of a.
Receive(op, a, name, link, pc) ==
    /\ Spend(op)
    /\ last' = last + 1
    /\ calls' = calls \cup {[id |-> last + 1, op |-> op, at |-> a, name |-> name,
                             link |-> link, pc |-> pc]}
    /\ met' = IF \E c \in calls : c.at = a THEN met \cup {a} ELSE met
    /\ UNCHANGED <<account, configured, mailbox, expired>>

Register(a, name) ==
    /\ ~Exists(a) /\ ~Taken(name)
    /\ Receive("register", a, name, 0, "create") /\ UNCHANGED history

CreateStaff(a, name) ==
    /\ ~Exists(a) /\ ~Taken(name)
    /\ Receive("staff", a, name, 0, "create") /\ UNCHANGED history

ResendVerification(a) ==
    /\ Exists(a) /\ ~account[a].verified
    /\ Receive("resend", a, None, 0, "issue") /\ UNCHANGED history

ForgotPassword(a) ==
    /\ Exists(a)
    /\ Receive("forgot", a, None, 0, "reissue") /\ UNCHANGED history

\* The link of a mail is opened; a is the account that has its token.
VerifyEmail(mail, a) ==
    /\ mail.kind = "verify" /\ mail.code = account[a].vtoken /\ mail.code \notin expired
    /\ Receive("verify", a, None, mail.code, "confirm")
    /\ proof' = proof \cup {<<mail.to, "link">>}
    /\ UNCHANGED <<told, newest, used, cut>>

ResetPassword(mail, a) ==
    /\ mail.kind = "reset" /\ mail.code = account[a].rtoken /\ mail.code \notin expired
    /\ Receive("reset", a, None, mail.code, "write") /\ UNCHANGED history

\* With the current password.
ChangePassword(a) ==
    /\ Exists(a) /\ account[a].password # 0
    /\ Receive("change", a, None, 0, "write") /\ UNCHANGED history

\* An account that Google knows already is only signed in.
LoginWithGoogle(a) ==
    /\ ~account[a].google
    /\ Receive("google", a, None, 0, IF Exists(a) THEN "link" ELSE "pick")
    /\ UNCHANGED history

-------------------------------------------------------------------------------
(* They go on *)

\* Call c writes row to its account and goes on at pc.
Write(c, row, pc) ==
    /\ account' = [account EXCEPT ![c.at] = row]
    /\ calls' = (calls \ {c}) \cup {[c EXCEPT !.pc = pc]}
    /\ UNCHANGED <<configured, mailbox, expired, last, met, budget>>

\* Call c is over.
Finish(c) ==
    /\ calls' = calls \ {c}
    /\ UNCHANGED <<account, configured, expired, last, met>>

\* uniqueUsernameFromEmail: with a random suffix when the name is taken.
Pick(c) ==
    /\ c.pc = "pick"
    /\ calls' = (calls \ {c}) \cup {[c EXCEPT !.pc = "create",
            !.name = IF Taken(NameOf[c.at]) THEN c.id ELSE NameOf[c.at]]}
    /\ UNCHANGED <<account, configured, mailbox, expired, last, history, met, budget>>

\* Mutant: users begin as verified.
NewRowVerified(c, v) ==
    CASE c.op = "register" -> [NoAccount EXCEPT !.name = c.name, !.password = c.id, !.verified = TRUE]
      [] c.op = "google"   -> [NoAccount EXCEPT !.name = c.name, !.google = TRUE, !.verified = v]
      [] c.op = "staff"    -> [NoAccount EXCEPT !.name = c.name, !.password = c.id, !.once = c.id,
                                                !.forced = TRUE, !.verified = TRUE]

\* What each kind of account begins as; v is what Google says of the address.
NewRow(c, v) ==
    CASE c.op = "register" -> [NoAccount EXCEPT !.name = c.name, !.password = c.id]
      [] c.op = "google"   -> [NoAccount EXCEPT !.name = c.name, !.google = TRUE, !.verified = v]
      [] c.op = "staff"    -> [NoAccount EXCEPT !.name = c.name, !.password = c.id, !.once = c.id,
                                                !.forced = TRUE, !.verified = TRUE]

\* The unique columns decide between requests that found nothing.
Create(c) ==
    /\ c.pc = "create"
    /\ ~Exists(c.at) /\ ~Taken(c.name)
    /\ \E v \in BOOLEAN :
        /\ Write(c, NewRow(c, v),
                CASE c.op = "register" -> "issue" [] c.op = "staff" -> "mail" [] OTHER -> "answer")
        /\ proof' = IF c.op = "google" /\ v THEN proof \cup {<<c.at, "google">>} ELSE proof
    /\ UNCHANGED <<told, newest, used, cut>>

CreateRefused(c) ==
    /\ c.pc = "create"
    /\ Exists(c.at) \/ Taken(c.name)
    /\ Finish(c) /\ UNCHANGED <<mailbox, history, budget>>

\* Mutant: an account that is linked loses its password.
LinkOnly(c) ==
    /\ c.pc = "link"
    /\ Write(c, [account[c.at] EXCEPT !.google = TRUE, !.verified = TRUE, !.password = 0], "answer")
    /\ \E v \in BOOLEAN : proof' = proof \cup {<<c.at, IF v THEN "google" ELSE "linked">>}
    /\ UNCHANGED <<told, newest, used, cut>>

\* The address counts as verified whatever Google says of it (v).
Link(c) ==
    /\ c.pc = "link"
    /\ Write(c, [account[c.at] EXCEPT !.google = TRUE, !.verified = TRUE], "answer")
    /\ \E v \in BOOLEAN : proof' = proof \cup {<<c.at, IF v THEN "google" ELSE "linked">>}
    /\ UNCHANGED <<told, newest, used, cut>>

\* Mutant: the hash of a token that was not handed on.
IssueUndefined(c) ==
    /\ c.pc = "issue"
    /\ Write(c, [account[c.at] EXCEPT !.vtoken = None], "mail")
    /\ newest' = [newest EXCEPT !["verify"][c.at] = c.id]
    /\ UNCHANGED <<told, used, proof, cut>>

\* issueVerificationEmail stores the token of the link, then mails the link.
Issue(c) ==
    /\ c.pc = "issue"
    /\ Write(c, [account[c.at] EXCEPT !.vtoken = c.id], "mail")
    /\ newest' = [newest EXCEPT !["verify"][c.at] = c.id]
    /\ UNCHANGED <<told, used, proof, cut>>

\* forgotPassword does the same.
Reissue(c) ==
    /\ c.pc = "reissue"
    /\ Write(c, [account[c.at] EXCEPT !.rtoken = c.id], "mail")
    /\ newest' = [newest EXCEPT !["reset"][c.at] = c.id]
    /\ UNCHANGED <<told, used, proof, cut>>

Confirm(c) ==
    /\ c.pc = "confirm"
    /\ Write(c, [account[c.at] EXCEPT !.verified = TRUE, !.vtoken = 0], "answer")
    /\ used' = used \cup {<<c.link, c.id>>}
    /\ UNCHANGED <<told, newest, proof, cut>>

\* Mutant: resetPassword() leaves the token.
SetPasswordKeepsLink(c) ==
    /\ c.pc = "write"
    /\ Write(c, [account[c.at] EXCEPT !.password = c.id, !.forced = @ /\ c.op = "reset"], "answer")
    /\ used' = IF c.op = "reset" THEN used \cup {<<c.link, c.id>>} ELSE used
    /\ UNCHANGED <<told, newest, proof, cut>>

\* The password is hashed and stored; a link is done with, a forced change is made.
SetPassword(c) ==
    /\ c.pc = "write"
    /\ Write(c, IF c.op = "reset"
                THEN [account[c.at] EXCEPT !.password = c.id, !.rtoken = 0]
                ELSE [account[c.at] EXCEPT !.password = c.id, !.forced = FALSE], "answer")
    /\ used' = IF c.op = "reset" THEN used \cup {<<c.link, c.id>>} ELSE used
    /\ UNCHANGED <<told, newest, proof, cut>>

KindOf(c) ==
    CASE c.op = "forgot" -> "reset" [] c.op = "staff" -> "invite" [] OTHER -> "verify"

\* The mail service takes the mail, or EmailService skips it; nobody can tell.
Mail(c) ==
    /\ c.pc = "mail"
    /\ mailbox' = IF configured
                  THEN mailbox \cup {[to |-> c.at, kind |-> KindOf(c), code |-> c.id]} ELSE mailbox
    /\ calls' = (calls \ {c}) \cup {[c EXCEPT !.pc = "answer"]}
    /\ UNCHANGED <<account, configured, expired, last, history, met, budget>>

\* It fails: logged only, except that an admin is told so (see Staff.tla).
MailFailed(c) ==
    /\ c.pc = "mail" /\ configured /\ Spend("fault")
    /\ calls' = (calls \ {c}) \cup {[c EXCEPT !.pc = "answer"]}
    /\ cut' = IF c.op = "staff" THEN cut ELSE cut \cup {c.at}
    /\ UNCHANGED <<account, configured, mailbox, expired, last, told, newest, used, proof, met>>

Answer(c) ==
    /\ c.pc = "answer"
    /\ Finish(c)
    /\ told' = IF c.op \in {"register", "staff", "reset", "change"}
               THEN [told EXCEPT ![c.at] = c.id] ELSE told
    /\ UNCHANGED <<mailbox, newest, used, proof, cut, budget>>

\* The database fails, or the process ends: the rest of the request does not happen.
Fail(c) ==
    /\ Finish(c) /\ Spend("fault")
    /\ cut' = cut \cup {c.at}
    /\ UNCHANGED <<mailbox, told, newest, used, proof>>

\* A day or an hour goes by.
Expire(mail) ==
    /\ mail.kind # "invite" /\ mail.code \notin expired /\ Spend("fault")
    /\ expired' = expired \cup {mail.code}
    /\ UNCHANGED <<account, configured, mailbox, calls, last, history, met>>

Go(c) ==
    \/ Pick(c) \/ Create(c) \/ CreateRefused(c) \/ Link(c) \/ Issue(c) \/ Reissue(c)
    \/ Confirm(c) \/ SetPassword(c) \/ Mail(c) \/ MailFailed(c) \/ Answer(c) \/ Fail(c)

Next ==
    \/ \E a \in Addresses :
        \/ \E name \in Names : Register(a, name) \/ CreateStaff(a, name)
        \/ ResendVerification(a) \/ ForgotPassword(a) \/ ChangePassword(a) \/ LoginWithGoogle(a)
        \/ \E mail \in mailbox : VerifyEmail(mail, a) \/ ResetPassword(mail, a)
    \/ \E c \in calls : Go(c)
    \/ \E mail \in mailbox : Expire(mail)

Spec == Init /\ [][Next]_vars

-------------------------------------------------------------------------------
(* Properties *)

\* An account counts as verified only if a link was opened where its address is read,
\* Google said that the address is verified, an admin created it, or, the one case
\* without anybody's word, it was there already when somebody signed in with a Google
\* account of its address, of which loginWithGoogle does not ask whether Google has
\* verified it ("linked"): whatever registrations, links and sign-ins overlap.
OwnershipProved ==
    \A a \in Addresses : account[a].verified =>
        account[a].once # 0 \/ \E how \in Proofs : <<a, how>> \in proof

Current(kind, a) == IF kind = "verify" THEN account[a].vtoken ELSE account[a].rtoken

\* A link is good for one use: the newest one works until it is used, it is used
\* once, and the one that works was mailed, unless requests about the account
\* overlapped, or failed.
LinksWorkOnce ==
    \A a \in Addresses \ (met \cup cut) : \A kind \in {"verify", "reset"} :
        LET t == newest[kind][a]
            uses == {u \in used : u[1] = t}
        IN  t # 0 =>
            /\ Current(kind, a) = IF uses = {} THEN t ELSE 0
            /\ Cardinality(uses) <= 1
            /\ configured /\ (\A c \in calls : c.id # t)
                => [to |-> a, kind |-> kind, code |-> t] \in mailbox

\* The password of an account is the last one that whoever set it was told of:
\* other registrations, invitations, links and sign-ins leave it alone.
PasswordAsTold ==
    \A a \in Addresses \ (met \cup cut) :
        (\A c \in calls : c.at # a) => account[a].password = told[a]
===============================================================================
