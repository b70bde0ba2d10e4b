----------------------------- MODULE ServerProofs -----------------------------
(***************************************************************************)
(* Proofs about Accounts, Staff, Media and FrontPage.                      *)
(***************************************************************************)
EXTENDS MCServer, FiniteSetTheorems, SequenceTheorems, TLAPS

(***************************************************************************)
(* Accounts, for any addresses, names and budgets.                         *)
(*                                                                         *)
(* A request is a number, and everything a request leaves behind has it:   *)
(* the token in the row, the mail, the password.  TokenInv says that the   *)
(* number of a token leads to one account; PasswordInv that an account     *)
(* without overlaps and failures has the password of the last answer, or   *)
(* that of the one request that is about to answer; LinksInv that no link  *)
(* of two accounts or kinds is the same one, and that the newest of such   *)
(* an account is in its row until it is used.                              *)
(***************************************************************************)

\* Which requests are at which await, and that an account to be created has a name.
Fits(op, name, pc) ==
    /\ pc \in {"pick", "link"} => op = "google"
    /\ pc = "create" => op \in {"register", "staff", "google"} /\ name # None
    /\ pc = "issue" => op \in {"register", "resend"}
    /\ pc = "reissue" => op = "forgot"
    /\ pc = "confirm" => op = "verify"
    /\ pc = "write" => op \in {"change", "reset"}
    /\ pc = "mail" => op \in {"register", "staff", "resend", "forgot"}

\* Requests are told apart by their numbers, and know an account that is there.
CallsInv ==
    /\ \A c \in calls : 0 < c.id /\ c.id <= last /\ Fits(c.op, c.name, c.pc)
    /\ \A c, d \in calls : c.id = d.id => c = d
    /\ \A c \in calls : c.pc \notin {"pick", "create"} => Exists(c.at)

RowInv == \A a \in Addresses : ~Exists(a) => account[a] = NoAccount

\* A number that is a verification token belongs to the account whose mail has it.
TokenInv ==
    /\ \A m \in mailbox : 0 < m.code /\ m.code <= last
    /\ \A a \in Addresses : account[a].vtoken <= last
    /\ \A c \in calls, a \in Addresses : account[a].vtoken = c.id => a = c.at
    /\ \A c \in calls, m \in mailbox : c.pc # "answer" => m.code # c.id
    /\ \A m \in mailbox, a \in Addresses :
            m.kind = "verify" /\ m.code = account[a].vtoken => m.to = a

\* Something is known of how an address came to count as verified.
Vouched(a) == \E how \in Proofs : <<a, how>> \in proof

OwnerInv ==
    /\ OwnershipProved
    /\ \A c \in calls : c.pc = "confirm" => <<c.at, "link">> \in proof

\* Request c has set the password, and its answer is to come.
HasSet(c) ==
    \/ c.op \in {"register", "staff"} /\ c.pc # "create"
    \/ c.op \in {"reset", "change"} /\ c.pc = "answer"

PasswordInv ==
    \A a \in Addresses \ (met \cup cut) :
        /\ \A c, d \in calls : c.at = a /\ d.at = a => c = d
        /\ \A c \in calls : c.at = a =>
                account[a].password = IF HasSet(c) THEN c.id ELSE told[a]
        /\ (\A c \in calls : c.at # a) => account[a].password = told[a]

IInv == TypeOK /\ CallsInv /\ RowInv /\ TokenInv /\ OwnerInv /\ PasswordInv
-------------------------------------------------------------------------------
(* The shapes of steps *)

PCs == {"pick", "create", "link", "issue", "reissue", "confirm", "write", "mail", "answer"}

NewCall(op, a, name, link, pc) ==
    [id |-> last + 1, op |-> op, at |-> a, name |-> name, link |-> link, pc |-> pc]

\* A request has arrived.
Arrives(op, a, name, link, pc) ==
    /\ calls' = calls \cup {NewCall(op, a, name, link, pc)}
    /\ last' = last + 1
    /\ met' = IF \E c \in calls : c.at = a THEN met \cup {a} ELSE met
    /\ UNCHANGED <<account, configured, mailbox, expired, told, newest, used, cut>>
    /\ proof \subseteq proof' /\ proof' \subseteq Addresses \X Proofs
    /\ Fits(op, name, pc) /\ pc \notin {"answer", "mail"} /\ (pc = "issue" => op = "resend")
    /\ pc = "confirm" => <<a, "link">> \in proof'
    /\ pc \notin {"pick", "create"} => Exists(a)

Arrival ==
    \E op \in Kinds, a \in Addresses, name \in Names \cup {None}, link \in Nat, pc \in PCs :
        Arrives(op, a, name, link, pc)

\* Request c has become d.
Becomes(c, d) ==
    /\ calls' = (calls \ {c}) \cup {d} /\ d \in Calls
    /\ d.id = c.id /\ d.op = c.op /\ d.at = c.at /\ d.link = c.link
    /\ Fits(d.op, d.name, d.pc)

LEMMA NamesAreNames ==
  /\ None \notin Nat /\ None \notin Names /\ \A n \in Nat : n # None
  /\ \A a \in Addresses : NameOf[a] \in Names
BY AccountsAssumption

\* A request that begins at one of its awaits arrives.
LEMMA ReceiveArrives ==
  ASSUME NEW op \in Kinds, NEW a \in Addresses, NEW name \in Names \cup {None},
         NEW link \in Nat, NEW pc \in PCs \ {"answer", "mail", "confirm"},
         TypeOK, Fits(op, name, pc), pc = "issue" => op = "resend", pc \notin {"pick", "create"} => Exists(a),
         Receive(op, a, name, link, pc), UNCHANGED history
  PROVE  Arrival
<1>1. Arrives(op, a, name, link, pc)
  BY DEF Receive, Arrives, NewCall, history, TypeOK
<1>2. QED  BY <1>1 DEF Arrival

\* Every request that is received arrives.
LEMMA Receives ==
  ASSUME TypeOK, RowInv, TokenInv, NEW a \in Addresses,
         \/ \E name \in Names : Register(a, name) \/ CreateStaff(a, name)
         \/ ResendVerification(a) \/ ForgotPassword(a) \/ ChangePassword(a) \/ LoginWithGoogle(a)
         \/ \E mail \in mailbox : VerifyEmail(mail, a) \/ ResetPassword(mail, a)
  PROVE  Arrival
<1>n. /\ None \in Names \cup {None} /\ 0 \in Nat
      /\ {"register", "resend", "verify", "forgot", "reset", "change", "google", "staff"} = Kinds
  BY DEF Kinds
<1>0. \A mail \in mailbox : mail.code \in Nat /\ 0 < mail.code /\ mail.to \in Addresses
  BY DEF TypeOK, Mails, TokenInv
<1>t. ~Exists(a) => account[a].vtoken = 0 /\ account[a].rtoken = 0
  BY DEF RowInv, NoAccount
<1>1. ASSUME NEW name \in Names, Register(a, name) PROVE Arrival
  <2>1. Fits("register", name, "create")  BY NamesAreNames DEF Fits
  <2>2. QED  BY <1>1, <1>n, <2>1, ReceiveArrives DEF Register, PCs
<1>2. ASSUME NEW name \in Names, CreateStaff(a, name) PROVE Arrival
  <2>1. Fits("staff", name, "create")  BY NamesAreNames DEF Fits
  <2>2. QED  BY <1>2, <1>n, <2>1, ReceiveArrives DEF CreateStaff, PCs
<1>3. CASE ResendVerification(a)
  <2>1. Fits("resend", None, "issue")  BY DEF Fits
  <2>2. QED  BY <1>3, <1>n, <2>1, ReceiveArrives DEF ResendVerification, PCs
<1>4. CASE ForgotPassword(a)
  <2>1. Fits("forgot", None, "reissue")  BY DEF Fits
  <2>2. QED  BY <1>4, <1>n, <2>1, ReceiveArrives DEF ForgotPassword, PCs
<1>5. CASE ChangePassword(a)
  <2>1. Fits("change", None, "write")  BY DEF Fits
  <2>2. QED  BY <1>5, <1>n, <2>1, ReceiveArrives DEF ChangePassword, PCs
<1>6. CASE LoginWithGoogle(a)
  <2>1. Fits("google", None, "link") /\ Fits("google", None, "pick")  BY DEF Fits
  <2>2. CASE Exists(a)
    BY <1>6, <1>n, <2>1, <2>2, ReceiveArrives DEF LoginWithGoogle, PCs
  <2>3. CASE ~Exists(a)
    BY <1>6, <1>n, <2>1, <2>3, ReceiveArrives DEF LoginWithGoogle, PCs
  <2>4. QED  BY <2>2, <2>3
<1>7. ASSUME NEW mail \in mailbox, VerifyEmail(mail, a) PROVE Arrival
  <2>1. Fits("verify", None, "confirm")  BY DEF Fits
  <2>2. mail.to = a  BY <1>7 DEF VerifyEmail, TokenInv
  <2>3. Exists(a)  BY <1>7, <1>0, <1>t DEF VerifyEmail
  <2>p. /\ proof' = proof \cup {<<a, "link">>} /\ UNCHANGED <<told, newest, used, cut>>
        /\ Receive("verify", a, None, mail.code, "confirm")
    BY <1>7, <2>2 DEF VerifyEmail
  <2>q. <<a, "link">> \in Addresses \X Proofs /\ proof \subseteq Addresses \X Proofs
    BY DEF Proofs, TypeOK
  <2>r. proof \subseteq proof' /\ proof' \subseteq Addresses \X Proofs /\ <<a, "link">> \in proof'
    BY <2>p, <2>q
  <2>4. Arrives("verify", a, None, mail.code, "confirm")
    BY <2>1, <2>3, <2>p, <2>r DEF Receive, Arrives, NewCall
  <2>5. QED  BY <2>4, <1>0, <1>n DEF Arrival, PCs
<1>8. ASSUME NEW mail \in mailbox, ResetPassword(mail, a) PROVE Arrival
  <2>1. Fits("reset", None, "write")  BY DEF Fits
  <2>2. Exists(a)  BY <1>8, <1>0, <1>t DEF ResetPassword
  <2>3. mail.code \in Nat /\ Receive("reset", a, None, mail.code, "write") /\ UNCHANGED history
    BY <1>8, <1>0 DEF ResetPassword
  <2>4. QED  BY <1>n, <2>1, <2>2, <2>3, ReceiveArrives DEF PCs
<1>9. QED  BY <1>1, <1>2, <1>3, <1>4, <1>5, <1>6, <1>7, <1>8
-------------------------------------------------------------------------------
(* What requests write *)

\* The row that request c writes, and what becomes of c: an account keeps its name, what
\* vouched for its address and its password, unless c is the one to change them.
Wrote(c, d, row) ==
    LET old == account[c.at] IN
    /\ Becomes(c, d) /\ d.pc \in {"issue", "mail", "answer"} /\ c.pc \notin {"mail", "answer"}
    /\ row \in Rows /\ account' = [account EXCEPT ![c.at] = row]
    /\ row.name # None
    /\ row.vtoken \in {old.vtoken, 0} \/ (c.pc = "issue" /\ row.vtoken = c.id)
    /\ row.verified => \/ Vouched(c.at)' \/ row.once # 0 \/ c.pc = "confirm"
                       \/ old.verified /\ row.once = old.once
    /\ proof \subseteq proof'
    /\ row.password = IF HasSet(d) /\ ~HasSet(c) THEN c.id ELSE old.password
    /\ HasSet(c) => HasSet(d)
    /\ UNCHANGED <<configured, mailbox, expired, last, met, told, cut>>

\* A request that goes on is of its type.
LEMMA GoesOn ==
  ASSUME TypeOK, NEW c \in calls, NEW pc \in PCs,
         Fits(c.op, c.name, pc), calls' = (calls \ {c}) \cup {[c EXCEPT !.pc = pc]}
  PROVE  /\ Becomes(c, [c EXCEPT !.pc = pc]) /\ [c EXCEPT !.pc = pc].pc = pc
         /\ [c EXCEPT !.pc = pc].op = c.op
<1>1. c \in Calls  BY DEF TypeOK
<1>2. DEFINE d == [c EXCEPT !.pc = pc]
<1>3. /\ d \in Calls /\ d.pc = pc /\ d.id = c.id /\ d.op = c.op /\ d.at = c.at /\ d.link = c.link
      /\ d.name = c.name
  BY <1>1 DEF Calls, PCs
<1>4. QED  BY <1>3 DEF Becomes

LEMMA CreateWrites ==
  ASSUME TypeOK, CallsInv, RowInv, NEW c \in calls, Create(c)
  PROVE  \E d \in Calls, row \in Rows : Wrote(c, d, row)
<1>1. c \in Calls /\ c.pc = "create" /\ c.op \in {"register", "staff", "google"} /\ c.name # None
      /\ c.id \in Nat /\ 0 < c.id /\ c.at \in Addresses /\ c.name \in Names \cup Nat \cup {None}
  BY DEF Create, TypeOK, CallsInv, Fits, Calls
<1>2. PICK v \in BOOLEAN :
        /\ Write(c, NewRow(c, v),
                CASE c.op = "register" -> "issue" [] c.op = "staff" -> "mail" [] OTHER -> "answer")
        /\ proof' = IF c.op = "google" /\ v THEN proof \cup {<<c.at, "google">>} ELSE proof
  BY DEF Create
<1>p. /\ proof \subseteq proof'
      /\ c.op = "google" /\ v => Vouched(c.at)'
  BY <1>2 DEF Vouched, Proofs
<1>3. account[c.at] = NoAccount  BY <1>1 DEF Create, RowInv
<1>4. DEFINE pc == CASE c.op = "register" -> "issue" [] c.op = "staff" -> "mail" [] OTHER -> "answer"
             d == [c EXCEPT !.pc = pc]
             row == NewRow(c, v)
<1>5. pc \in PCs /\ pc \in {"issue", "mail", "answer"} /\ Fits(c.op, c.name, pc)
  BY <1>1 DEF Fits, PCs
<1>6. /\ row \in Rows /\ row.name = c.name /\ row.vtoken = 0
      /\ row.verified => row.once # 0 \/ (c.op = "google" /\ v)
      /\ row.password = IF c.op = "google" THEN 0 ELSE c.id
  <2>1. CASE c.op = "register"  BY <1>1, <2>1 DEF NewRow, NoAccount, Rows
  <2>2. CASE c.op = "google"  BY <1>1, <2>2 DEF NewRow, NoAccount, Rows
  <2>3. CASE c.op = "staff"
    <3>1. row = [name |-> c.name, password |-> c.id, once |-> c.id, forced |-> TRUE,
                 verified |-> TRUE, google |-> FALSE, vtoken |-> 0, rtoken |-> 0]
      BY <2>3 DEF NewRow, NoAccount
    <3> HIDE DEF row
    <3>2. QED  BY <1>1, <2>3, <3>1 DEF Rows
  <2>4. QED  BY <1>1, <2>1, <2>2, <2>3
<1>7. Becomes(c, d) /\ d.pc = pc /\ d.op = c.op
  BY <1>2, <1>5, GoesOn DEF Write
<1>8. /\ account' = [account EXCEPT ![c.at] = row]
      /\ UNCHANGED <<configured, mailbox, expired, last, met, told, cut>>
  BY <1>2 DEF Write, Create, history
<1>9. account[c.at].password = 0 /\ account[c.at].vtoken = 0  BY <1>3 DEF NoAccount
<1> HIDE DEF d, row, pc
<1>10. ~HasSet(c) /\ (HasSet(d) <=> c.op \in {"register", "staff"})
  BY <1>1, <1>5, <1>7 DEF HasSet
<1>11. Wrote(c, d, row)
  BY <1>p, <1>1, <1>5, <1>6, <1>7, <1>8, <1>9, <1>10 DEF Wrote
<1>12. QED  BY <1>11, <1>6, <1>7 DEF Becomes

\* A request about an account that is there goes on at pc, having written row.
LEMMA Rewrites ==
  ASSUME TypeOK, CallsInv, NEW c \in calls, NEW row \in Rows, NEW pc \in {"mail", "answer"},
         c.pc \in {"link", "issue", "reissue", "confirm", "write"}, Fits(c.op, c.name, pc),
         Write(c, row, pc), UNCHANGED <<told, cut>>, proof \subseteq proof',
         row.name = account[c.at].name,
         row.vtoken \in {account[c.at].vtoken, 0} \/ (c.pc = "issue" /\ row.vtoken = c.id),
         Vouched(c.at)' \/ c.pc = "confirm"
            \/ (row.verified = account[c.at].verified /\ row.once = account[c.at].once),
         row.password = IF c.pc = "write" THEN c.id ELSE account[c.at].password,
         c.pc = "write" => pc = "answer"
  PROVE  \E d \in Calls, r \in Rows : Wrote(c, d, r)
<1>1. c \in Calls /\ c.at \in Addresses /\ row.name # None
  BY DEF TypeOK, Calls, CallsInv, Exists
<1>2. DEFINE d == [c EXCEPT !.pc = pc]
<1>n. pc \in PCs /\ calls' = (calls \ {c}) \cup {d}  BY DEF Write, PCs
<1>3. Becomes(c, d) /\ d.pc = pc /\ d.op = c.op
  BY <1>n, GoesOn
<1> HIDE DEF d
<1>4. Fits(c.op, c.name, c.pc)  BY DEF CallsInv
<1>5. /\ c.pc = "write" => ~HasSet(c) /\ HasSet(d)
      /\ c.pc # "write" => (HasSet(c) <=> HasSet(d))
  BY <1>3, <1>4 DEF Fits, HasSet
<1>6. Wrote(c, d, row)
  BY <1>1, <1>3, <1>5 DEF Wrote, Write
<1>7. QED  BY <1>6, <1>3 DEF Becomes

LEMMA OthersWrite ==
  ASSUME TypeOK, CallsInv, NEW c \in calls,
         Link(c) \/ Issue(c) \/ Reissue(c) \/ Confirm(c) \/ SetPassword(c)
  PROVE  \E d \in Calls, row \in Rows : Wrote(c, d, row)
<1>0. /\ c \in Calls /\ c.at \in Addresses /\ c.id \in Nat /\ Fits(c.op, c.name, c.pc)
      /\ account[c.at] \in Rows
  BY DEF TypeOK, Calls, CallsInv
<1>f. Fits(c.op, c.name, "answer")  BY DEF Fits
<1>1. CASE Link(c)
  <2> DEFINE row == [account[c.at] EXCEPT !.google = TRUE, !.verified = TRUE]
  <2>0. Vouched(c.at)'  BY <1>1 DEF Link, Vouched, Proofs
  <2>1. /\ row \in Rows /\ row.name = account[c.at].name
        /\ row.vtoken = account[c.at].vtoken /\ row.password = account[c.at].password
    BY <1>0 DEF Rows
  <2>2. c.pc = "link" /\ Write(c, row, "answer") /\ UNCHANGED <<told, cut>> /\ proof \subseteq proof'
    BY <1>1 DEF Link
  <2> HIDE DEF row
  <2>3. QED  BY <1>f, <2>0, <2>1, <2>2, Rewrites
<1>2. CASE Issue(c)
  <2> DEFINE row == [account[c.at] EXCEPT !.vtoken = c.id]
  <2>1. /\ row \in Rows /\ row.verified = account[c.at].verified /\ row.google = account[c.at].google
        /\ row.once = account[c.at].once /\ row.name = account[c.at].name
        /\ row.vtoken = c.id /\ row.password = account[c.at].password
    BY <1>0 DEF Rows
  <2>2. c.pc = "issue" /\ Write(c, row, "mail") /\ UNCHANGED <<told, cut>> /\ proof \subseteq proof'
    BY <1>2 DEF Issue
  <2>3. Fits(c.op, c.name, "mail")  BY <1>0, <2>2 DEF Fits
  <2> HIDE DEF row
  <2>4. QED  BY <2>1, <2>2, <2>3, Rewrites
<1>3. CASE Reissue(c)
  <2> DEFINE row == [account[c.at] EXCEPT !.rtoken = c.id]
  <2>1. /\ row \in Rows /\ row.verified = account[c.at].verified /\ row.google = account[c.at].google
        /\ row.once = account[c.at].once /\ row.name = account[c.at].name
        /\ row.vtoken = account[c.at].vtoken /\ row.password = account[c.at].password
    BY <1>0 DEF Rows
  <2>2. c.pc = "reissue" /\ Write(c, row, "mail") /\ UNCHANGED <<told, cut>> /\ proof \subseteq proof'
    BY <1>3 DEF Reissue
  <2>3. Fits(c.op, c.name, "mail")  BY <1>0, <2>2 DEF Fits
  <2> HIDE DEF row
  <2>4. QED  BY <2>1, <2>2, <2>3, Rewrites
<1>4. CASE Confirm(c)
  <2> DEFINE row == [account[c.at] EXCEPT !.verified = TRUE, !.vtoken = 0]
  <2>1. /\ row \in Rows /\ row.name = account[c.at].name
        /\ row.vtoken = 0 /\ row.password = account[c.at].password
    BY <1>0 DEF Rows
  <2>2. c.pc = "confirm" /\ Write(c, row, "answer") /\ UNCHANGED <<told, cut>> /\ proof \subseteq proof'
    BY <1>4 DEF Confirm
  <2> HIDE DEF row
  <2>3. QED  BY <1>f, <2>1, <2>2, Rewrites
<1>5. CASE SetPassword(c)
  <2> DEFINE row == IF c.op = "reset"
                    THEN [account[c.at] EXCEPT !.password = c.id, !.rtoken = 0]
                    ELSE [account[c.at] EXCEPT !.password = c.id, !.forced = FALSE]
  <2>1. /\ row \in Rows /\ row.verified = account[c.at].verified /\ row.google = account[c.at].google
        /\ row.once = account[c.at].once /\ row.name = account[c.at].name
        /\ row.vtoken = account[c.at].vtoken /\ row.password = c.id
    BY <1>0 DEF Rows
  <2>2. c.pc = "write" /\ Write(c, row, "answer") /\ UNCHANGED <<told, cut>> /\ proof \subseteq proof'
    BY <1>5 DEF SetPassword
  <2> HIDE DEF row
  <2>3. QED  BY <1>f, <2>1, <2>2, Rewrites
<1>6. QED  BY <1>1, <1>2, <1>3, <1>4, <1>5
-------------------------------------------------------------------------------
(* What else requests do *)

\* Request c becomes d, having picked a name or done with its mail.
Passes(c, d) ==
    /\ Becomes(c, d) /\ (HasSet(c) <=> HasSet(d))
    /\ \/ c.pc = "pick" /\ d.pc = "create" /\ mailbox' = mailbox
       \/ /\ c.pc = "mail" /\ d.pc = "answer"
          /\ mailbox' \in {mailbox, mailbox \cup {[to |-> c.at, kind |-> KindOf(c), code |-> c.id]}}
    /\ cut \subseteq cut'
    /\ UNCHANGED <<account, last, met, told, proof>>

Setters == {"register", "staff", "reset", "change"}

\* Request c is over: refused, cut short or answered.
Leaves(c) ==
    /\ calls' = calls \ {c} /\ cut \subseteq cut'
    /\ \/ told' = told /\ (c.at \in cut' \/ c.pc = "create")
       \/ /\ c.pc = "answer"
          /\ told' = IF c.op \in Setters THEN [told EXCEPT ![c.at] = c.id] ELSE told
    /\ UNCHANGED <<account, mailbox, last, met, proof>>

Stays == UNCHANGED <<account, mailbox, calls, last, met, told, proof, cut>>

LEMMA PickPasses ==
  ASSUME TypeOK, CallsInv, NEW c \in calls, Pick(c)
  PROVE  \E d \in Calls : Passes(c, d)
<1>1. c \in Calls /\ c.pc = "pick" /\ c.op = "google" /\ c.at \in Addresses /\ c.id \in Nat
  BY DEF TypeOK, Calls, CallsInv, Fits, Pick
<1>2. DEFINE n == IF Taken(NameOf[c.at]) THEN c.id ELSE NameOf[c.at]
             d == [c EXCEPT !.pc = "create", !.name = n]
<1>3. n \in Names \cup Nat /\ n # None  BY <1>1, NamesAreNames
<1> HIDE DEF n
<1>4. /\ d \in Calls /\ d.pc = "create" /\ d.name = n /\ d.id = c.id /\ d.op = c.op /\ d.at = c.at
      /\ d.link = c.link
  BY <1>1, <1>3 DEF Calls
<1>5. calls' = (calls \ {c}) \cup {d}  BY DEF Pick, n
<1>6. UNCHANGED <<account, mailbox, last, met, told, proof, cut>>  BY DEF Pick, history
<1> HIDE DEF d
<1>7. Fits(d.op, d.name, d.pc)  BY <1>1, <1>3, <1>4 DEF Fits
<1>8. ~HasSet(c) /\ ~HasSet(d)  BY <1>1, <1>4 DEF HasSet
<1>9. Passes(c, d)  BY <1>1, <1>4, <1>5, <1>6, <1>7, <1>8 DEF Passes, Becomes
<1>10. QED  BY <1>4, <1>9

LEMMA MailPasses ==
  ASSUME TypeOK, CallsInv, NEW c \in calls, Mail(c) \/ MailFailed(c)
  PROVE  \E d \in Calls : Passes(c, d)
<1>1. c.pc = "mail" /\ Fits(c.op, c.name, "mail") /\ Fits(c.op, c.name, "answer")
  BY DEF CallsInv, Fits, Mail, MailFailed
<1>2. DEFINE d == [c EXCEPT !.pc = "answer"]
<1>3. calls' = (calls \ {c}) \cup {d} /\ "answer" \in PCs  BY DEF Mail, MailFailed, PCs
<1>4. Becomes(c, d) /\ d.pc = "answer" /\ d.op = c.op  BY <1>1, <1>3, GoesOn
<1>5. /\ UNCHANGED <<account, last, met, told, proof>> /\ cut \subseteq cut'
      /\ mailbox' \in {mailbox, mailbox \cup {[to |-> c.at, kind |-> KindOf(c), code |-> c.id]}}
  BY DEF Mail, MailFailed, history
<1> HIDE DEF d
<1>6. HasSet(c) <=> HasSet(d)  BY <1>1, <1>4 DEF HasSet, Fits
<1>7. Passes(c, d)  BY <1>1, <1>4, <1>5, <1>6 DEF Passes
<1>8. QED  BY <1>4, <1>7 DEF Becomes

LEMMA OthersLeave ==
  ASSUME NEW c \in calls, CreateRefused(c) \/ Answer(c) \/ Fail(c)
  PROVE  Leaves(c)
<1>1. CASE CreateRefused(c)  BY <1>1 DEF CreateRefused, Leaves, Finish, history
<1>2. CASE Answer(c)  BY <1>2 DEF Answer, Leaves, Finish, Setters
<1>3. CASE Fail(c)  BY <1>3 DEF Fail, Leaves, Finish
<1>4. QED  BY <1>1, <1>2, <1>3

\* Every step is one of these.
LEMMA Shapes ==
  ASSUME TypeOK, CallsInv, RowInv, TokenInv, [Next]_vars
  PROVE  \/ Arrival \/ Stays
         \/ \E c \in calls : \/ \E d \in Calls, row \in Rows : Wrote(c, d, row)
                             \/ \E d \in Calls : Passes(c, d)
                             \/ Leaves(c)
<1>1. ASSUME NEW a \in Addresses,
             \/ \E name \in Names : Register(a, name) \/ CreateStaff(a, name)
             \/ ResendVerification(a) \/ ForgotPassword(a) \/ ChangePassword(a) \/ LoginWithGoogle(a)
             \/ \E mail \in mailbox : VerifyEmail(mail, a) \/ ResetPassword(mail, a)
      PROVE  Arrival
  BY <1>1, Receives
<1>2. ASSUME NEW c \in calls, Go(c)
      PROVE  \/ \E d \in Calls, row \in Rows : Wrote(c, d, row)
             \/ \E d \in Calls : Passes(c, d)
             \/ Leaves(c)
  BY <1>2, CreateWrites, OthersWrite, PickPasses, MailPasses, OthersLeave DEF Go
<1>3. ASSUME NEW mail \in mailbox, Expire(mail) PROVE Stays
  BY <1>3 DEF Expire, Stays, history
<1>4. CASE UNCHANGED vars  BY <1>4 DEF vars, Stays, history
<1>5. QED  BY <1>1, <1>2, <1>3, <1>4 DEF Next

-------------------------------------------------------------------------------
(* The invariants of the requests and their numbers *)

LEMMA InitIInv ==
  ASSUME Init PROVE IInv
<1>1. NoAccount \in Rows /\ NoAccount.vtoken = 0 /\ ~NoAccount.verified /\ NoAccount.password = 0
  BY DEF NoAccount, Rows
<1>2. TypeOK  BY <1>1 DEF Init, TypeOK
<1>3. CallsInv  BY DEF Init, CallsInv
<1>4. RowInv  BY DEF Init, RowInv
<1>5. TokenInv  BY <1>1 DEF Init, TokenInv
<1>6. OwnerInv  BY <1>1 DEF Init, OwnerInv, OwnershipProved
<1>7. PasswordInv  BY <1>1 DEF Init, PasswordInv
<1>8. QED  BY <1>2, <1>3, <1>4, <1>5, <1>6, <1>7 DEF IInv

\* An account that is there stays.
LEMMA Remain ==
  ASSUME TypeOK, CallsInv, NEW c \in calls, NEW d \in Calls, NEW row \in Rows, Wrote(c, d, row)
  PROVE  /\ c.at \in Addresses /\ c.id \in Nat /\ account' \in [Addresses -> Rows]
         /\ account'[c.at] = row /\ Exists(c.at)'
         /\ \A a \in Addresses : a # c.at => account'[a] = account[a]
         /\ \A a \in Addresses : Exists(a) => Exists(a)'
<1>1. c \in Calls /\ c.at \in Addresses /\ c.id \in Nat  BY DEF TypeOK, Calls
<1>2. account' = [account EXCEPT ![c.at] = row] /\ row.name # None  BY DEF Wrote
<1>3. QED  BY <1>1, <1>2 DEF TypeOK, Exists

LEMMA CallsStep ==
  ASSUME TypeOK, CallsInv, RowInv, TokenInv, [Next]_vars
  PROVE  CallsInv'
<1>0. last \in Nat /\ calls \subseteq Calls /\ \A c \in calls : c.id \in Nat
  BY DEF TypeOK, Calls
<1>1. CASE Arrival
  <2>1. PICK op \in Kinds, a \in Addresses, name \in Names \cup {None}, link \in Nat, pc \in PCs :
             Arrives(op, a, name, link, pc)
    BY <1>1 DEF Arrival
  <2> DEFINE n == NewCall(op, a, name, link, pc)
  <2>2. n.id = last + 1 /\ n.op = op /\ n.at = a /\ n.name = name /\ n.pc = pc  BY DEF NewCall
  <2>3. /\ calls' = calls \cup {n} /\ last' = last + 1 /\ account' = account /\ Fits(op, name, pc)
        /\ pc \notin {"pick", "create"} => Exists(a)
    BY <2>1 DEF Arrives
  <2> HIDE DEF n
  <2>4. QED  BY <1>0, <2>2, <2>3 DEF CallsInv, Exists
<1>2. CASE Stays  BY <1>2 DEF Stays, CallsInv, Exists
<1>3. ASSUME NEW c \in calls, NEW d \in Calls, NEW row \in Rows, Wrote(c, d, row) PROVE CallsInv'
  <2>1. /\ calls' = (calls \ {c}) \cup {d} /\ d.id = c.id /\ d.at = c.at /\ last' = last
        /\ Fits(d.op, d.name, d.pc)
    BY <1>3 DEF Wrote, Becomes
  <2>2. Exists(c.at)' /\ \A a \in Addresses : Exists(a) => Exists(a)'  BY <1>3, Remain
  <2>3. \A e \in calls : e.at \in Addresses  BY DEF TypeOK, Calls
  <2>4. \A e \in calls' : 0 < e.id /\ e.id <= last' /\ Fits(e.op, e.name, e.pc)
    BY <2>1 DEF CallsInv
  <2>5. \A e, f \in calls' : e.id = f.id => e = f  BY <2>1 DEF CallsInv
  <2>6. ASSUME NEW e \in calls', e.pc \notin {"pick", "create"} PROVE Exists(e.at)'
    <3>1. CASE e = d  BY <2>1, <2>2, <3>1 DEF Exists
    <3>2. CASE e \in calls  BY <2>2, <2>3, <2>6, <3>2 DEF CallsInv
    <3>3. QED  BY <2>1, <3>1, <3>2
  <2>7. QED  BY <2>4, <2>5, <2>6 DEF CallsInv
<1>4. ASSUME NEW c \in calls, NEW d \in Calls, Passes(c, d) PROVE CallsInv'
  BY <1>0, <1>4 DEF Passes, Becomes, CallsInv, Exists
<1>5. ASSUME NEW c \in calls, Leaves(c) PROVE CallsInv'
  BY <1>5 DEF Leaves, CallsInv, Exists
<1>6. QED  BY <1>1, <1>2, <1>3, <1>4, <1>5, Shapes

LEMMA RowStep ==
  ASSUME TypeOK, CallsInv, RowInv, TokenInv, [Next]_vars
  PROVE  RowInv'
<1>1. CASE account' = account  BY <1>1 DEF RowInv, Exists
<1>2. ASSUME NEW c \in calls, NEW d \in Calls, NEW row \in Rows, Wrote(c, d, row) PROVE RowInv'
  BY <1>2, Remain DEF RowInv, Exists
<1>3. QED  BY <1>1, <1>2, Shapes DEF Arrival, Arrives, Stays, Passes, Leaves

LEMMA TokenStep ==
  ASSUME TypeOK, CallsInv, RowInv, TokenInv, [Next]_vars
  PROVE  TokenInv'
<1>0. /\ last \in Nat /\ calls \subseteq Calls /\ \A c \in calls : c.id \in Nat
      /\ \A m \in mailbox : m.code \in Nat
      /\ \A a \in Addresses : account[a].vtoken \in Nat
  BY DEF TypeOK, Calls, Mails, Rows
<1>1. CASE Arrival
  <2>1. PICK op \in Kinds, a \in Addresses, name \in Names \cup {None}, link \in Nat, pc \in PCs :
             Arrives(op, a, name, link, pc)
    BY <1>1 DEF Arrival
  <2> DEFINE n == NewCall(op, a, name, link, pc)
  <2>2. n.id = last + 1 /\ n.op = op /\ n.at = a /\ n.name = name /\ n.pc = pc  BY DEF NewCall
  <2>3. /\ calls' = calls \cup {n} /\ last' = last + 1 /\ account' = account /\ mailbox' = mailbox
    BY <2>1 DEF Arrives
  <2> HIDE DEF n
  <2>4. QED  BY <1>0, <2>2, <2>3 DEF TokenInv
<1>2. CASE Stays  BY <1>2 DEF Stays, TokenInv
<1>3. ASSUME NEW c \in calls, NEW d \in Calls, NEW row \in Rows, Wrote(c, d, row) PROVE TokenInv'
  <2>1. /\ calls' = (calls \ {c}) \cup {d} /\ d.id = c.id /\ d.at = c.at /\ mailbox' = mailbox
        /\ last' = last /\ c.pc # "answer"
        /\ row.vtoken \in {account[c.at].vtoken, 0} \/ row.vtoken = c.id
    BY <1>3 DEF Wrote, Becomes
  <2>2. /\ c.at \in Addresses /\ account'[c.at] = row
        /\ \A a \in Addresses : a # c.at => account'[a] = account[a]
    BY <1>3, Remain
  <2>3. 0 < c.id /\ c.id <= last  BY DEF CallsInv
  <2>4. \A e \in calls : e.id = c.id => e = c  BY DEF CallsInv
  <2>5. \A m \in mailbox : m.code # c.id  BY <2>1 DEF TokenInv
  <2>6. \A a \in Addresses : \/ account'[a].vtoken \in {account[a].vtoken, 0}
                             \/ a = c.at /\ account'[a].vtoken = c.id
    BY <2>1, <2>2
  <2>7. \A e \in calls' : e \in calls \/ (e = d /\ e.id = c.id /\ e.at = c.at)
    BY <2>1
  <2>8. \A a \in Addresses : account'[a].vtoken <= last'  BY <1>0, <2>1, <2>3, <2>6 DEF TokenInv
  <2>9. \A e \in calls', a \in Addresses : account'[a].vtoken = e.id => a = e.at
    BY <1>0, <2>3, <2>4, <2>6, <2>7 DEF TokenInv, CallsInv
  <2>10. \A e \in calls', m \in mailbox' : e.pc # "answer" => m.code # e.id
    BY <2>1, <2>5, <2>7 DEF TokenInv
  <2>11. \A m \in mailbox', a \in Addresses :
            m.kind = "verify" /\ m.code = account'[a].vtoken => m.to = a
    BY <2>1, <2>5, <2>6 DEF TokenInv
  <2>12. QED  BY <2>1, <2>8, <2>9, <2>10, <2>11 DEF TokenInv
<1>4. ASSUME NEW c \in calls, NEW d \in Calls, Passes(c, d) PROVE TokenInv'
  <2>1. /\ calls' = (calls \ {c}) \cup {d} /\ d.id = c.id /\ d.at = c.at
        /\ last' = last /\ account' = account
    BY <1>4 DEF Passes, Becomes
  <2>2. 0 < c.id /\ c.id <= last /\ \A e \in calls : e.id = c.id => e = c  BY DEF CallsInv
  <2>3. CASE mailbox' = mailbox /\ c.pc # "answer"
    BY <2>1, <2>2, <2>3, <1>0 DEF TokenInv
  <2> DEFINE mail == [to |-> c.at, kind |-> KindOf(c), code |-> c.id]
  <2>4. mail.to = c.at /\ mail.code = c.id  OBVIOUS
  <2> HIDE DEF mail
  <2>5. CASE mailbox' = mailbox \cup {mail} /\ d.pc = "answer"
    BY <2>1, <2>2, <2>4, <2>5, <1>0 DEF TokenInv
  <2>6. QED  BY <1>4, <2>3, <2>5 DEF Passes, mail
<1>5. ASSUME NEW c \in calls, Leaves(c) PROVE TokenInv'
  BY <1>5 DEF Leaves, TokenInv
<1>6. QED  BY <1>1, <1>2, <1>3, <1>4, <1>5, Shapes
LEMMA OwnerStep ==
  ASSUME TypeOK, CallsInv, RowInv, TokenInv, OwnerInv, [Next]_vars
  PROVE  OwnerInv'
<1>1. CASE Arrival
  <2>1. PICK op \in Kinds, a \in Addresses, name \in Names \cup {None}, link \in Nat, pc \in PCs :
             Arrives(op, a, name, link, pc)
    BY <1>1 DEF Arrival
  <2> DEFINE n == NewCall(op, a, name, link, pc)
  <2>2. n.at = a /\ n.pc = pc  BY DEF NewCall
  <2>3. /\ calls' = calls \cup {n} /\ account' = account /\ proof \subseteq proof'
        /\ pc = "confirm" => <<a, "link">> \in proof'
    BY <2>1 DEF Arrives
  <2> HIDE DEF n
  <2>4. QED  BY <2>2, <2>3 DEF OwnerInv, OwnershipProved
<1>2. CASE Stays  BY <1>2 DEF Stays, OwnerInv, OwnershipProved
<1>3. ASSUME NEW c \in calls, NEW d \in Calls, NEW row \in Rows, Wrote(c, d, row) PROVE OwnerInv'
  <2>1. /\ calls' = (calls \ {c}) \cup {d} /\ d.pc # "confirm" /\ proof \subseteq proof'
        /\ row.verified => \/ Vouched(c.at)' \/ row.once # 0 \/ c.pc = "confirm"
                           \/ account[c.at].verified /\ row.once = account[c.at].once
    BY <1>3 DEF Wrote, Becomes
  <2>2. /\ c.at \in Addresses /\ account'[c.at] = row
        /\ \A a \in Addresses : a # c.at => account'[a] = account[a]
    BY <1>3, Remain
  <2>3. \A e \in calls' : e.pc = "confirm" => <<e.at, "link">> \in proof'  BY <2>1 DEF OwnerInv
  <2>4. ASSUME NEW a \in Addresses, account'[a].verified
        PROVE  Vouched(a)' \/ account'[a].once # 0
    <3>0. /\ Vouched(a) => Vouched(a)'
          /\ account[a].verified => Vouched(a) \/ account[a].once # 0
          /\ a = c.at /\ c.pc = "confirm" => Vouched(a)
      BY <2>1 DEF Vouched, OwnerInv, OwnershipProved, Proofs
    <3>1. CASE a = c.at  BY <2>1, <2>2, <2>4, <3>0, <3>1
    <3>2. CASE a # c.at  BY <2>1, <2>2, <2>4, <3>0, <3>2
    <3>3. QED  BY <3>1, <3>2
  <2>5. QED  BY <2>3, <2>4 DEF OwnerInv, OwnershipProved, Vouched
<1>4. ASSUME NEW c \in calls, NEW d \in Calls, Passes(c, d) PROVE OwnerInv'
  <2>1. d.pc # "confirm"  BY <1>4 DEF Passes
  <2>2. QED  BY <1>4, <2>1 DEF Passes, Becomes, OwnerInv, OwnershipProved
<1>5. ASSUME NEW c \in calls, Leaves(c) PROVE OwnerInv'
  BY <1>5 DEF Leaves, OwnerInv, OwnershipProved
<1>6. QED  BY <1>1, <1>2, <1>3, <1>4, <1>5, Shapes

\* PasswordInv for one account.
PasswordOf(a) ==
    /\ \A c, d \in calls : c.at = a /\ d.at = a => c = d
    /\ \A c \in calls : c.at = a => account[a].password = IF HasSet(c) THEN c.id ELSE told[a]
    /\ (\A c \in calls : c.at # a) => account[a].password = told[a]

LEMMA PasswordStep ==
  ASSUME TypeOK, CallsInv, RowInv, TokenInv, PasswordInv, [Next]_vars
  PROVE  PasswordInv'
<1> SUFFICES ASSUME NEW a \in Addresses, a \notin met' \cup cut'
             PROVE  PasswordOf(a)'
  BY DEF PasswordInv, PasswordOf
<1>0. PasswordOf(a) \/ a \in met \cup cut  BY DEF PasswordInv, PasswordOf
<1>1. CASE Arrival
  <2>1. PICK op \in Kinds, b \in Addresses, name \in Names \cup {None}, link \in Nat, pc \in PCs :
             Arrives(op, b, name, link, pc)
    BY <1>1 DEF Arrival
  <2> DEFINE n == NewCall(op, b, name, link, pc)
  <2>2. n.op = op /\ n.at = b /\ n.pc = pc  BY DEF NewCall
  <2>3. /\ calls' = calls \cup {n} /\ account' = account /\ told' = told /\ cut' = cut
        /\ met' = IF \E c \in calls : c.at = b THEN met \cup {b} ELSE met
    BY <2>1 DEF Arrives
  <2>4. Fits(op, name, pc) /\ pc \notin {"answer", "mail"} /\ (pc = "issue" => op = "resend")
    BY <2>1 DEF Arrives
  <2> HIDE DEF n
  <2>5. ~HasSet(n)  BY <2>2, <2>4 DEF HasSet, Fits, PCs
  <2>6. QED  BY <1>0, <2>2, <2>3, <2>5 DEF PasswordOf, HasSet
<1>2. CASE Stays  BY <1>0, <1>2 DEF Stays, PasswordOf, HasSet
<1>3. ASSUME NEW c \in calls, NEW d \in Calls, NEW row \in Rows, Wrote(c, d, row)
      PROVE  PasswordOf(a)'
  <2>1. /\ calls' = (calls \ {c}) \cup {d} /\ d.at = c.at /\ d.id = c.id
        /\ UNCHANGED <<met, cut, told>>
        /\ row.password = IF HasSet(d) /\ ~HasSet(c) THEN c.id ELSE account[c.at].password
        /\ HasSet(c) => HasSet(d)
    BY <1>3 DEF Wrote, Becomes
  <2>2. /\ c.at \in Addresses /\ account'[c.at] = row
        /\ \A b \in Addresses : b # c.at => account'[b] = account[b]
    BY <1>3, Remain
  <2>3. CASE a = c.at  BY <1>0, <2>1, <2>2, <2>3 DEF PasswordOf, HasSet
  <2>4. CASE a # c.at  BY <1>0, <2>1, <2>2, <2>4 DEF PasswordOf, HasSet
  <2>5. QED  BY <2>3, <2>4
<1>4. ASSUME NEW c \in calls, NEW d \in Calls, Passes(c, d) PROVE PasswordOf(a)'
  <2>1. /\ calls' = (calls \ {c}) \cup {d} /\ d.at = c.at /\ d.id = c.id
        /\ UNCHANGED <<account, met, told>> /\ cut \subseteq cut' /\ (HasSet(c) <=> HasSet(d))
    BY <1>4 DEF Passes, Becomes
  <2>2. QED  BY <1>0, <2>1 DEF PasswordOf, HasSet
<1>5. ASSUME NEW c \in calls, Leaves(c) PROVE PasswordOf(a)'
  <2>1. /\ calls' = calls \ {c} /\ cut \subseteq cut' /\ UNCHANGED <<account, met>>
    BY <1>5 DEF Leaves
  <2>2. c \in Calls /\ Fits(c.op, c.name, c.pc) /\ told \in [Addresses -> Nat] /\ c.at \in Addresses
    BY DEF TypeOK, CallsInv, Calls
  <2>3. c.pc = "create" => ~HasSet(c)  BY <2>2 DEF HasSet, Fits
  <2>4. c.pc = "answer" => (HasSet(c) <=> c.op \in Setters)  BY DEF HasSet, Setters
  <2>5. CASE a = c.at
    <3>1. told'[a] = IF HasSet(c) THEN c.id ELSE told[a]
      BY <1>5, <2>2, <2>3, <2>4, <2>5 DEF Leaves
    <3>2. QED  BY <1>0, <2>1, <2>5, <3>1 DEF PasswordOf, HasSet
  <2>6. CASE a # c.at
    <3>1. told'[a] = told[a]  BY <1>5, <2>2, <2>6 DEF Leaves
    <3>2. QED  BY <1>0, <2>1, <2>6, <3>1 DEF PasswordOf, HasSet
  <2>7. QED  BY <2>5, <2>6
<1>6. QED  BY <1>1, <1>2, <1>3, <1>4, <1>5, Shapes
-------------------------------------------------------------------------------
(* Types *)

\* Of what the shapes of steps say nothing.
RestOK ==
    /\ configured \in BOOLEAN /\ mailbox \subseteq Mails /\ expired \subseteq Nat
    /\ told \in [Addresses -> Nat]
    /\ newest \in [{"verify", "reset"} -> [Addresses -> Nat]]
    /\ used \subseteq Nat \X Nat
    /\ proof \subseteq Addresses \X Proofs /\ met \subseteq Addresses /\ cut \subseteq Addresses

LEMMA RestGoes ==
  ASSUME TypeOK, CallsInv, NEW c \in calls, Go(c)
  PROVE  RestOK'
<1>0. /\ c.at \in Addresses /\ c.id \in Nat /\ c.link \in Nat /\ RestOK
  BY DEF TypeOK, Calls, RestOK
<1>1. CASE Pick(c)  BY <1>0, <1>1 DEF Pick, RestOK, history
<1>p. \A how \in Proofs : proof \cup {<<c.at, how>>} \subseteq Addresses \X Proofs
  BY <1>0 DEF RestOK
<1>2. CASE Create(c)
  <2>1. proof' \subseteq Addresses \X Proofs  BY <1>0, <1>2, <1>p DEF Create, RestOK, Proofs
  <2>2. QED  BY <1>0, <1>2, <2>1 DEF Create, Write, RestOK
<1>3. CASE CreateRefused(c)  BY <1>0, <1>3 DEF CreateRefused, Finish, RestOK, history
<1>4. CASE Link(c)
  <2>1. proof' \subseteq Addresses \X Proofs  BY <1>4, <1>p DEF Link, Proofs
  <2>2. QED  BY <1>0, <1>4, <2>1 DEF Link, Write, RestOK
<1>5. CASE Issue(c)
  <2>1. newest' \in [{"verify", "reset"} -> [Addresses -> Nat]]
    BY <1>0, <1>5 DEF Issue, RestOK
  <2>2. QED  BY <1>0, <1>5, <2>1 DEF Issue, Write, RestOK
<1>6. CASE Reissue(c)
  <2>1. newest' \in [{"verify", "reset"} -> [Addresses -> Nat]]
    BY <1>0, <1>6 DEF Reissue, RestOK
  <2>2. QED  BY <1>0, <1>6, <2>1 DEF Reissue, Write, RestOK
<1>7. CASE Confirm(c)  BY <1>0, <1>7 DEF Confirm, Write, RestOK
<1>8. CASE SetPassword(c)  BY <1>0, <1>8 DEF SetPassword, Write, RestOK
<1>9. CASE Mail(c)
  <2>1. [to |-> c.at, kind |-> KindOf(c), code |-> c.id] \in Mails
    BY <1>0 DEF Mails, KindOf
  <2>2. QED  BY <1>0, <1>9, <2>1 DEF Mail, RestOK, history
<1>10. CASE MailFailed(c)  BY <1>0, <1>10 DEF MailFailed, RestOK
<1>11. CASE Answer(c)  BY <1>0, <1>11 DEF Answer, Finish, RestOK
<1>12. CASE Fail(c)  BY <1>0, <1>12 DEF Fail, Finish, RestOK
<1>13. QED
  BY <1>1, <1>2, <1>3, <1>4, <1>5, <1>6, <1>7, <1>8, <1>9, <1>10, <1>11, <1>12 DEF Go

LEMMA TypeStep ==
  ASSUME TypeOK, CallsInv, RowInv, TokenInv, [Next]_vars
  PROVE  TypeOK'
<1>0. RestOK /\ last \in Nat /\ calls \subseteq Calls  BY DEF TypeOK, RestOK
<1>1. RestOK'
  <2>1. CASE Arrival
    <3>1. PICK op \in Kinds, a \in Addresses, name \in Names \cup {None}, link \in Nat, pc \in PCs :
               Arrives(op, a, name, link, pc)
      BY <2>1 DEF Arrival
    <3>2. QED  BY <1>0, <3>1 DEF Arrives, RestOK
  <2>2. ASSUME NEW c \in calls, Go(c) PROVE RestOK'  BY <2>2, RestGoes
  <2>3. ASSUME NEW mail \in mailbox, Expire(mail) PROVE RestOK'
    BY <1>0, <2>3 DEF Expire, RestOK, Mails, history
  <2>4. CASE UNCHANGED vars  BY <1>0, <2>4 DEF vars, history, RestOK
  <2>5. QED  BY <2>1, <2>2, <2>3, <2>4, Receives DEF Next
<1>2. account' \in [Addresses -> Rows] /\ calls' \subseteq Calls /\ last' \in Nat
  <2>1. CASE Arrival
    <3>1. PICK op \in Kinds, a \in Addresses, name \in Names \cup {None}, link \in Nat, pc \in PCs :
               Arrives(op, a, name, link, pc)
      BY <2>1 DEF Arrival
    <3>2. NewCall(op, a, name, link, pc) \in Calls  BY <1>0 DEF NewCall, Calls, PCs
    <3>3. QED  BY <1>0, <3>1, <3>2 DEF Arrives, TypeOK
  <2>2. CASE Stays  BY <2>2 DEF Stays, TypeOK
  <2>3. ASSUME NEW c \in calls, NEW d \in Calls, NEW row \in Rows, Wrote(c, d, row)
        PROVE  account' \in [Addresses -> Rows] /\ calls' \subseteq Calls /\ last' \in Nat
    BY <1>0, <2>3, Remain DEF Wrote, Becomes
  <2>4. ASSUME NEW c \in calls, NEW d \in Calls, Passes(c, d)
        PROVE  account' \in [Addresses -> Rows] /\ calls' \subseteq Calls /\ last' \in Nat
    BY <2>4 DEF Passes, Becomes, TypeOK
  <2>5. ASSUME NEW c \in calls, Leaves(c)
        PROVE  account' \in [Addresses -> Rows] /\ calls' \subseteq Calls /\ last' \in Nat
    BY <2>5 DEF Leaves, TypeOK
  <2>6. QED  BY <2>1, <2>2, <2>3, <2>4, <2>5, Shapes
<1>3. QED  BY <1>1, <1>2 DEF TypeOK, RestOK

-------------------------------------------------------------------------------
(* Links *)

LinkKinds == {"verify", "reset"}

\* The write of request c is to come, and of one that a link is for.
Early(c) == c.pc \notin {"mail", "answer"}

Opens(c) == c.pc = "confirm" \/ (c.pc = "write" /\ c.op = "reset")

KindUsed(c) == IF c.pc = "confirm" THEN "verify" ELSE "reset"

Uses(t) == {u \in used : u[1] = t}

\* No link is newer than the last request, and a request that has not stored its link yet
\* finds it nowhere.
LinksKnown ==
    /\ \A k \in LinkKinds, a \in Addresses : newest[k][a] <= last /\ Current(k, a) <= last
    /\ \A u \in used : u[1] <= last
    /\ \A c \in calls : c.link <= last

Fresh(c) ==
    /\ \A k \in LinkKinds, a \in Addresses : newest[k][a] # c.id /\ Current(k, a) # c.id
    /\ \A u \in used : u[1] # c.id
    /\ \A d \in calls : d.link # c.id

AllFresh == \A c \in calls : Early(c) => Fresh(c)

\* A link leads to one account and does one thing.
LinksApart ==
    /\ \A k, l \in LinkKinds, a, b \in Addresses :
            Current(k, a) # 0 /\ Current(k, a) = newest[l][b] => k = l /\ a = b
    /\ \A c \in calls : Opens(c) =>
            /\ 0 < c.link
            /\ \A l \in LinkKinds, b \in Addresses : c.link = newest[l][b] => l = KindUsed(c) /\ b = c.at
    /\ \A c \in calls, k \in LinkKinds, a \in Addresses : c.id = newest[k][a] =>
            a = c.at /\ k = KindOf(c) /\ c.op # "staff"

\* The mail of the newest link arrived, once its request has gone on.
LinksMailed ==
    \A k \in LinkKinds, a \in Addresses \ cut :
        /\ configured /\ newest[k][a] # 0
        /\ \A c \in calls : c.id = newest[k][a] => c.pc = "answer"
        => [to |-> a, kind |-> k, code |-> newest[k][a]] \in mailbox

\* What the newest link of account a is good for.
LinkGood(k, a) ==
    LET t == newest[k][a] IN
    /\ Uses(t) = {} => Current(k, a) = t
    /\ Uses(t) # {} => Current(k, a) = 0
    /\ t = 0 => Uses(t) = {}
    /\ \A u, v \in Uses(t) : u = v
    /\ \A c \in calls : c.at = a /\ Opens(c) /\ KindUsed(c) = k => c.link = Current(k, a)

LinksInv ==
    /\ LinksKnown /\ AllFresh /\ LinksApart /\ LinksMailed
    /\ \A a \in Addresses \ (met \cup cut), k \in LinkKinds : LinkGood(k, a)

\* How links change: a request comes in, stores a link, is done with one, or leaves them be.
LinkArrives(n) ==
    /\ calls' = calls \cup {n} /\ n \in Calls /\ n.id = last + 1 /\ Early(n) /\ n.link <= last
    /\ IF Opens(n) THEN 0 < n.link /\ n.link = Current(KindUsed(n), n.at) ELSE n.link = 0
    /\ last' = last + 1
    /\ met' = IF \E c \in calls : c.at = n.at THEN met \cup {n.at} ELSE met
    /\ UNCHANGED <<account, configured, mailbox, newest, used, cut>>

LinkStored(c, d, k) ==
    /\ Becomes(c, d) /\ Early(c) /\ ~Opens(c) /\ d.pc = "mail" /\ d.op # "staff" /\ KindOf(d) = k
    /\ \A l \in LinkKinds, a \in Addresses :
            /\ newest'[l][a] = IF l = k /\ a = c.at THEN c.id ELSE newest[l][a]
            /\ Current(l, a)' = IF l = k /\ a = c.at THEN c.id ELSE Current(l, a)
    /\ UNCHANGED <<configured, mailbox, used, last, met, cut>>

LinkDone(c, d) ==
    /\ Becomes(c, d) /\ Opens(c) /\ d.pc = "answer"
    /\ \A l \in LinkKinds, a \in Addresses :
            Current(l, a)' = IF l = KindUsed(c) /\ a = c.at THEN 0 ELSE Current(l, a)
    /\ used' = used \cup {<<c.link, c.id>>}
    /\ UNCHANGED <<configured, mailbox, newest, last, met, cut>>

LinksKept ==
    /\ \A l \in LinkKinds, a \in Addresses : Current(l, a)' = Current(l, a)
    /\ mailbox \subseteq mailbox' /\ cut \subseteq cut'
    /\ UNCHANGED <<configured, newest, used, last, met>>

LinkPasses(c, d) ==
    /\ LinksKept /\ Becomes(c, d) /\ ~Opens(d) /\ (Early(d) => Early(c)) /\ c.pc # "answer"
    /\ c.pc = "mail" /\ configured /\ c.op # "staff" =>
            c.at \in cut' \/ [to |-> c.at, kind |-> KindOf(c), code |-> c.id] \in mailbox'

LinkLeaves(c) ==
    LinksKept /\ calls' = calls \ {c} /\ (c.at \in cut' \/ c.pc \in {"create", "answer"})

LinkShapes ==
    \/ \E n \in Calls : LinkArrives(n)
    \/ \E c \in calls, d \in Calls : \/ \E k \in LinkKinds : LinkStored(c, d, k)
                                     \/ LinkDone(c, d) \/ LinkPasses(c, d)
    \/ \E c \in calls : LinkLeaves(c)
    \/ LinksKept /\ calls' = calls

LEMMA ReceivedLink ==
  ASSUME TypeOK, TokenInv, LinksKnown, NEW op \in Kinds, NEW a \in Addresses,
         NEW name \in Names \cup {None}, NEW link \in Nat, NEW pc \in PCs \ {"mail", "answer"},
         Receive(op, a, name, link, pc), UNCHANGED <<told, newest, used, cut>>, link <= last,
         CASE pc = "confirm" -> 0 < link /\ link = Current("verify", a)
           [] pc = "write" /\ op = "reset" -> 0 < link /\ link = Current("reset", a)
           [] OTHER -> link = 0
  PROVE  LinkShapes
<1> DEFINE n == NewCall(op, a, name, link, pc)
<1>1. /\ n \in Calls /\ n.id = last + 1 /\ n.op = op /\ n.at = a /\ n.link = link /\ n.pc = pc
  BY DEF NewCall, Calls, PCs, TypeOK
<1>2. /\ calls' = calls \cup {n} /\ last' = last + 1
      /\ met' = IF \E c \in calls : c.at = a THEN met \cup {a} ELSE met
      /\ UNCHANGED <<account, configured, mailbox>>
  BY DEF Receive, NewCall
<1> HIDE DEF n
<1>3. LinkArrives(n)  BY <1>1, <1>2 DEF LinkArrives, Early, Opens, KindUsed
<1>4. QED  BY <1>1, <1>3 DEF LinkShapes

LEMMA ArrivingLinks ==
  ASSUME TypeOK, TokenInv, LinksKnown, NEW a \in Addresses,
         \/ \E name \in Names : Register(a, name) \/ CreateStaff(a, name)
         \/ ResendVerification(a) \/ ForgotPassword(a) \/ ChangePassword(a) \/ LoginWithGoogle(a)
         \/ \E mail \in mailbox : VerifyEmail(mail, a) \/ ResetPassword(mail, a)
  PROVE  LinkShapes
<1>n. /\ None \in Names \cup {None} /\ 0 \in Nat /\ last \in Nat /\ 0 <= last
      /\ {"register", "resend", "verify", "forgot", "reset", "change", "google", "staff"} = Kinds
      /\ {"pick", "create", "link", "issue", "reissue", "confirm", "write"} = PCs \ {"mail", "answer"}
  BY DEF Kinds, PCs, TypeOK
<1>0. \A mail \in mailbox : mail.code \in Nat /\ 0 < mail.code /\ mail.code <= last
  BY DEF TypeOK, Mails, TokenInv
<1>1. ASSUME NEW name \in Names, Register(a, name) PROVE LinkShapes
  BY <1>1, <1>n, ReceivedLink DEF Register, history
<1>2. ASSUME NEW name \in Names, CreateStaff(a, name) PROVE LinkShapes
  BY <1>2, <1>n, ReceivedLink DEF CreateStaff, history
<1>3. CASE ResendVerification(a)
  BY <1>3, <1>n, ReceivedLink DEF ResendVerification, history
<1>4. CASE ForgotPassword(a)
  BY <1>4, <1>n, ReceivedLink DEF ForgotPassword, history
<1>5. CASE ChangePassword(a)
  BY <1>5, <1>n, ReceivedLink DEF ChangePassword, history
<1>6. CASE LoginWithGoogle(a)
  <2>1. CASE Exists(a)  BY <1>6, <1>n, <2>1, ReceivedLink DEF LoginWithGoogle, history
  <2>2. CASE ~Exists(a)  BY <1>6, <1>n, <2>2, ReceivedLink DEF LoginWithGoogle, history
  <2>3. QED  BY <2>1, <2>2
<1>7. ASSUME NEW mail \in mailbox, VerifyEmail(mail, a) PROVE LinkShapes
  BY <1>0, <1>7, <1>n, ReceivedLink DEF VerifyEmail, Current
<1>8. ASSUME NEW mail \in mailbox, ResetPassword(mail, a) PROVE LinkShapes
  BY <1>0, <1>8, <1>n, ReceivedLink DEF ResetPassword, history, Current
<1>9. QED  BY <1>1, <1>2, <1>3, <1>4, <1>5, <1>6, <1>7, <1>8

\* What a request writes to its account's row is what becomes of its tokens.
LEMMA WrittenTokens ==
  ASSUME TypeOK, NEW c \in calls, NEW row \in Rows, account' = [account EXCEPT ![c.at] = row]
  PROVE  \A l \in LinkKinds, a \in Addresses :
            Current(l, a)' = IF a # c.at THEN Current(l, a)
                             ELSE IF l = "verify" THEN row.vtoken ELSE row.rtoken
<1>1. c.at \in Addresses  BY DEF TypeOK, Calls
<1>2. QED  BY <1>1 DEF TypeOK, Current, LinkKinds

LEMMA StoringLinks ==
  ASSUME TypeOK, CallsInv, NEW c \in calls, Issue(c) \/ Reissue(c)
  PROVE  \E d \in Calls, k \in LinkKinds : LinkStored(c, d, k)
<1>0. /\ c \in Calls /\ c.at \in Addresses /\ c.id \in Nat /\ account[c.at] \in Rows
      /\ newest \in [LinkKinds -> [Addresses -> Nat]] /\ Fits(c.op, c.name, c.pc)
  BY DEF TypeOK, Calls, CallsInv, LinkKinds
<1>1. c.pc = "issue" \/ c.pc = "reissue"  BY DEF Issue, Reissue
<1>2. Fits(c.op, c.name, "mail") /\ "mail" \in PCs  BY <1>0, <1>1 DEF Fits, PCs
<1> DEFINE d == [c EXCEPT !.pc = "mail"]
<1>3. /\ calls' = (calls \ {c}) \cup {d}
      /\ UNCHANGED <<configured, mailbox, used, last, met, cut>>
  BY DEF Issue, Reissue, Write
<1>4. Becomes(c, d) /\ d.pc = "mail" /\ d.op = c.op  BY <1>2, <1>3, GoesOn
<1> HIDE DEF d
<1>5. Early(c) /\ ~Opens(c)  BY <1>1 DEF Early, Opens
<1>6. CASE Issue(c)
  <2> DEFINE row == [account[c.at] EXCEPT !.vtoken = c.id]
  <2>1. row \in Rows /\ row.vtoken = c.id /\ row.rtoken = account[c.at].rtoken  BY <1>0 DEF Rows
  <2>2. account' = [account EXCEPT ![c.at] = row] /\ c.pc = "issue"  BY <1>6 DEF Issue, Write
  <2> HIDE DEF row
  <2>3. \A l \in LinkKinds, a \in Addresses :
            Current(l, a)' = IF l = "verify" /\ a = c.at THEN c.id ELSE Current(l, a)
    <3>1. \A l \in LinkKinds, a \in Addresses :
              Current(l, a)' = IF a # c.at THEN Current(l, a)
                               ELSE IF l = "verify" THEN row.vtoken ELSE row.rtoken
      BY <2>1, <2>2, WrittenTokens
    <3>2. QED  BY <2>1, <3>1 DEF Current, LinkKinds
  <2>4. \A l \in LinkKinds, a \in Addresses :
            newest'[l][a] = IF l = "verify" /\ a = c.at THEN c.id ELSE newest[l][a]
    <3>1. newest' = [newest EXCEPT !["verify"] = [newest["verify"] EXCEPT ![c.at] = c.id]]
      BY <1>6 DEF Issue
    <3>2. QED  BY <1>0, <3>1 DEF LinkKinds
  <2>5. d.op # "staff" /\ KindOf(d) = "verify"  BY <1>0, <1>4, <2>2 DEF Fits, KindOf
  <2>6. LinkStored(c, d, "verify")  BY <1>3, <1>4, <1>5, <2>3, <2>4, <2>5 DEF LinkStored
  <2>7. QED  BY <1>4, <2>6 DEF Becomes, LinkKinds
<1>7. CASE Reissue(c)
  <2> DEFINE row == [account[c.at] EXCEPT !.rtoken = c.id]
  <2>1. row \in Rows /\ row.rtoken = c.id /\ row.vtoken = account[c.at].vtoken  BY <1>0 DEF Rows
  <2>2. account' = [account EXCEPT ![c.at] = row] /\ c.pc = "reissue"  BY <1>7 DEF Reissue, Write
  <2> HIDE DEF row
  <2>3. \A l \in LinkKinds, a \in Addresses :
            Current(l, a)' = IF l = "reset" /\ a = c.at THEN c.id ELSE Current(l, a)
    <3>1. \A l \in LinkKinds, a \in Addresses :
              Current(l, a)' = IF a # c.at THEN Current(l, a)
                               ELSE IF l = "verify" THEN row.vtoken ELSE row.rtoken
      BY <2>1, <2>2, WrittenTokens
    <3>2. QED  BY <2>1, <3>1 DEF Current, LinkKinds
  <2>4. \A l \in LinkKinds, a \in Addresses :
            newest'[l][a] = IF l = "reset" /\ a = c.at THEN c.id ELSE newest[l][a]
    <3>1. newest' = [newest EXCEPT !["reset"] = [newest["reset"] EXCEPT ![c.at] = c.id]]
      BY <1>7 DEF Reissue
    <3>2. QED  BY <1>0, <3>1 DEF LinkKinds
  <2>5. d.op # "staff" /\ KindOf(d) = "reset"  BY <1>0, <1>4, <2>2 DEF Fits, KindOf
  <2>6. LinkStored(c, d, "reset")  BY <1>3, <1>4, <1>5, <2>3, <2>4, <2>5 DEF LinkStored
  <2>7. QED  BY <1>4, <2>6 DEF Becomes, LinkKinds
<1>8. QED  BY <1>6, <1>7

LEMMA UsingLinks ==
  ASSUME TypeOK, CallsInv, NEW c \in calls, Confirm(c) \/ (SetPassword(c) /\ c.op = "reset")
  PROVE  \E d \in Calls : LinkDone(c, d)
<1>0. c \in Calls /\ c.at \in Addresses /\ c.id \in Nat /\ account[c.at] \in Rows
  BY DEF TypeOK, Calls
<1>1. /\ Opens(c) /\ Fits(c.op, c.name, "answer") /\ "answer" \in PCs
  BY DEF Confirm, SetPassword, Opens, Fits, PCs
<1> DEFINE d == [c EXCEPT !.pc = "answer"]
<1>2. /\ calls' = (calls \ {c}) \cup {d} /\ used' = used \cup {<<c.link, c.id>>}
      /\ UNCHANGED <<configured, mailbox, newest, last, met, cut>>
  BY DEF Confirm, SetPassword, Write
<1>3. Becomes(c, d) /\ d.pc = "answer"  BY <1>1, <1>2, GoesOn
<1> HIDE DEF d
<1>4. \A l \in LinkKinds, a \in Addresses :
            Current(l, a)' = IF l = KindUsed(c) /\ a = c.at THEN 0 ELSE Current(l, a)
  <2>1. CASE Confirm(c)
    <3> DEFINE row == [account[c.at] EXCEPT !.verified = TRUE, !.vtoken = 0]
    <3>1. row \in Rows /\ row.vtoken = 0 /\ row.rtoken = account[c.at].rtoken  BY <1>0 DEF Rows
    <3>2. account' = [account EXCEPT ![c.at] = row] /\ c.pc = "confirm"  BY <2>1 DEF Confirm, Write
    <3> HIDE DEF row
    <3>3. \A l \in LinkKinds, a \in Addresses :
              Current(l, a)' = IF a # c.at THEN Current(l, a)
                               ELSE IF l = "verify" THEN row.vtoken ELSE row.rtoken
      BY <3>1, <3>2, WrittenTokens
    <3>4. QED  BY <3>1, <3>2, <3>3 DEF Current, LinkKinds, KindUsed
  <2>2. CASE SetPassword(c) /\ c.op = "reset"
    <3> DEFINE row == [account[c.at] EXCEPT !.password = c.id, !.rtoken = 0]
    <3>1. row \in Rows /\ row.rtoken = 0 /\ row.vtoken = account[c.at].vtoken  BY <1>0 DEF Rows
    <3>2. account' = [account EXCEPT ![c.at] = row] /\ c.pc = "write"
      BY <2>2 DEF SetPassword, Write
    <3> HIDE DEF row
    <3>3. \A l \in LinkKinds, a \in Addresses :
              Current(l, a)' = IF a # c.at THEN Current(l, a)
                               ELSE IF l = "verify" THEN row.vtoken ELSE row.rtoken
      BY <3>1, <3>2, WrittenTokens
    <3>4. QED  BY <3>1, <3>2, <3>3 DEF Current, LinkKinds, KindUsed
  <2>3. QED  BY <2>1, <2>2
<1>5. LinkDone(c, d)  BY <1>1, <1>2, <1>3, <1>4 DEF LinkDone
<1>6. QED  BY <1>3, <1>5 DEF Becomes

LEMMA KeepingLinks ==
  ASSUME TypeOK, CallsInv, RowInv, NEW c \in calls,
         Create(c) \/ Link(c) \/ (SetPassword(c) /\ c.op # "reset")
  PROVE  \E d \in Calls : LinkPasses(c, d)
<1>0. /\ c \in Calls /\ c.at \in Addresses /\ c.id \in Nat /\ account[c.at] \in Rows
      /\ Fits(c.op, c.name, c.pc)
  BY DEF TypeOK, Calls, CallsInv
<1>1. CASE Create(c)
  <2>1. PICK d \in Calls, r \in Rows : Wrote(c, d, r)  BY <1>1, CreateWrites
  <2>2. PICK v \in BOOLEAN : account' = [account EXCEPT ![c.at] = NewRow(c, v)]
    BY <1>1 DEF Create, Write
  <2>3. c.pc = "create" /\ account[c.at] = NoAccount /\ c.op \in {"register", "google", "staff"}
    BY <1>0, <1>1 DEF Create, RowInv, Fits
  <2>4. NewRow(c, v).vtoken = 0 /\ NewRow(c, v).rtoken = 0
    <3>1. CASE c.op = "register"  BY <3>1 DEF NewRow, NoAccount
    <3>2. CASE c.op = "google"  BY <3>2 DEF NewRow, NoAccount
    <3>3. CASE c.op = "staff"  BY <3>3 DEF NewRow, NoAccount
    <3>4. QED  BY <2>3, <3>1, <3>2, <3>3
  <2>5. account'[c.at] = NewRow(c, v) /\ \A a \in Addresses : a # c.at => account'[a] = account[a]
    BY <1>0, <2>2 DEF TypeOK
  <2>6. \A l \in LinkKinds, a \in Addresses : Current(l, a)' = Current(l, a)
    BY <2>3, <2>4, <2>5 DEF Current, NoAccount
  <2>7. LinksKept  BY <1>1, <2>6 DEF LinksKept, Create, Write, history
  <2>8. Becomes(c, d) /\ d.pc \in {"issue", "mail", "answer"}  BY <2>1 DEF Wrote
  <2>9. LinkPasses(c, d)  BY <2>3, <2>7, <2>8 DEF LinkPasses, Opens, Early
  <2>10. QED  BY <2>9
<1>2. CASE Link(c) \/ (SetPassword(c) /\ c.op # "reset")
  <2> DEFINE d == [c EXCEPT !.pc = "answer"]
             row == IF c.pc = "link" THEN [account[c.at] EXCEPT !.google = TRUE, !.verified = TRUE]
                    ELSE [account[c.at] EXCEPT !.password = c.id, !.forced = FALSE]
  <2>1. row.vtoken = account[c.at].vtoken /\ row.rtoken = account[c.at].rtoken  BY <1>0 DEF Rows
  <2>2. /\ account' = [account EXCEPT ![c.at] = row] /\ calls' = (calls \ {c}) \cup {d}
        /\ c.pc \in {"link", "write"} /\ UNCHANGED <<configured, mailbox, newest, used, last, met, cut>>
    BY <1>2 DEF Link, SetPassword, Write, history
  <2>3. Fits(c.op, c.name, "answer") /\ "answer" \in PCs  BY DEF Fits, PCs
  <2>4. Becomes(c, d) /\ d.pc = "answer"  BY <2>2, <2>3, GoesOn
  <2> HIDE DEF d, row
  <2>5. account'[c.at] = row /\ \A a \in Addresses : a # c.at => account'[a] = account[a]
    BY <1>0, <2>2 DEF TypeOK
  <2>6. \A l \in LinkKinds, a \in Addresses : Current(l, a)' = Current(l, a)
    BY <2>1, <2>5 DEF Current
  <2>7. LinkPasses(c, d)  BY <2>2, <2>4, <2>6 DEF LinkPasses, LinksKept, Opens, Early
  <2>8. QED  BY <2>4, <2>7 DEF Becomes
<1>3. QED  BY <1>1, <1>2

LEMMA PassingLinks ==
  ASSUME TypeOK, CallsInv, NEW c \in calls, Pick(c) \/ Mail(c) \/ MailFailed(c)
  PROVE  \E d \in Calls : LinkPasses(c, d)
<1>1. CASE Pick(c)
  <2>1. PICK d \in Calls : Passes(c, d)  BY <1>1, PickPasses
  <2>2. c.pc = "pick" /\ Becomes(c, d) /\ d.pc = "create"  BY <1>1, <2>1 DEF Passes, Pick
  <2>3. LinksKept  BY <1>1 DEF Pick, LinksKept, history, Current
  <2>4. LinkPasses(c, d)  BY <2>2, <2>3 DEF LinkPasses, Opens, Early
  <2>5. QED  BY <2>4
<1>2. CASE Mail(c) \/ MailFailed(c)
  <2>1. PICK d \in Calls : Passes(c, d)  BY <1>2, MailPasses
  <2>2. c.pc = "mail" /\ Becomes(c, d) /\ d.pc = "answer"
    BY <1>2, <2>1 DEF Passes, Mail, MailFailed
  <2>3. LinksKept  BY <1>2 DEF Mail, MailFailed, LinksKept, history, Current
  <2>4. configured /\ c.op # "staff" =>
            c.at \in cut' \/ [to |-> c.at, kind |-> KindOf(c), code |-> c.id] \in mailbox'
    BY <1>2 DEF Mail, MailFailed
  <2>5. LinkPasses(c, d)  BY <2>2, <2>3, <2>4 DEF LinkPasses, Opens, Early
  <2>6. QED  BY <2>5
<1>3. QED  BY <1>1, <1>2

LEMMA EveryLinkShape ==
  ASSUME TypeOK, CallsInv, RowInv, TokenInv, LinksKnown, [Next]_vars
  PROVE  LinkShapes
<1>1. ASSUME NEW a \in Addresses,
             \/ \E name \in Names : Register(a, name) \/ CreateStaff(a, name)
             \/ ResendVerification(a) \/ ForgotPassword(a) \/ ChangePassword(a) \/ LoginWithGoogle(a)
             \/ \E mail \in mailbox : VerifyEmail(mail, a) \/ ResetPassword(mail, a)
      PROVE  LinkShapes
  BY <1>1, ArrivingLinks
<1>2. ASSUME NEW c \in calls, Go(c) PROVE LinkShapes
  <2>1. CASE Issue(c) \/ Reissue(c)  BY <2>1, StoringLinks DEF LinkShapes
  <2>2. CASE Confirm(c) \/ (SetPassword(c) /\ c.op = "reset")  BY <2>2, UsingLinks DEF LinkShapes
  <2>3. CASE Create(c) \/ Link(c) \/ (SetPassword(c) /\ c.op # "reset")
    BY <2>3, KeepingLinks DEF LinkShapes
  <2>4. CASE Pick(c) \/ Mail(c) \/ MailFailed(c)  BY <2>4, PassingLinks DEF LinkShapes
  <2>5. CASE CreateRefused(c) \/ Answer(c) \/ Fail(c)
    <3>1. LinksKept
      BY <2>5 DEF CreateRefused, Answer, Fail, Finish, LinksKept, history, Current
    <3>2. calls' = calls \ {c} /\ (c.at \in cut' \/ c.pc \in {"create", "answer"})
      BY <2>5 DEF CreateRefused, Answer, Fail, Finish
    <3>3. QED  BY <3>1, <3>2 DEF LinkShapes, LinkLeaves
  <2>6. QED  BY <1>2, <2>1, <2>2, <2>3, <2>4, <2>5 DEF Go
<1>3. ASSUME NEW mail \in mailbox, Expire(mail) PROVE LinkShapes
  BY <1>3 DEF Expire, LinkShapes, LinksKept, history, Current
<1>4. CASE UNCHANGED vars  BY <1>4 DEF vars, LinkShapes, LinksKept, history, Current
<1>5. QED  BY <1>1, <1>2, <1>3, <1>4 DEF Next

\* What these steps have in common, for a request that is still there.
LEMMA StillThere ==
  ASSUME TypeOK, CallsInv, NEW c \in calls, NEW d \in Calls, Becomes(c, d)
  PROVE  /\ calls' = (calls \ {c}) \cup {d} /\ d.id = c.id /\ d.at = c.at /\ d.link = c.link
         /\ d.op = c.op /\ KindOf(d) = KindOf(c)
         /\ c.id \in Nat /\ 0 < c.id /\ c.id <= last /\ c.at \in Addresses
         /\ \A e \in calls : e # c => e.id # c.id
BY DEF Becomes, CallsInv, TypeOK, Calls, KindOf

\* And for one that comes in.
LEMMA Arrived ==
  ASSUME TypeOK, NEW n \in Calls, LinkArrives(n)
  PROVE  /\ calls' = calls \cup {n} /\ last' = last + 1 /\ n.id = last + 1
         /\ n.link \in Nat /\ n.link <= last /\ n.at \in Addresses /\ Early(n)
         /\ (Opens(n) => 0 < n.link /\ n.link = Current(KindUsed(n), n.at))
         /\ (~Opens(n) => n.link = 0)
         /\ UNCHANGED <<configured, mailbox, newest, used, cut>>
         /\ \A k \in LinkKinds, a \in Addresses : Current(k, a)' = Current(k, a)
BY DEF LinkArrives, Calls, Current

LEMMA LinksKnownStep ==
  ASSUME TypeOK, CallsInv, LinksKnown, LinkShapes
  PROVE  LinksKnown'
<1>0. /\ last \in Nat /\ \A k \in LinkKinds, a \in Addresses : newest[k][a] \in Nat /\ Current(k, a) \in Nat
      /\ \A u \in used : u[1] \in Nat
      /\ \A c \in calls : c.link \in Nat
  BY DEF TypeOK, LinkKinds, Current, Rows, Calls
<1>1. ASSUME NEW n \in Calls, LinkArrives(n) PROVE LinksKnown'
  <2>1. /\ calls' = calls \cup {n} /\ last' = last + 1 /\ n.link \in Nat /\ n.link <= last
        /\ newest' = newest /\ used' = used
        /\ \A k \in LinkKinds, a \in Addresses : Current(k, a)' = Current(k, a)
    BY <1>1, Arrived
  <2>2. QED  BY <1>0, <2>1 DEF LinksKnown
<1>2. ASSUME NEW c \in calls, NEW d \in Calls, NEW k \in LinkKinds, LinkStored(c, d, k)
      PROVE  LinksKnown'
  <2>1. Becomes(c, d)  BY <1>2 DEF LinkStored
  <2>2. QED  BY <1>0, <1>2, <2>1, StillThere DEF LinksKnown, LinkStored
<1>3. ASSUME NEW c \in calls, NEW d \in Calls, LinkDone(c, d) PROVE LinksKnown'
  <2>1. Becomes(c, d)  BY <1>3 DEF LinkDone
  <2>2. QED  BY <1>0, <1>3, <2>1, StillThere DEF LinksKnown, LinkDone
<1>4. ASSUME NEW c \in calls, NEW d \in Calls, LinkPasses(c, d) PROVE LinksKnown'
  <2>1. Becomes(c, d)  BY <1>4 DEF LinkPasses
  <2>2. QED  BY <1>0, <1>4, <2>1, StillThere DEF LinksKnown, LinkPasses, LinksKept
<1>5. ASSUME NEW c \in calls, LinkLeaves(c) PROVE LinksKnown'
  BY <1>5 DEF LinksKnown, LinkLeaves, LinksKept
<1>6. CASE LinksKept /\ calls' = calls  BY <1>6 DEF LinksKnown, LinksKept
<1>7. QED  BY <1>1, <1>2, <1>3, <1>4, <1>5, <1>6 DEF LinkShapes

LEMMA FreshStep ==
  ASSUME TypeOK, CallsInv, LinksKnown, AllFresh, LinkShapes
  PROVE  AllFresh'
<1>0. /\ last \in Nat /\ \A k \in LinkKinds, a \in Addresses : newest[k][a] \in Nat /\ Current(k, a) \in Nat
      /\ \A u \in used : u[1] \in Nat
      /\ \A c \in calls : c.link \in Nat /\ c.id \in Nat
  BY DEF TypeOK, LinkKinds, Current, Rows, Calls
<1>k. \A c \in calls : c.id <= last /\ 0 < c.id  BY DEF CallsInv
<1>1. ASSUME NEW n \in Calls, LinkArrives(n) PROVE AllFresh'
  <2>1. /\ calls' = calls \cup {n} /\ n.id = last + 1 /\ n.link <= last /\ n.link \in Nat
        /\ UNCHANGED <<newest, used>> /\ (Opens(n) => n.link = Current(KindUsed(n), n.at))
        /\ (~Opens(n) => n.link = 0) /\ n.at \in Addresses /\ KindUsed(n) \in LinkKinds
        /\ \A k \in LinkKinds, a \in Addresses : Current(k, a)' = Current(k, a)
    BY <1>1, Arrived DEF KindUsed, LinkKinds
  <2>2. Fresh(n)'  BY <1>0, <2>1 DEF LinksKnown, Fresh
  <2>3. ASSUME NEW c \in calls, Early(c) PROVE Fresh(c)'
    <3>1. Fresh(c)  BY <2>3 DEF AllFresh
    <3>2. n.link # c.id  BY <1>0, <1>k, <2>1, <3>1 DEF Fresh
    <3>3. QED  BY <2>1, <3>1, <3>2 DEF Fresh
  <2>4. QED  BY <2>1, <2>2, <2>3 DEF AllFresh, Early
<1>2. ASSUME NEW c \in calls, NEW d \in Calls, NEW k \in LinkKinds, LinkStored(c, d, k)
      PROVE  AllFresh'
  <2>1. /\ Becomes(c, d) /\ ~Early(d) /\ used' = used
        /\ \A l \in LinkKinds, a \in Addresses : newest'[l][a] \in {newest[l][a], c.id}
                                                /\ Current(l, a)' \in {Current(l, a), c.id}
    BY <1>2 DEF LinkStored, Early
  <2>2. ASSUME NEW e \in calls, e # c, Early(e) PROVE Fresh(e)'
    BY <2>1, <2>2, StillThere DEF AllFresh, Fresh
  <2>3. QED  BY <2>1, <2>2, StillThere DEF AllFresh, Early
<1>3. ASSUME NEW c \in calls, NEW d \in Calls, LinkDone(c, d) PROVE AllFresh'
  <2>1. /\ Becomes(c, d) /\ ~Early(d) /\ newest' = newest /\ used' = used \cup {<<c.link, c.id>>}
        /\ \A l \in LinkKinds, a \in Addresses : Current(l, a)' \in {Current(l, a), 0}
    BY <1>3 DEF LinkDone, Early
  <2>2. ASSUME NEW e \in calls, e # c, Early(e) PROVE Fresh(e)'
    <3>1. Fresh(e) /\ e.id # 0 /\ e.id # c.link  BY <1>0, <1>k, <2>2 DEF AllFresh, Fresh
    <3>2. QED  BY <2>1, <2>2, <3>1, StillThere DEF Fresh
  <2>3. QED  BY <2>1, <2>2, StillThere DEF AllFresh, Early
<1>4. ASSUME NEW c \in calls, NEW d \in Calls, LinkPasses(c, d) PROVE AllFresh'
  <2>1. /\ Becomes(c, d) /\ (Early(d) => Early(c)) /\ newest' = newest /\ used' = used
        /\ \A l \in LinkKinds, a \in Addresses : Current(l, a)' = Current(l, a)
    BY <1>4 DEF LinkPasses, LinksKept
  <2>2. ASSUME NEW e \in calls, Early(e) PROVE Fresh(e)'
    BY <2>1, <2>2, StillThere DEF AllFresh, Fresh
  <2>3. Early(d) => Fresh(d)'  BY <2>1, <2>2, StillThere DEF Fresh
  <2>4. QED  BY <2>1, <2>2, <2>3, StillThere DEF AllFresh, Early
<1>5. ASSUME NEW c \in calls, LinkLeaves(c) PROVE AllFresh'
  BY <1>5 DEF AllFresh, Fresh, Early, LinkLeaves, LinksKept
<1>6. CASE LinksKept /\ calls' = calls  BY <1>6 DEF AllFresh, Fresh, Early, LinksKept
<1>7. QED  BY <1>1, <1>2, <1>3, <1>4, <1>5, <1>6 DEF LinkShapes

LEMMA LinksApartStep ==
  ASSUME TypeOK, CallsInv, LinksKnown, AllFresh, LinksApart, LinkShapes
  PROVE  LinksApart'
<1>0. /\ last \in Nat /\ \A k \in LinkKinds, a \in Addresses : newest[k][a] \in Nat /\ Current(k, a) \in Nat
      /\ \A c \in calls : c.link \in Nat /\ c.id \in Nat /\ KindUsed(c) \in LinkKinds
  BY DEF TypeOK, LinkKinds, Current, Rows, Calls, KindUsed
<1>1. ASSUME NEW n \in Calls, LinkArrives(n) PROVE LinksApart'
  <2>1. /\ calls' = calls \cup {n} /\ n.id = last + 1 /\ newest' = newest
        /\ (Opens(n) => 0 < n.link /\ n.link = Current(KindUsed(n), n.at))
        /\ n.at \in Addresses /\ KindUsed(n) \in LinkKinds
        /\ \A k \in LinkKinds, a \in Addresses : Current(k, a)' = Current(k, a)
    BY <1>1, Arrived DEF KindUsed, LinkKinds
  <2>2. \A k \in LinkKinds, a \in Addresses : newest[k][a] # n.id
    BY <1>0, <2>1 DEF LinksKnown
  <2>3. Opens(n) => \A l \in LinkKinds, b \in Addresses :
                        n.link = newest[l][b] => l = KindUsed(n) /\ b = n.at
    BY <1>0, <2>1 DEF LinksApart
  <2>4. QED  BY <2>1, <2>2, <2>3 DEF LinksApart, Opens, KindUsed, KindOf
<1>2. ASSUME NEW c \in calls, NEW d \in Calls, NEW k \in LinkKinds, LinkStored(c, d, k)
      PROVE  LinksApart'
  <2>1. /\ Becomes(c, d) /\ ~Opens(d) /\ d.op # "staff" /\ KindOf(d) = k /\ Early(c)
        /\ \A l \in LinkKinds, a \in Addresses :
            /\ newest'[l][a] = IF l = k /\ a = c.at THEN c.id ELSE newest[l][a]
            /\ Current(l, a)' = IF l = k /\ a = c.at THEN c.id ELSE Current(l, a)
    BY <1>2 DEF LinkStored, Opens
  <2>2. Fresh(c)  BY <2>1 DEF AllFresh
  <2>3. \A l, m \in LinkKinds, a, b \in Addresses :
            Current(l, a)' # 0 /\ Current(l, a)' = newest'[m][b] => l = m /\ a = b
    BY <2>1, <2>2 DEF LinksApart, Fresh
  <2>4. \A e \in calls' : Opens(e) =>
            /\ 0 < e.link
            /\ \A l \in LinkKinds, b \in Addresses :
                    e.link = newest'[l][b] => l = KindUsed(e) /\ b = e.at
    BY <2>1, <2>2, StillThere DEF LinksApart, Fresh
  <2>5. \A e \in calls', l \in LinkKinds, a \in Addresses : e.id = newest'[l][a] =>
            a = e.at /\ l = KindOf(e) /\ e.op # "staff"
    BY <2>1, <2>2, StillThere DEF LinksApart, Fresh
  <2>6. QED  BY <2>3, <2>4, <2>5 DEF LinksApart, Opens, KindUsed, KindOf
<1>3. ASSUME NEW c \in calls, NEW d \in Calls, LinkDone(c, d) \/ LinkPasses(c, d) PROVE LinksApart'
  <2>1. /\ Becomes(c, d) /\ ~Opens(d) /\ newest' = newest
        /\ \A l \in LinkKinds, a \in Addresses : Current(l, a)' \in {Current(l, a), 0}
    BY <1>3 DEF LinkDone, LinkPasses, LinksKept, Opens
  <2>2. \A e \in calls' : e \in calls \/ (e = d /\ e.id = c.id /\ e.at = c.at /\ e.op = c.op)
    BY <2>1, StillThere
  <2>3. KindOf(d) = KindOf(c)  BY <2>1, StillThere
  <2>4. QED  BY <2>1, <2>2, <2>3 DEF LinksApart, Opens, KindUsed, KindOf
<1>4. ASSUME NEW c \in calls, LinkLeaves(c) PROVE LinksApart'
  BY <1>4 DEF LinksApart, LinkLeaves, LinksKept, Opens, KindUsed, KindOf
<1>5. CASE LinksKept /\ calls' = calls
  BY <1>5 DEF LinksApart, LinksKept, Opens, KindUsed, KindOf
<1>6. QED  BY <1>1, <1>2, <1>3, <1>4, <1>5 DEF LinkShapes

LEMMA LinksMailedStep ==
  ASSUME TypeOK, CallsInv, LinksKnown, AllFresh, LinksApart, LinksMailed, LinkShapes
  PROVE  LinksMailed'
<1> SUFFICES ASSUME NEW k \in LinkKinds, NEW a \in Addresses, a \notin cut', configured',
                    newest'[k][a] # 0, \A e \in calls' : e.id = newest'[k][a] => e.pc = "answer"
             PROVE  [to |-> a, kind |-> k, code |-> newest'[k][a]] \in mailbox'
  BY DEF LinksMailed
<1> DEFINE t == newest[k][a]
           mail == [to |-> a, kind |-> k, code |-> t]
<1>0. ASSUME a \notin cut, configured, t # 0, \A e \in calls : e.id = t => e.pc = "answer"
      PROVE  mail \in mailbox
  BY <1>0 DEF LinksMailed
<1>a. \A c \in calls : c.id = t => a = c.at /\ k = KindOf(c) /\ c.op # "staff" /\ ~Early(c)
  BY DEF LinksApart, AllFresh, Fresh
<1>1. ASSUME NEW n \in Calls, LinkArrives(n) PROVE mail \in mailbox' /\ newest' = newest
  <2>1. calls' = calls \cup {n} /\ UNCHANGED <<configured, mailbox, newest, cut>>
    BY <1>1, Arrived
  <2>2. QED  BY <1>0, <2>1
<1>2. ASSUME NEW c \in calls, NEW d \in Calls, NEW l \in LinkKinds, LinkStored(c, d, l)
      PROVE  mail \in mailbox' /\ newest'[k][a] = t
  <2>1. /\ Becomes(c, d) /\ d.pc = "mail" /\ Early(c) /\ UNCHANGED <<configured, mailbox, cut>>
        /\ newest'[k][a] = IF k = l /\ a = c.at THEN c.id ELSE t
    BY <1>2 DEF LinkStored
  <2>2. calls' = (calls \ {c}) \cup {d} /\ d.id = c.id  BY <2>1, StillThere
  <2>3. newest'[k][a] = t  BY <2>1, <2>2
  <2>4. QED  BY <1>0, <1>a, <2>1, <2>2, <2>3
<1>3. ASSUME NEW c \in calls, NEW d \in Calls, LinkDone(c, d) PROVE mail \in mailbox' /\ newest' = newest
  <2>1. /\ Becomes(c, d) /\ Early(c) /\ UNCHANGED <<configured, mailbox, newest, cut>>
    BY <1>3 DEF LinkDone, Opens, Early
  <2>2. calls' = (calls \ {c}) \cup {d} /\ d.id = c.id  BY <2>1, StillThere
  <2>3. QED  BY <1>0, <1>a, <2>1, <2>2
<1>4. ASSUME NEW c \in calls, NEW d \in Calls, LinkPasses(c, d) PROVE mail \in mailbox' /\ newest' = newest
  <2>1. /\ Becomes(c, d) /\ c.pc # "answer" /\ configured' = configured /\ newest' = newest
        /\ mailbox \subseteq mailbox' /\ cut \subseteq cut'
        /\ c.pc = "mail" /\ configured /\ c.op # "staff" =>
              c.at \in cut' \/ [to |-> c.at, kind |-> KindOf(c), code |-> c.id] \in mailbox'
    BY <1>4 DEF LinkPasses, LinksKept
  <2>2. calls' = (calls \ {c}) \cup {d}  BY <2>1, StillThere
  <2>3. CASE c.id = t  BY <1>a, <2>1, <2>3 DEF Early
  <2>4. CASE c.id # t  BY <1>0, <2>1, <2>2, <2>4
  <2>5. QED  BY <2>1, <2>3, <2>4
<1>5. ASSUME NEW c \in calls, LinkLeaves(c) PROVE mail \in mailbox' /\ newest' = newest
  <2>1. /\ calls' = calls \ {c} /\ configured' = configured /\ newest' = newest
        /\ mailbox \subseteq mailbox' /\ cut \subseteq cut'
        /\ c.at \in cut' \/ c.pc \in {"create", "answer"}
    BY <1>5 DEF LinkLeaves, LinksKept
  <2>2. c.id = t => c.pc = "answer"  BY <1>a, <2>1 DEF Early
  <2>3. QED  BY <1>0, <2>1, <2>2
<1>6. CASE LinksKept /\ calls' = calls  BY <1>0, <1>6 DEF LinksKept
<1>7. QED  BY <1>1, <1>2, <1>3, <1>4, <1>5, <1>6 DEF LinkShapes, LinksKept

OneCall(a) == \A c, d \in calls : c.at = a /\ d.at = a => c = d

LEMMA LinkGoodStep ==
  ASSUME TypeOK, CallsInv, AllFresh, LinksApart, NEW a \in Addresses, NEW k \in LinkKinds,
         OneCall(a), LinkGood(k, a), LinkShapes
  PROVE  LinkGood(k, a)'
<1> DEFINE t == newest[k][a]
<1>0. /\ Uses(t) = {} => Current(k, a) = t
      /\ Uses(t) # {} => Current(k, a) = 0
      /\ t = 0 => Uses(t) = {}
      /\ \A u, v \in Uses(t) : u = v
      /\ \A c \in calls : c.at = a /\ Opens(c) /\ KindUsed(c) = k => c.link = Current(k, a)
  BY DEF LinkGood
<1>1. ASSUME NEW n \in Calls, LinkArrives(n) PROVE LinkGood(k, a)'
  <2>1. /\ calls' = calls \cup {n} /\ newest' = newest /\ used' = used
        /\ (Opens(n) => n.link = Current(KindUsed(n), n.at))
        /\ Current(k, a)' = Current(k, a)
    BY <1>1, Arrived
  <2>2. QED  BY <1>0, <2>1 DEF LinkGood, Uses, Opens, KindUsed
<1>2. ASSUME NEW c \in calls, NEW d \in Calls, NEW l \in LinkKinds, LinkStored(c, d, l)
      PROVE  LinkGood(k, a)'
  <2>1. /\ Becomes(c, d) /\ ~Opens(d) /\ Early(c) /\ used' = used
        /\ newest'[k][a] = IF k = l /\ a = c.at THEN c.id ELSE t
        /\ Current(k, a)' = IF k = l /\ a = c.at THEN c.id ELSE Current(k, a)
    BY <1>2 DEF LinkStored, Opens
  <2>2. /\ calls' = (calls \ {c}) \cup {d} /\ d.at = c.at /\ 0 < c.id /\ c.id \in Nat
    BY <2>1, StillThere
  <2>3. CASE k = l /\ a = c.at
    <3>1. {u \in used : u[1] = c.id} = {}  BY <2>1 DEF AllFresh, Fresh
    <3>2. newest'[k][a] = c.id /\ Current(k, a)' = c.id /\ c.id # 0  BY <2>1, <2>2, <2>3
    <3>3. \A e \in calls' : e.at = a => ~Opens(e)  BY <2>1, <2>2, <2>3 DEF OneCall
    <3>4. QED  BY <2>1, <3>1, <3>2, <3>3 DEF LinkGood, Uses, Opens, KindUsed
  <2>4. CASE ~(k = l /\ a = c.at)
    <3>1. newest'[k][a] = t /\ Current(k, a)' = Current(k, a)  BY <2>1, <2>4
    <3>2. \A e \in calls' : Opens(e) => e \in calls  BY <2>1, <2>2
    <3>3. QED  BY <1>0, <2>1, <3>1, <3>2 DEF LinkGood, Uses, Opens, KindUsed
  <2>5. QED  BY <2>3, <2>4
<1>3. ASSUME NEW c \in calls, NEW d \in Calls, LinkDone(c, d) PROVE LinkGood(k, a)'
  <2>1. /\ Becomes(c, d) /\ Opens(c) /\ ~Opens(d) /\ used' = used \cup {<<c.link, c.id>>}
        /\ newest' = newest
        /\ Current(k, a)' = IF k = KindUsed(c) /\ a = c.at THEN 0 ELSE Current(k, a)
    BY <1>3 DEF LinkDone, Opens
  <2>2. calls' = (calls \ {c}) \cup {d} /\ d.at = c.at  BY <2>1, StillThere
  <2>l. c.link \in Nat /\ 0 < c.link  BY <2>1 DEF TypeOK, Calls, LinksApart
  <2>3. CASE k = KindUsed(c) /\ a = c.at
    <3>1. c.link = Current(k, a)  BY <1>0, <2>1, <2>3
    <3>2. Uses(t) = {} /\ c.link = t /\ t # 0  BY <1>0, <2>l, <3>1
    <3>3. {u \in used' : u[1] = t} = {<<t, c.id>>}
      <4>1. \A u \in used : u[1] # t  BY <3>2 DEF Uses
      <4>2. QED  BY <2>1, <3>2, <4>1
    <3>4. \A e \in calls' : e.at = a => ~Opens(e)  BY <2>1, <2>2, <2>3 DEF OneCall
    <3>5. QED  BY <2>1, <2>3, <3>2, <3>3, <3>4 DEF LinkGood, Uses, Opens, KindUsed
  <2>4. CASE ~(k = KindUsed(c) /\ a = c.at)
    <3>1. c.link # t  BY <2>1, <2>4 DEF LinksApart
    <3>2. {u \in used' : u[1] = t} = {u \in used : u[1] = t}  BY <2>1, <3>1
    <3>3. Current(k, a)' = Current(k, a)  BY <2>1, <2>4
    <3>4. \A e \in calls' : Opens(e) => e \in calls  BY <2>1, <2>2
    <3>5. QED  BY <1>0, <2>1, <3>2, <3>3, <3>4 DEF LinkGood, Uses, Opens, KindUsed
  <2>5. QED  BY <2>3, <2>4
<1>4. ASSUME NEW c \in calls, NEW d \in Calls, LinkPasses(c, d) PROVE LinkGood(k, a)'
  <2>1. /\ Becomes(c, d) /\ ~Opens(d) /\ newest' = newest /\ used' = used
        /\ Current(k, a)' = Current(k, a)
    BY <1>4 DEF LinkPasses, LinksKept
  <2>2. \A e \in calls' : Opens(e) => e \in calls  BY <2>1, StillThere
  <2>3. QED  BY <1>0, <2>1, <2>2 DEF LinkGood, Uses, Opens, KindUsed
<1>5. ASSUME LinksKept, calls' \subseteq calls PROVE LinkGood(k, a)'
  <2>1. newest' = newest /\ used' = used /\ Current(k, a)' = Current(k, a)  BY <1>5 DEF LinksKept
  <2>2. QED  BY <1>0, <1>5, <2>1 DEF LinkGood, Uses, Opens, KindUsed
<1>6. QED  BY <1>1, <1>2, <1>3, <1>4, <1>5 DEF LinkShapes, LinkLeaves

LEMMA NeverWell ==
  ASSUME LinkShapes PROVE met \subseteq met' /\ cut \subseteq cut'
BY DEF LinkShapes, LinkArrives, LinkStored, LinkDone, LinkPasses, LinkLeaves, LinksKept

LEMMA LinksInvStep ==
  ASSUME IInv, LinksInv, [Next]_vars PROVE LinksInv'
<1>0. /\ TypeOK /\ CallsInv /\ RowInv /\ TokenInv /\ PasswordInv
      /\ LinksKnown /\ LinksApart /\ LinksMailed /\ AllFresh
  BY DEF IInv, LinksInv
<1>1. LinkShapes  BY <1>0, EveryLinkShape
<1>2. LinksKnown' /\ LinksApart' /\ LinksMailed' /\ AllFresh'
  BY <1>0, <1>1, LinksKnownStep, LinksApartStep, LinksMailedStep, FreshStep
<1>3. ASSUME NEW a \in Addresses \ (met' \cup cut'), NEW k \in LinkKinds PROVE LinkGood(k, a)'
  <2>1. a \in Addresses /\ a \notin met \cup cut  BY <1>1, <1>3, NeverWell
  <2>2. OneCall(a) /\ LinkGood(k, a)  BY <1>0, <1>3, <2>1 DEF OneCall, PasswordInv, LinksInv
  <2>3. QED  BY <1>0, <1>1, <2>1, <2>2, LinkGoodStep
<1>4. QED  BY <1>2, <1>3 DEF LinksInv

LEMMA LinksInvInit ==
  ASSUME Init PROVE LinksInv
BY DEF Init, LinksInv, AllFresh, LinksKnown, LinksApart, LinksMailed, LinkGood, Uses, Current, LinkKinds, NoAccount

LEMMA LinksInvSays ==
  ASSUME TypeOK, LinksInv PROVE LinksWorkOnce
<1> SUFFICES ASSUME NEW a \in Addresses, a \notin met \cup cut, NEW k \in LinkKinds,
                    newest[k][a] # 0
             PROVE  LET t == newest[k][a] IN
                    /\ Current(k, a) = IF Uses(t) = {} THEN t ELSE 0
                    /\ Cardinality(Uses(t)) <= 1
                    /\ configured /\ (\A c \in calls : c.id # t)
                        => [to |-> a, kind |-> k, code |-> t] \in mailbox
  BY DEF LinksWorkOnce, LinkKinds, Uses
<1> DEFINE t == newest[k][a]
<1>1. LinkGood(k, a)  BY DEF LinksInv
<1>2. Current(k, a) = IF Uses(t) = {} THEN t ELSE 0  BY <1>1 DEF LinkGood
<1>3. Cardinality(Uses(t)) <= 1
  <2>1. CASE Uses(t) = {}  BY <2>1, FS_EmptySet
  <2>2. CASE Uses(t) # {}
    <3>1. PICK u \in Uses(t) : Uses(t) = {u}  BY <1>1, <2>2 DEF LinkGood
    <3>2. Cardinality({u}) = 1  BY FS_Singleton
    <3>3. QED  BY <3>1, <3>2
  <2>3. QED  BY <2>1, <2>2
<1>4. configured /\ (\A c \in calls : c.id # t) => [to |-> a, kind |-> k, code |-> t] \in mailbox
  BY DEF LinksInv, LinksMailed
<1>5. QED  BY <1>2, <1>3, <1>4

-------------------------------------------------------------------------------
(* The theorems *)

LEMMA Inductive ==
  ASSUME IInv, [Next]_vars PROVE IInv'
BY TypeStep, CallsStep, RowStep, TokenStep, OwnerStep, PasswordStep DEF IInv

LEMMA Invariance ==
  Spec => []IInv
<1>1. Init => IInv  BY InitIInv
<1>2. IInv /\ [Next]_vars => IInv'  BY Inductive
<1>3. QED  BY <1>1, <1>2, PTL DEF Spec

\* Every state of the accounts has its type (TypeOK), whatever requests there are.
THEOREM TypeCorrect ==
  Spec => []TypeOK
<1>1. IInv => TypeOK  BY DEF IInv
<1>2. QED  BY <1>1, Invariance, PTL

\* An address counts as verified only by who reads it, by Google's word or by an admin
\* (verifyEmail, loginWithGoogle, createStaff), or because its account was linked to a Google
\* account of which Google says no such thing, for any number of overlapping, failing requests.
THEOREM OwnersAreProved ==
  Spec => []OwnershipProved
<1>1. IInv => OwnershipProved  BY DEF IInv, OwnerInv
<1>2. QED  BY <1>1, Invariance, PTL

\* The password of an account is the one last told to who set it (register, createStaff,
\* changePassword, resetPassword), unless its requests overlapped or one failed; those
\* about other accounts may do what they like.
THEOREM PasswordsAreAsTold ==
  Spec => []PasswordAsTold
<1>1. IInv => PasswordAsTold  BY DEF IInv, PasswordInv, PasswordAsTold
<1>2. QED  BY <1>1, Invariance, PTL

\* The newest link of an account is good for one use, verifyEmail's or resetPassword's, and
\* was mailed when its request is over, unless requests about the account overlapped or
\* failed; those about other accounts may do what they like.
THEOREM LinksAreGoodOnce ==
  Spec => []LinksWorkOnce
<1>1. Init => LinksInv  BY LinksInvInit
<1>2. IInv /\ LinksInv /\ [Next]_vars => LinksInv'  BY LinksInvStep
<1>3. IInv /\ LinksInv => LinksWorkOnce  BY LinksInvSays DEF IInv
<1>4. QED  BY <1>1, <1>2, <1>3, Invariance, PTL DEF Spec

(***************************************************************************)
(* Staff and Media, in whatever the server does: the last admin remains,   *)
(* an invitation's password reaches somebody, and images and rows match,   *)
(* for any users, budgets, writers, editors and bounds.                    *)
(***************************************************************************)
\* No request has seen an image beyond these.
ImagesKnown ==
    /\ \A i \in assets \cup deleted : i <= uploads
    /\ \A r \in media : r.image <= uploads
    /\ \A q \in mediaRequests : q.image <= uploads

\* An image on its way into the library is its own request's alone, and what each
\* request knows of its image.
OnItsWay(q) ==
    /\ ~M!Listed(q.image) /\ q.image \notin deleted
    /\ \A p \in mediaRequests : p.image = q.image => p = q

RequestKnows(q) ==
    /\ q.pc \in {"upload", "create"} => OnItsWay(q)
    /\ q.pc = "create" => q.image \in assets
    /\ q.pc = "undo" => M!Hit(q.image, {"create"})
    /\ q.pc = "destroy" /\ q.image \in assets => M!Listed(q.image)
    /\ q.pc = "drop" => q.image \notin assets

MediaInv ==
    /\ M!TypeOK /\ ImagesKnown /\ M!RowsAndImagesMatch
    /\ \A q \in mediaRequests : RequestKnows(q)

\* What becomes of request q when it goes on at pc.
LEMMA MediaGoes ==
  ASSUME M!TypeOK, NEW q \in mediaRequests,
         NEW pc \in {"upload", "create", "undo", "destroy", "drop"}, M!Goes(q, pc)
  PROVE  \E d \in M!Requests : /\ d.image = q.image /\ d.by = q.by /\ d.pc = pc
                               /\ mediaRequests' = (mediaRequests \ {q}) \cup {d}
<1> DEFINE d == [q EXCEPT !.pc = pc]
<1>1. q \in M!Requests  BY DEF M!TypeOK
<1>2. d \in M!Requests /\ d.image = q.image /\ d.by = q.by /\ d.pc = pc  BY <1>1 DEF M!Requests
<1>3. mediaRequests' = (mediaRequests \ {q}) \cup {d}  BY DEF M!Goes
<1> HIDE DEF d
<1>4. QED  BY <1>2, <1>3

LEMMA UploadStep ==
  ASSUME MediaInv, ServerAssumption, NEW u \in Writers \cup Editors, M!Upload(u)
  PROVE  MediaInv'
<1> DEFINE n == [id |-> uploads + deletes, image |-> uploads + 1, by |-> u, pc |-> "upload"]
<1>0. MaxUploads \in Nat /\ uploads \in Nat /\ deletes \in Nat /\ uploads + 1 \in M!Images
  BY DEF ServerAssumption, M!MediaAssumption, M!TypeOK, M!Images, MediaInv, M!Upload
<1>1. n \in M!Requests /\ n.image = uploads + 1 /\ n.pc = "upload"  BY <1>0 DEF M!Requests
<1>2. /\ uploads' = uploads + 1 /\ uploads < MaxUploads /\ mediaRequests' = mediaRequests \cup {n}
      /\ UNCHANGED <<assets, media, deletes, deleted, faults, hit>>
  BY DEF M!Upload, M!NoFault
<1> HIDE DEF n
<1>t. /\ assets \cup deleted \subseteq Nat /\ \A r \in media : r.image \in Nat
      /\ \A q \in mediaRequests : q.image \in Nat
  BY DEF MediaInv, M!TypeOK, M!Images, M!Rows, M!Requests
<1>3. M!TypeOK'  BY <1>0, <1>1, <1>2 DEF MediaInv, M!TypeOK
<1>4. ImagesKnown'  BY <1>0, <1>1, <1>2, <1>t DEF MediaInv, ImagesKnown
<1>5. /\ \A i \in assets \cup deleted : i # n.image
      /\ \A r \in media : r.image # n.image
      /\ \A q \in mediaRequests : q.image # n.image
  BY <1>0, <1>1, <1>t DEF MediaInv, ImagesKnown
<1>6. M!RowsAndImagesMatch'
  BY <1>2 DEF MediaInv, M!RowsAndImagesMatch, M!Listed, M!InProgress, M!Hit
<1>7. \A q \in mediaRequests' : RequestKnows(q)'
  BY <1>1, <1>2, <1>5 DEF MediaInv, RequestKnows, OnItsWay, M!Listed, M!Hit
<1>8. QED  BY <1>3, <1>4, <1>6, <1>7 DEF MediaInv

LEMMA StoredStep ==
  ASSUME MediaInv, NEW q \in mediaRequests, M!Stored(q)
  PROVE  MediaInv'
<1>1. PICK d \in M!Requests : /\ d.image = q.image /\ d.by = q.by /\ d.pc = "create"
                              /\ mediaRequests' = (mediaRequests \ {q}) \cup {d}
  BY MediaGoes DEF MediaInv, M!Stored
<1>2. /\ q.pc = "upload" /\ assets' = assets \cup {q.image}
      /\ UNCHANGED <<media, uploads, deletes, deleted, faults, hit>>
  BY DEF M!Stored, M!NoFault
<1>3. q.image \in M!Images /\ OnItsWay(q)
  BY <1>2 DEF MediaInv, M!TypeOK, M!Requests, RequestKnows
<1>4. M!TypeOK'  BY <1>1, <1>2, <1>3 DEF MediaInv, M!TypeOK
<1>5. ImagesKnown'  BY <1>1, <1>2 DEF MediaInv, ImagesKnown
<1>6. M!RowsAndImagesMatch'
  BY <1>1, <1>2, <1>3 DEF MediaInv, M!RowsAndImagesMatch, M!Listed, M!InProgress, M!Hit, OnItsWay
<1>7. ASSUME NEW p \in mediaRequests' PROVE RequestKnows(p)'
  <2>1. \A r \in mediaRequests : r # q => r.image # q.image  BY <1>3 DEF OnItsWay
  <2>2. CASE p = d
    BY <1>1, <1>2, <1>3, <2>1, <2>2 DEF RequestKnows, OnItsWay, M!Listed, M!Hit
  <2>3. CASE p \in mediaRequests /\ p # q
    <3>1. RequestKnows(p) /\ p.image # q.image  BY <2>1, <2>3 DEF MediaInv
    <3>2. QED  BY <1>1, <1>2, <3>1, <2>3 DEF RequestKnows, OnItsWay, M!Listed, M!Hit
  <2>4. QED  BY <1>1, <2>2, <2>3
<1>8. QED  BY <1>4, <1>5, <1>6, <1>7 DEF MediaInv

LEMMA UploadFailsStep ==
  ASSUME MediaInv, ServerAssumption, NEW q \in mediaRequests, M!UploadFails(q)
  PROVE  MediaInv'
<1>1. /\ q.pc = "upload" /\ assets' \in {assets, assets \cup {q.image}}
      /\ mediaRequests' = mediaRequests \ {q} /\ hit' = hit \cup {<<q.image, "upload">>}
      /\ faults < MaxFaults /\ faults' = faults + 1
      /\ UNCHANGED <<media, uploads, deletes, deleted>>
  BY DEF M!UploadFails, M!Fault, M!Ends
<1>2. q.image \in M!Images /\ OnItsWay(q) /\ q.image <= uploads
  BY <1>1 DEF MediaInv, M!TypeOK, M!Requests, RequestKnows, ImagesKnown
<1>3. MaxFaults \in Nat /\ faults' \in 0..MaxFaults
  BY <1>1 DEF ServerAssumption, M!MediaAssumption, MediaInv, M!TypeOK
<1>4. M!TypeOK'  BY <1>1, <1>2, <1>3 DEF MediaInv, M!TypeOK
<1>5. ImagesKnown'  BY <1>1, <1>2 DEF MediaInv, ImagesKnown
<1>6. M!RowsAndImagesMatch'
  BY <1>1, <1>2 DEF MediaInv, M!RowsAndImagesMatch, M!Listed, M!InProgress, M!Hit, OnItsWay
<1>7. ASSUME NEW p \in mediaRequests' PROVE RequestKnows(p)'
  <2>1. RequestKnows(p) /\ p.image # q.image  BY <1>1, <1>2 DEF MediaInv, OnItsWay
  <2>2. QED  BY <1>1, <2>1 DEF RequestKnows, OnItsWay, M!Listed, M!Hit
<1>8. QED  BY <1>4, <1>5, <1>6, <1>7 DEF MediaInv

\* What a row for q's image makes of the table.
LEMMA RowAdded ==
  ASSUME MediaInv, NEW q \in mediaRequests,
         media' = media \cup {[image |-> q.image, by |-> q.by]}
  PROVE  /\ media' \subseteq M!Rows
         /\ \A r \in media' : r \in media \/ r.image = q.image
         /\ \A i : M!Listed(i)' <=> M!Listed(i) \/ i = q.image
<1> DEFINE n == [image |-> q.image, by |-> q.by]
<1>1. n.image = q.image /\ n \in M!Rows  BY DEF MediaInv, M!TypeOK, M!Requests, M!Rows
<1>2. media' = media \cup {n}  OBVIOUS
<1> HIDE DEF n
<1>3. QED  BY <1>1, <1>2 DEF MediaInv, M!TypeOK, M!Listed

LEMMA CreatedStep ==
  ASSUME MediaInv, NEW q \in mediaRequests, M!Created(q)
  PROVE  MediaInv'
<1>1. /\ q.pc = "create" /\ mediaRequests' = mediaRequests \ {q}
      /\ media' = media \cup {[image |-> q.image, by |-> q.by]}
      /\ UNCHANGED <<assets, uploads, deletes, deleted, faults, hit>>
  BY DEF M!Created, M!Ends, M!NoFault
<1>2. OnItsWay(q) /\ q.image \in assets /\ q.image <= uploads
  BY <1>1 DEF MediaInv, RequestKnows, ImagesKnown
<1>3. /\ media' \subseteq M!Rows /\ \A r \in media' : r \in media \/ r.image = q.image
      /\ \A i : M!Listed(i)' <=> M!Listed(i) \/ i = q.image
  BY <1>1, RowAdded
<1>4. M!TypeOK'  BY <1>1, <1>3 DEF MediaInv, M!TypeOK
<1>5. ImagesKnown'  BY <1>1, <1>2, <1>3 DEF MediaInv, ImagesKnown
<1>6. M!RowsAndImagesMatch'
  BY <1>1, <1>2, <1>3 DEF MediaInv, M!RowsAndImagesMatch, M!InProgress, M!Hit, OnItsWay
<1>7. ASSUME NEW p \in mediaRequests' PROVE RequestKnows(p)'
  <2>1. RequestKnows(p) /\ p.image # q.image  BY <1>1, <1>2 DEF MediaInv, OnItsWay
  <2>2. QED  BY <1>1, <1>3, <2>1 DEF RequestKnows, OnItsWay, M!Hit
<1>8. QED  BY <1>4, <1>5, <1>6, <1>7 DEF MediaInv

LEMMA CreateFailsStep ==
  ASSUME MediaInv, ServerAssumption, NEW q \in mediaRequests, M!CreateFails(q)
  PROVE  MediaInv'
<1>1. /\ q.pc = "create" /\ hit' = hit \cup {<<q.image, "create">>}
      /\ media' \in {media, media \cup {[image |-> q.image, by |-> q.by]}}
      /\ faults < MaxFaults /\ faults' = faults + 1
      /\ UNCHANGED <<assets, uploads, deletes, deleted>>
  BY DEF M!CreateFails, M!Fault
<1>2. PICK d \in M!Requests : /\ d.image = q.image /\ d.by = q.by /\ d.pc = "undo"
                              /\ mediaRequests' = (mediaRequests \ {q}) \cup {d}
  BY MediaGoes DEF MediaInv, M!CreateFails
<1>3. OnItsWay(q) /\ q.image \in assets /\ q.image <= uploads /\ q.image \in M!Images
  BY <1>1 DEF MediaInv, RequestKnows, ImagesKnown, M!TypeOK, M!Requests
<1>4. /\ media' \subseteq M!Rows /\ \A r \in media' : r \in media \/ r.image = q.image
      /\ \A i : i # q.image => (M!Listed(i)' <=> M!Listed(i))
      /\ \A i : M!Listed(i) => M!Listed(i)'
  <2>1. CASE media' = media  BY <2>1 DEF MediaInv, M!TypeOK, M!Listed
  <2>2. CASE media' = media \cup {[image |-> q.image, by |-> q.by]}  BY <2>2, RowAdded
  <2>3. QED  BY <1>1, <2>1, <2>2
<1>5. MaxFaults \in Nat /\ faults' \in 0..MaxFaults
  BY <1>1 DEF ServerAssumption, M!MediaAssumption, MediaInv, M!TypeOK
<1>6. M!TypeOK'  BY <1>1, <1>2, <1>3, <1>4, <1>5 DEF MediaInv, M!TypeOK
<1>7. ImagesKnown'  BY <1>1, <1>2, <1>3, <1>4 DEF MediaInv, ImagesKnown
<1>8. M!RowsAndImagesMatch'
  BY <1>1, <1>2, <1>3, <1>4 DEF MediaInv, M!RowsAndImagesMatch, M!InProgress, M!Hit, OnItsWay
<1>9. ASSUME NEW p \in mediaRequests' PROVE RequestKnows(p)'
  <2>1. CASE p = d  BY <1>1, <1>2, <2>1 DEF RequestKnows, M!Hit
  <2>2. CASE p \in mediaRequests /\ p # q
    <3>1. RequestKnows(p) /\ p.image # q.image  BY <1>3, <2>2 DEF MediaInv, OnItsWay
    <3>2. QED  BY <1>1, <1>2, <1>4, <3>1, <2>2 DEF RequestKnows, OnItsWay, M!Hit
  <2>3. QED  BY <1>2, <2>1, <2>2
<1>10. QED  BY <1>6, <1>7, <1>8, <1>9 DEF MediaInv

\* A request that ends, of an image that is not on its way: nobody's knowledge of any image
\* changes.
LEMMA Ended ==
  ASSUME MediaInv, NEW q \in mediaRequests, q.pc \in {"undo", "destroy", "drop"},
         mediaRequests' = mediaRequests \ {q}, assets' \in {assets, assets \ {q.image}},
         media' = media, deleted' = deleted, hit \subseteq hit', uploads' = uploads
  PROVE  /\ ImagesKnown'
         /\ \A p \in mediaRequests' : RequestKnows(p)'
         /\ \A i \in deleted' : i \notin assets' /\ ~M!Listed(i)'
<1>1. ImagesKnown'  BY DEF MediaInv, ImagesKnown
<1>2. ASSUME NEW p \in mediaRequests' PROVE RequestKnows(p)'
  <2>1. RequestKnows(p) /\ p \in mediaRequests /\ p # q  BY DEF MediaInv
  <2>2. p.pc \in {"upload", "create"} => p.image # q.image
    BY <2>1 DEF RequestKnows, OnItsWay
  <2>3. QED  BY <2>1, <2>2 DEF RequestKnows, OnItsWay, M!Listed, M!Hit
<1>3. \A i \in deleted' : i \notin assets' /\ ~M!Listed(i)'
  BY DEF MediaInv, M!RowsAndImagesMatch, M!Listed
<1>4. QED  BY <1>1, <1>2, <1>3

LEMMA UndoStep ==
  ASSUME MediaInv, ServerAssumption, NEW q \in mediaRequests,
         M!Undo(q) \/ M!UndoFails(q) \/ M!DestroyFails(q) \/ M!DropFails(q)
  PROVE  MediaInv'
<1>1. /\ mediaRequests' = mediaRequests \ {q} /\ assets' \in {assets, assets \ {q.image}}
      /\ UNCHANGED <<media, uploads, deletes, deleted>> /\ hit \subseteq hit'
      /\ q.pc \in {"undo", "destroy", "drop"}
      /\ assets' # assets \ {q.image} => <<q.image, q.pc>> \in hit'
      /\ q.pc \in {"destroy", "drop"} => <<q.image, q.pc>> \in hit'
      /\ hit' \in {hit, hit \cup {<<q.image, q.pc>>}}
      /\ faults' = faults \/ (faults < MaxFaults /\ faults' = faults + 1)
  BY DEF M!Undo, M!UndoFails, M!DestroyFails, M!DropFails, M!Fault, M!NoFault, M!Ends
<1>2. /\ ImagesKnown' /\ \A p \in mediaRequests' : RequestKnows(p)'
      /\ \A i \in deleted' : i \notin assets' /\ ~M!Listed(i)'
  BY <1>1, Ended
<1>3. RequestKnows(q) /\ q.image \in M!Images  BY DEF MediaInv, M!TypeOK, M!Requests
<1>4. MaxFaults \in Nat /\ faults' \in 0..MaxFaults
  BY <1>1 DEF ServerAssumption, M!MediaAssumption, MediaInv, M!TypeOK
<1>5. M!TypeOK'  BY <1>1, <1>3, <1>4 DEF MediaInv, M!TypeOK
<1>6. \A i \in assets' : M!Listed(i)' \/ M!InProgress(i)' \/ M!Hit(i, {"upload", "undo", "crash"})'
  <2> SUFFICES ASSUME NEW i \in assets'
               PROVE  M!Listed(i)' \/ M!InProgress(i)' \/ M!Hit(i, {"upload", "undo", "crash"})'
    OBVIOUS
  <2>1. M!Listed(i) \/ M!InProgress(i) \/ M!Hit(i, {"upload", "undo", "crash"})
    BY <1>1 DEF MediaInv, M!RowsAndImagesMatch
  <2>2. CASE i = q.image
    <3>1. CASE q.pc = "undo"  BY <1>1, <2>2, <3>1 DEF M!Hit
    <3>2. CASE q.pc # "undo"  BY <1>1, <1>3, <2>2, <3>2 DEF RequestKnows, M!Listed
    <3>3. QED  BY <3>1, <3>2
  <2>3. CASE i # q.image  BY <1>1, <2>1, <2>3 DEF M!Listed, M!InProgress, M!Hit
  <2>4. QED  BY <2>2, <2>3
<1>7. \A r \in media' : \/ r.image \in assets' \/ M!InProgress(r.image)'
                        \/ M!Hit(r.image, {"create", "destroy", "drop", "crash"})'
  <2> SUFFICES ASSUME NEW r \in media'
               PROVE  \/ r.image \in assets' \/ M!InProgress(r.image)'
                      \/ M!Hit(r.image, {"create", "destroy", "drop", "crash"})'
    OBVIOUS
  <2>1. \/ r.image \in assets \/ M!InProgress(r.image)
        \/ M!Hit(r.image, {"create", "destroy", "drop", "crash"})
    BY <1>1 DEF MediaInv, M!RowsAndImagesMatch
  <2>2. CASE r.image = q.image
    <3>1. CASE q.pc = "undo"  BY <1>1, <1>3, <2>2, <3>1 DEF RequestKnows, M!Hit
    <3>2. CASE q.pc # "undo"  BY <1>1, <2>2, <3>2 DEF M!Hit
    <3>3. QED  BY <3>1, <3>2
  <2>3. CASE r.image # q.image  BY <1>1, <2>1, <2>3 DEF M!InProgress, M!Hit
  <2>4. QED  BY <2>2, <2>3
<1>8. M!RowsAndImagesMatch'  BY <1>2, <1>6, <1>7 DEF M!RowsAndImagesMatch
<1>9. QED  BY <1>2, <1>5, <1>8 DEF MediaInv

LEMMA DeleteStep ==
  ASSUME MediaInv, ServerAssumption, NEW u \in Writers \cup Editors, NEW r \in media, M!Delete(u, r)
  PROVE  MediaInv'
<1> DEFINE n == [id |-> uploads + deletes, image |-> r.image, by |-> u, pc |-> "destroy"]
<1>1. /\ deletes' = deletes + 1 /\ deletes < MaxDeletes /\ mediaRequests' = mediaRequests \cup {n}
      /\ UNCHANGED <<assets, media, uploads, deleted, faults, hit>>
  BY DEF M!Delete, M!NoFault
<1>2. /\ r.image \in M!Images /\ r.image <= uploads /\ uploads \in Nat /\ deletes \in Nat
      /\ MaxDeletes \in Nat /\ M!Listed(r.image)
  BY DEF MediaInv, M!TypeOK, M!Rows, ImagesKnown, ServerAssumption, M!MediaAssumption, M!Listed
<1>3. n \in M!Requests /\ n.image = r.image /\ n.pc = "destroy"  BY <1>2 DEF M!Requests
<1> HIDE DEF n
<1>4. M!TypeOK'  BY <1>1, <1>2, <1>3 DEF MediaInv, M!TypeOK
<1>5. ImagesKnown'  BY <1>1, <1>2, <1>3 DEF MediaInv, ImagesKnown
<1>6. M!RowsAndImagesMatch'
  BY <1>1 DEF MediaInv, M!RowsAndImagesMatch, M!Listed, M!InProgress, M!Hit
<1>7. ASSUME NEW p \in mediaRequests' PROVE RequestKnows(p)'
  <2>1. CASE p = n  BY <1>1, <1>2, <1>3, <2>1 DEF RequestKnows, M!Listed
  <2>2. CASE p \in mediaRequests
    <3>1. RequestKnows(p)  BY <2>2 DEF MediaInv
    <3>2. p.pc \in {"upload", "create"} => p.image # n.image
      BY <1>2, <1>3, <3>1 DEF RequestKnows, OnItsWay
    <3>3. QED  BY <1>1, <3>1, <3>2 DEF RequestKnows, OnItsWay, M!Listed, M!Hit
  <2>3. QED  BY <1>1, <2>1, <2>2
<1>8. QED  BY <1>4, <1>5, <1>6, <1>7 DEF MediaInv

LEMMA DestroyStep ==
  ASSUME MediaInv, NEW q \in mediaRequests, M!Destroy(q)
  PROVE  MediaInv'
<1>1. /\ q.pc = "destroy" /\ assets' = assets \ {q.image}
      /\ UNCHANGED <<media, uploads, deletes, deleted, faults, hit>>
  BY DEF M!Destroy, M!NoFault
<1>2. PICK d \in M!Requests : /\ d.image = q.image /\ d.by = q.by /\ d.pc = "drop"
                              /\ mediaRequests' = (mediaRequests \ {q}) \cup {d}
  BY MediaGoes DEF MediaInv, M!Destroy
<1>3. q.image <= uploads  BY DEF MediaInv, ImagesKnown
<1>4. M!TypeOK'  BY <1>1, <1>2 DEF MediaInv, M!TypeOK
<1>5. ImagesKnown'  BY <1>1, <1>2, <1>3 DEF MediaInv, ImagesKnown
<1>6. M!RowsAndImagesMatch'
  BY <1>1, <1>2 DEF MediaInv, M!RowsAndImagesMatch, M!Listed, M!InProgress, M!Hit
<1>7. ASSUME NEW p \in mediaRequests' PROVE RequestKnows(p)'
  <2>1. CASE p = d  BY <1>1, <1>2, <2>1 DEF RequestKnows
  <2>2. CASE p \in mediaRequests /\ p # q
    <3>1. RequestKnows(p)  BY <2>2 DEF MediaInv
    <3>2. p.pc \in {"upload", "create"} => p.image # q.image
      BY <2>2, <3>1 DEF RequestKnows, OnItsWay
    <3>3. QED  BY <1>1, <1>2, <3>1, <3>2 DEF RequestKnows, OnItsWay, M!Listed, M!Hit
  <2>3. QED  BY <1>2, <2>1, <2>2
<1>8. QED  BY <1>4, <1>5, <1>6, <1>7 DEF MediaInv

LEMMA DropStep ==
  ASSUME MediaInv, NEW q \in mediaRequests, M!Drop(q)
  PROVE  MediaInv'
<1>1. /\ q.pc = "drop" /\ media' = {r \in media : r.image # q.image}
      /\ mediaRequests' = mediaRequests \ {q} /\ deleted' \in {deleted, deleted \cup {q.image}}
      /\ UNCHANGED <<assets, uploads, deletes, faults, hit>>
  BY DEF M!Drop, M!Ends, M!NoFault
<1>2. /\ q.image \notin assets /\ q.image <= uploads /\ q.image \in M!Images
      /\ q.image \in deleted' => q.image \in deleted \/ M!Listed(q.image)
  BY <1>1 DEF MediaInv, ImagesKnown, RequestKnows, M!Drop, M!TypeOK, M!Requests
<1>3. \A i : M!Listed(i)' <=> M!Listed(i) /\ i # q.image  BY <1>1 DEF M!Listed
<1>4. M!TypeOK'  BY <1>1, <1>2 DEF MediaInv, M!TypeOK
<1>5. ImagesKnown'  BY <1>1, <1>2 DEF MediaInv, ImagesKnown
<1>6. M!RowsAndImagesMatch'
  BY <1>1, <1>2, <1>3 DEF MediaInv, M!RowsAndImagesMatch, M!InProgress, M!Hit
<1>7. ASSUME NEW p \in mediaRequests' PROVE RequestKnows(p)'
  <2>1. RequestKnows(p) /\ p \in mediaRequests /\ p # q  BY <1>1 DEF MediaInv
  <2>2. p.pc \in {"upload", "create"} => p.image # q.image
    BY <2>1 DEF RequestKnows, OnItsWay
  <2>3. QED  BY <1>1, <1>2, <1>3, <2>1, <2>2 DEF RequestKnows, OnItsWay, M!Hit
<1>8. QED  BY <1>4, <1>5, <1>6, <1>7 DEF MediaInv

LEMMA CrashStep ==
  ASSUME MediaInv, ServerAssumption, M!Crash
  PROVE  MediaInv'
<1>1. /\ mediaRequests' = {} /\ faults < MaxFaults /\ faults' = faults + 1
      /\ hit' = hit \cup {<<q.image, "crash">> : q \in mediaRequests}
      /\ UNCHANGED <<assets, media, uploads, deletes, deleted>>
  BY DEF M!Crash
<1>2. MaxFaults \in Nat /\ faults' \in 0..MaxFaults
  BY <1>1 DEF ServerAssumption, M!MediaAssumption, MediaInv, M!TypeOK
<1>3. \A i : M!InProgress(i) => <<i, "crash">> \in hit'  BY <1>1 DEF M!InProgress
<1>4. M!TypeOK'
  <2>1. \A q \in mediaRequests : q.image \in M!Images  BY DEF MediaInv, M!TypeOK, M!Requests
  <2>2. QED  BY <1>1, <1>2, <2>1 DEF MediaInv, M!TypeOK
<1>5. ImagesKnown'  BY <1>1 DEF MediaInv, ImagesKnown
<1>6. \A i, what : M!Hit(i, what) => M!Hit(i, what)'  BY <1>1 DEF M!Hit
<1>7. M!RowsAndImagesMatch'
  <2>1. \A i \in assets : M!Listed(i) \/ M!Hit(i, {"upload", "undo", "crash"})'
    BY <1>3, <1>6 DEF MediaInv, M!RowsAndImagesMatch, M!Hit
  <2>2. \A r \in media : \/ r.image \in assets
                         \/ M!Hit(r.image, {"create", "destroy", "drop", "crash"})'
    BY <1>3, <1>6 DEF MediaInv, M!RowsAndImagesMatch, M!Hit
  <2>3. QED  BY <1>1, <2>1, <2>2 DEF MediaInv, M!RowsAndImagesMatch, M!Listed
<1>8. QED  BY <1>1, <1>4, <1>5, <1>7 DEF MediaInv

LEMMA MediaStep ==
  ASSUME MediaInv, ServerAssumption, M!Next \/ UNCHANGED mediaVars
  PROVE  MediaInv'
<1>1. ASSUME NEW u \in Writers \cup Editors, M!Upload(u) \/ \E r \in media : M!Delete(u, r)
      PROVE  MediaInv'
  BY <1>1, UploadStep, DeleteStep
<1>2. ASSUME NEW q \in mediaRequests,
             \/ M!Stored(q) \/ M!UploadFails(q) \/ M!Created(q) \/ M!CreateFails(q) \/ M!Undo(q)
             \/ M!UndoFails(q) \/ M!Destroy(q) \/ M!DestroyFails(q) \/ M!Drop(q) \/ M!DropFails(q)
      PROVE  MediaInv'
  BY <1>2, StoredStep, UploadFailsStep, CreatedStep, CreateFailsStep, UndoStep, DestroyStep, DropStep
<1>3. CASE UNCHANGED mediaVars
  BY <1>3 DEF mediaVars, MediaInv, M!TypeOK, ImagesKnown, M!RowsAndImagesMatch, RequestKnows,
              OnItsWay, M!Listed, M!InProgress, M!Hit
<1>4. QED  BY <1>1, <1>2, <1>3, CrashStep DEF M!Next

LEMMA MediaInit ==
  ASSUME M!Init, ServerAssumption PROVE MediaInv
BY DEF M!Init, ServerAssumption, M!MediaAssumption, MediaInv, M!TypeOK, ImagesKnown,
       M!RowsAndImagesMatch

-------------------------------------------------------------------------------
(* Staff *)

\* Nobody asks to change their own role; who asks has an account, and keeps it; an answer
\* that says that the mail was sent is about somebody who has the password, unless mails are
\* skipped.
StaffInv ==
    /\ S!TypeOK /\ staffBudget \in [{"changes", "invites", "lost"} -> Nat]
    /\ S!AdminRemains /\ S!SomebodyKnows
    /\ \A q \in requests : /\ q.op = "role" => q.by # q.about
                           /\ q.op = "answer" /\ q.mail => q.about \in mailed \/ ~staffMail
                           /\ role[q.by] \in S!Roles

LEMMA StaffInit ==
  ASSUME S!Init, ServerAssumption PROVE StaffInv
<1>1. PICK admins \in SUBSET Users, rest \in {"USER", None} :
        admins # {} /\ role = [u \in Users |-> IF u \in admins THEN "ADMIN" ELSE rest]
  BY DEF S!Init
<1>2. role \in [Users -> S!Roles \cup {None}] /\ \E u \in Users : role[u] = "ADMIN"
  BY <1>1 DEF S!Roles
<1>3. QED
  BY <1>2 DEF S!Init, ServerAssumption, S!StaffAssumption, StaffInv, S!TypeOK, S!AdminRemains,
              S!SomebodyKnows

\* What is left after something was spent.
LEMMA Spent ==
  ASSUME staffBudget \in [{"changes", "invites", "lost"} -> Nat],
         NEW what \in {"changes", "invites", "lost"}, S!Spend(what)
  PROVE  staffBudget' \in [{"changes", "invites", "lost"} -> Nat]
<1>1. staffBudget[what] \in Nat /\ staffBudget[what] > 0  BY DEF S!Spend
<1>2. staffBudget[what] - 1 \in Nat  BY <1>1
<1>3. staffBudget' = [staffBudget EXCEPT ![what] = staffBudget[what] - 1]  BY DEF S!Spend
<1>4. QED  BY <1>2, <1>3

\* Steps that only add a request, or do not touch the accounts at all.
LEMMA StaffAsks ==
  ASSUME StaffInv, requests \subseteq requests', requests' \subseteq S!Requests,
         \A q \in requests' \ requests :
            q.op # "answer" /\ (q.op = "role" => q.by # q.about) /\ role[q.by] \in S!Roles,
         signed' \subseteq Users, panel' \in {"closed", "form", "pending", "created"}, waits' \in Nat,
         staffBudget' \in [{"changes", "invites", "lost"} -> Nat],
         UNCHANGED <<role, staffMail, acted, seen, mailed, made, dropped, misled>>
  PROVE  StaffInv'
<1>1. S!TypeOK'  BY DEF StaffInv, S!TypeOK
<1>2. S!AdminRemains'  BY DEF StaffInv, S!AdminRemains
<1>3. S!SomebodyKnows'  BY DEF StaffInv, S!SomebodyKnows
<1>4. QED  BY <1>1, <1>2, <1>3 DEF StaffInv

\* An invitation's request or answer that is over, one way or the other.
LEMMA StaffEnds ==
  ASSUME StaffInv, NEW q \in requests, requests' = requests \ {q}, q.op \in {"create", "answer"},
         panel' \in {"closed", "form", "pending", "created"}, waits' \in Nat,
         staffBudget' \in [{"changes", "invites", "lost"} -> Nat],
         seen' \in {seen, seen \cup {q.about}}, dropped' \in {dropped, dropped \cup {q.about}},
         misled' = misled
            \/ (q.op = "answer" /\ q.mail /\ q.about \notin mailed /\ misled' = misled \cup {q.about}),
         q.op = "answer" => \/ q.about \in mailed \/ q.about \in misled'
                            \/ q.about \in seen' \/ q.about \in dropped',
         UNCHANGED <<role, staffMail, signed, acted, mailed, made>>
  PROVE  StaffInv'
<1>1. q.about \in Users /\ q.mail \in BOOLEAN  BY DEF StaffInv, S!TypeOK, S!Requests
<1>2. S!TypeOK'  BY <1>1 DEF StaffInv, S!TypeOK
<1>3. S!AdminRemains'  BY DEF StaffInv, S!AdminRemains
<1>4. S!SomebodyKnows'
  <2>0. misled \subseteq misled' /\ (staffMail => misled' = {})
    BY <1>1 DEF StaffInv, S!SomebodyKnows
  <2> SUFFICES ASSUME NEW u \in made
               PROVE  \/ u \in mailed \cup seen' \cup dropped' \cup misled'
                      \/ \E p \in requests' : p.op = "answer" /\ p.about = u
    BY <2>0 DEF S!SomebodyKnows
  <2>1. CASE q.op = "answer" /\ q.about = u  BY <1>1, <2>1 DEF StaffInv
  <2>2. CASE ~(q.op = "answer" /\ q.about = u)
    <3>1. \/ u \in mailed \cup seen \cup dropped \cup misled
          \/ \E p \in requests : p.op = "answer" /\ p.about = u
      BY DEF StaffInv, S!SomebodyKnows
    <3>2. QED  BY <2>0, <2>2, <3>1
  <2>3. QED  BY <2>1, <2>2
<1>5. QED  BY <1>2, <1>3, <1>4 DEF StaffInv

\* The actor is somebody else: an admin now, or no longer one when the change is made.
LEMMA CarryStep ==
  ASSUME StaffInv, NEW q \in requests, S!Carry(q)
  PROVE  StaffInv'
<1>1. /\ q.about \in Users /\ q.by \in Users /\ q.to \in S!Roles /\ q.had \in S!Roles
      /\ q.by # q.about
  BY DEF StaffInv, S!TypeOK, S!Requests, S!Carry
<1>2. /\ role' = [role EXCEPT ![q.about] = q.to] /\ acted' = acted \cup {<<q.had, role[q.by]>>}
      /\ requests' = requests \ {q} /\ q.op = "role"
      /\ UNCHANGED <<staffMail, signed, staffBudget, panel, waits, seen, mailed, made, dropped, misled>>
  BY DEF S!Carry, S!invitations
<1>3. role \in [Users -> S!Roles \cup {None}]  BY DEF StaffInv, S!TypeOK
<1>4. role'[q.by] = role[q.by]  BY <1>1, <1>2, <1>3
<1>5. S!TypeOK'
  <2>1. role' \in [Users -> S!Roles \cup {None}]  BY <1>1, <1>2, <1>3
  <2>2. role[q.by] \in S!Roles  BY DEF StaffInv
  <2>3. QED  BY <1>1, <1>2, <2>1, <2>2 DEF StaffInv, S!TypeOK
<1>6. S!AdminRemains'
  <2>1. CASE role[q.by] = "ADMIN"  BY <1>1, <1>4, <2>1 DEF S!AdminRemains
  <2>2. CASE role[q.by] # "ADMIN"
    <3> DEFINE a == <<q.had, role[q.by]>>
    <3>1. a \in acted' /\ a[2] # "ADMIN"  BY <1>2, <2>2
    <3>2. QED  BY <3>1 DEF S!AdminRemains
  <2>3. QED  BY <2>1, <2>2
<1>7. S!SomebodyKnows'  BY <1>2 DEF StaffInv, S!SomebodyKnows
<1>8. \A p \in requests' : role'[p.by] \in S!Roles
  <2>1. \A p \in requests : p.by \in Users /\ role[p.by] \in S!Roles
    BY DEF StaffInv, S!TypeOK, S!Requests
  <2>2. QED  BY <1>1, <1>2, <1>3, <2>1
<1>9. QED  BY <1>2, <1>5, <1>6, <1>7, <1>8 DEF StaffInv

\* A new account takes no admin away, and its answer is to come.
LEMMA CreateAccountStep ==
  ASSUME StaffInv, NEW q \in requests, NEW mail \in BOOLEAN, S!Create(q, mail)
  PROVE  StaffInv'
<1> DEFINE d == [q EXCEPT !.op = "answer", !.mail = mail]
<1>0. q \in S!Requests /\ role \in [Users -> S!Roles \cup {None}]  BY DEF StaffInv, S!TypeOK
<1>1. /\ q.about \in Users /\ q.by \in Users /\ q.to \in S!Roles /\ q.had \in S!Roles
      /\ role[q.by] \in S!Roles /\ q.op = "create"
  BY <1>0 DEF S!Requests, StaffInv, S!Create
<1>2. /\ d \in S!Requests /\ d.op = "answer" /\ d.mail = mail /\ d.about = q.about /\ d.by = q.by
  BY <1>0 DEF S!Requests
<1>3. /\ role[q.about] = None /\ role' = [role EXCEPT ![q.about] = q.to]
      /\ made' = made \cup {q.about} /\ acted' = acted \cup {<<q.had, role[q.by]>>}
      /\ requests' = (requests \ {q}) \cup {d}
      /\ mailed' = IF mail /\ staffMail THEN mailed \cup {q.about} ELSE mailed
      /\ staffBudget' = staffBudget \/ S!Spend("lost")
      /\ UNCHANGED <<staffMail, signed, panel, waits, seen, dropped, misled>>
  BY DEF S!Create
<1> HIDE DEF d
<1>4. staffBudget' \in [{"changes", "invites", "lost"} -> Nat]  BY <1>3, Spent DEF StaffInv
<1>5. role' \in [Users -> S!Roles \cup {None}]  BY <1>0, <1>1, <1>3
<1>6. S!TypeOK'  BY <1>1, <1>2, <1>3, <1>5 DEF StaffInv, S!TypeOK
<1>7. None # "ADMIN"
  BY ServerAssumption DEF ServerAssumption, S!StaffAssumption, S!Roles
<1>8. S!AdminRemains'
  <2>1. \A u \in Users : role[u] = "ADMIN" => role'[u] = "ADMIN"  BY <1>0, <1>3, <1>7
  <2>2. QED  BY <1>3, <2>1 DEF StaffInv, S!AdminRemains
<1>9. S!SomebodyKnows'
  <2>1. \A p \in requests : p.op = "answer" => p \in requests'  BY <1>1, <1>3
  <2>2. mailed \subseteq mailed'  BY <1>3
  <2>3. QED  BY <1>2, <1>3, <2>1, <2>2 DEF StaffInv, S!SomebodyKnows
<1>10. ASSUME NEW p \in requests'
       PROVE  /\ p.op = "role" => p.by # p.about
              /\ p.op = "answer" /\ p.mail => p.about \in mailed' \/ ~staffMail'
              /\ role'[p.by] \in S!Roles
  <2>1. CASE p = d  BY <1>0, <1>1, <1>2, <1>3, <2>1
  <2>2. CASE p \in requests
    <3>1. p.by \in Users /\ role[p.by] \in S!Roles  BY <2>2 DEF StaffInv, S!TypeOK, S!Requests
    <3>2. QED  BY <1>0, <1>1, <1>3, <2>2, <3>1 DEF StaffInv
  <2>3. QED  BY <1>3, <2>1, <2>2
<1>11. QED  BY <1>4, <1>6, <1>8, <1>9, <1>10 DEF StaffInv

LEMMA UpdateRoleStep ==
  ASSUME StaffInv, NEW u \in Users, NEW v \in Users, NEW to \in Choices, S!UpdateRole(u, v, to)
  PROVE  StaffInv'
<1> DEFINE n == [op |-> "role", by |-> u, about |-> v, to |-> to, had |-> role[u], mail |-> FALSE,
                 no |-> 0]
<1>1. role[u] = "ADMIN" /\ role[u] \in S!Roles /\ to \in S!Roles /\ u # v
  BY ServerAssumption DEF S!UpdateRole, S!LetsIn, S!Roles, ServerAssumption, S!StaffAssumption
<1>2. n \in S!Requests /\ n.op = "role" /\ n.by = u /\ n.about = v  BY <1>1 DEF S!Requests
<1>3. /\ requests' = requests \cup {n} /\ S!Spend("changes")
      /\ UNCHANGED <<role, staffMail, signed, acted, panel, waits, seen, mailed, made, dropped, misled>>
  BY DEF S!UpdateRole, S!guards, S!invitations
<1> HIDE DEF n
<1>4. staffBudget' \in [{"changes", "invites", "lost"} -> Nat]  BY <1>3, Spent DEF StaffInv
<1>5. /\ signed' \subseteq Users /\ panel' \in {"closed", "form", "pending", "created"}
      /\ waits' \in Nat
  BY <1>3 DEF StaffInv, S!TypeOK
<1>6. /\ requests \subseteq requests' /\ requests' \subseteq S!Requests
      /\ \A q \in requests' \ requests :
            q.op # "answer" /\ (q.op = "role" => q.by # q.about) /\ role[q.by] \in S!Roles
  BY <1>1, <1>2, <1>3 DEF StaffInv, S!TypeOK
<1>7. QED  BY <1>3, <1>4, <1>5, <1>6, StaffAsks

LEMMA SubmitStep ==
  ASSUME StaffInv, NEW u \in Users, NEW v \in Users, NEW to \in Choices, S!Submit(u, v, to)
  PROVE  StaffInv'
<1> DEFINE n == [op |-> "create", by |-> u, about |-> v, to |-> to, had |-> role[u], mail |-> FALSE,
                 no |-> staffBudget.invites]
<1>1. role[u] = "ADMIN" /\ role[u] \in S!Roles /\ to \in S!Roles /\ staffBudget.invites \in Nat
  BY ServerAssumption
  DEF S!Submit, S!LetsIn, S!Roles, ServerAssumption, S!StaffAssumption, StaffInv
<1>2. n \in S!Requests /\ n.op = "create" /\ n.by = u  BY <1>1 DEF S!Requests
<1>3. /\ requests' = requests \cup {n} /\ S!Spend("invites")
      /\ panel' = "pending" /\ waits' = staffBudget.invites
      /\ UNCHANGED <<role, staffMail, signed, acted, seen, mailed, made, dropped, misled>>
  BY DEF S!Submit, S!guards
<1> HIDE DEF n
<1>4. staffBudget' \in [{"changes", "invites", "lost"} -> Nat]  BY <1>3, Spent DEF StaffInv
<1>5. signed' \subseteq Users  BY <1>3 DEF StaffInv, S!TypeOK
<1>6. /\ requests \subseteq requests' /\ requests' \subseteq S!Requests
      /\ \A q \in requests' \ requests :
            q.op # "answer" /\ (q.op = "role" => q.by # q.about) /\ role[q.by] \in S!Roles
  BY <1>1, <1>2, <1>3 DEF StaffInv, S!TypeOK
<1>7. QED  BY <1>1, <1>3, <1>4, <1>5, <1>6, StaffAsks

LEMMA AnsweredStep ==
  ASSUME StaffInv, NEW q \in requests, S!CreateRefused(q) \/ S!Answer(q) \/ S!AnswerLost(q)
  PROVE  StaffInv'
<1>1. /\ requests' = requests \ {q} /\ q.op \in {"create", "answer"}
      /\ panel' \in {panel, "form", "created"} /\ waits' \in {waits, 0}
      /\ seen' \in {seen, seen \cup {q.about}} /\ dropped' \in {dropped, dropped \cup {q.about}}
      /\ \/ misled' = misled
         \/ q.op = "answer" /\ q.mail /\ q.about \notin mailed /\ misled' = misled \cup {q.about}
      /\ q.op = "answer" => \/ q.about \in mailed \/ q.about \in misled'
                            \/ q.about \in seen' \/ q.about \in dropped'
      /\ UNCHANGED <<role, staffMail, signed, acted, mailed, made>>
      /\ staffBudget' = staffBudget \/ S!Spend("lost")
  BY DEF S!CreateRefused, S!Answer, S!AnswerLost, S!Again, S!guards
<1>2. staffBudget' \in [{"changes", "invites", "lost"} -> Nat]  BY <1>1, Spent DEF StaffInv
<1>3. panel' \in {"closed", "form", "pending", "created"} /\ waits' \in Nat
  BY <1>1 DEF StaffInv, S!TypeOK
<1>4. QED  BY <1>1, <1>2, <1>3, StaffEnds

LEMMA StaffStep ==
  ASSUME StaffInv, S!Next \/ UNCHANGED staffVars
  PROVE  StaffInv'
<1>1. CASE \/ \E u \in Users : S!SignIn(u)
           \/ S!OpenPanel \/ S!ClosePanel \/ UNCHANGED staffVars
  <2>1. /\ UNCHANGED <<role, staffMail, acted, seen, mailed, made, dropped, misled, staffBudget, requests>>
        /\ signed' \subseteq signed \cup Users
        /\ panel' \in {panel, "form", "closed"} /\ waits' \in {waits, 0}
    BY <1>1 DEF S!SignIn, S!OpenPanel, S!ClosePanel, staffVars, S!guards, S!invitations
  <2>2. /\ signed' \subseteq Users /\ panel' \in {"closed", "form", "pending", "created"}
        /\ waits' \in Nat /\ staffBudget' \in [{"changes", "invites", "lost"} -> Nat]
    BY <2>1 DEF StaffInv, S!TypeOK
  <2>3. requests' = requests /\ requests \subseteq S!Requests  BY <2>1 DEF StaffInv, S!TypeOK
  <2>4. QED  BY <2>1, <2>2, <2>3, StaffAsks
<1>2. ASSUME NEW u \in Users, NEW v \in Users, NEW to \in Choices,
             S!UpdateRole(u, v, to) \/ S!Submit(u, v, to)
      PROVE  StaffInv'
  BY <1>2, UpdateRoleStep, SubmitStep
<1>3. ASSUME NEW q \in requests,
             S!Carry(q) \/ S!CreateRefused(q) \/ S!Answer(q) \/ S!AnswerLost(q)
      PROVE  StaffInv'
  BY <1>3, CarryStep, AnsweredStep
<1>4. QED  BY <1>1, <1>2, <1>3, CreateAccountStep DEF S!Next
(***************************************************************************)
(* FrontPage, for any stories, sections, tags and sizes, and for what      *)
(* editors do between any two queries.                                     *)
(*                                                                         *)
(* FirstOf says what a query gives: the first n of a set in an order.      *)
(* What each answer promises is said of the stories live all along and of  *)
(* those live at some time; the first only get fewer and the second more,  *)
(* so that an answer keeps its promise while others are read, and home()   *)
(* and related() put theirs together from those of their queries.          *)
(***************************************************************************)
-------------------------------------------------------------------------------
(* Lists in order *)

\* R is a strict order of V in which any two are in turn.
Orders(V, R) ==
    /\ \A s \in V : <<s, s>> \notin R
    /\ \A s \in V : \A t \in V : \A u \in V : <<s, t>> \in R /\ <<t, u>> \in R => <<s, u>> \in R
    /\ \A s \in V : \A t \in V : s = t \/ <<s, t>> \in R \/ <<t, s>> \in R

\* f is the first n of V in the order R, or all if V is smaller.
FirstOf(f, V, R, n) ==
    /\ f \in Seq(V) /\ Len(f) <= n
    /\ \A i \in DOMAIN f : \A j \in DOMAIN f : i < j => <<f[i], f[j]>> \in R
    /\ \A s \in V : \/ \E i \in DOMAIN f : f[i] = s
                    \/ Len(f) = n /\ \A i \in DOMAIN f : <<f[i], s>> \in R

ByRank(V, R) ==
    [i \in 1..Cardinality(V) |-> CHOOSE s \in V : Cardinality({t \in V : <<t, s>> \in R}) = i - 1]

\* How many come before tells the place: 0, 1, and so on, each once.
LEMMA RanksAreAll ==
  ASSUME NEW V, IsFiniteSet(V), NEW R, Orders(V, R), NEW m \in 0..(Cardinality(V) - 1)
  PROVE  \E s \in V : Cardinality({t \in V : <<t, s>> \in R}) = m
<1> DEFINE before(s) == {t \in V : <<t, s>> \in R}
           rank(s) == Cardinality(before(s))
           n == Cardinality(V)
           range == 0..(n - 1)
           f == [s \in V |-> rank(s)]
<1>1. n \in Nat  BY FS_CardinalityType
<1>2. ASSUME NEW s \in V PROVE IsFiniteSet(before(s)) /\ rank(s) \in range /\ rank(s) \in Nat
  <2>1. before(s) \subseteq V \ {s}  BY DEF Orders
  <2>2. IsFiniteSet(V \ {s}) /\ Cardinality(V \ {s}) = n - 1  BY FS_RemoveElement
  <2>3. IsFiniteSet(before(s)) /\ rank(s) <= n - 1  BY <2>1, <2>2, FS_Subset
  <2>4. rank(s) \in Nat  BY <2>3, FS_CardinalityType
  <2>5. QED  BY <1>1, <2>3, <2>4
<1>3. ASSUME NEW s \in V, NEW t \in V, <<s, t>> \in R PROVE rank(s) < rank(t)
  <2>1. before(s) \cup {s} \subseteq before(t)  BY <1>3 DEF Orders
  <2>2. s \notin before(s)  BY DEF Orders
  <2>3. Cardinality(before(s) \cup {s}) = rank(s) + 1  BY <1>2, <2>2, FS_AddElement
  <2>4. Cardinality(before(s) \cup {s}) <= rank(t)  BY <1>2, <2>1, FS_Subset
  <2>5. rank(s) \in Nat /\ rank(t) \in Nat  BY <1>2
  <2>6. QED  BY <2>3, <2>4, <2>5
<1>4. f \in Injection(V, range)
  <2>1. f \in [V -> range]  BY <1>2
  <2>2. ASSUME NEW s \in V, NEW t \in V, s # t PROVE f[s] # f[t]
    <3>1. rank(s) \in Nat /\ rank(t) \in Nat  BY <1>2
    <3>2. rank(s) < rank(t) \/ rank(t) < rank(s)  BY <1>3, <2>2 DEF Orders
    <3> HIDE DEF rank
    <3>3. QED  BY <3>1, <3>2
  <2>3. QED  BY <2>1, <2>2 DEF Injection, IsInjective
<1>5. IsFiniteSet(range) /\ Cardinality(range) = n
  <2>1. 0 \in Int /\ n - 1 \in Int  BY <1>1
  <2>2. QED  BY <1>1, <2>1, FS_Interval
<1>6. f \in Surjection(V, range)
  <2> HIDE DEF f, range, n
  <2>1. Cardinality(V) = Cardinality(range)  BY <1>5 DEF n
  <2>2. QED  BY <1>4, <1>5, <2>1, FS_Injection
<1>7. QED  BY <1>6 DEF Surjection

LEMMA RanksOrder ==
  ASSUME NEW V, IsFiniteSet(V), NEW R, Orders(V, R), NEW f, f = ByRank(V, R)
  PROVE  FirstOf(f, V, R, Cardinality(V)) /\ \A s \in V : \E i \in DOMAIN f : f[i] = s
<1>1. PICK n : n = Cardinality(V)  OBVIOUS
<1> DEFINE rank(s) == Cardinality({t \in V : <<t, s>> \in R})
<1>2. n \in Nat  BY <1>1, FS_CardinalityType
<1>3. DOMAIN f = 1..n  BY <1>1 DEF ByRank
<1>4. ASSUME NEW i \in 1..n PROVE f[i] \in V /\ rank(f[i]) = i - 1
  <2>1. i - 1 \in 0..(n - 1)  BY <1>2
  <2>2. \E s \in V : rank(s) = i - 1  BY <1>1, <2>1, RanksAreAll
  <2>3. f[i] = CHOOSE s \in V : rank(s) = i - 1  BY <1>1 DEF ByRank
  <2> HIDE DEF rank
  <2>4. QED  BY <2>2, <2>3
<1>5. f \in Seq(V) /\ Len(f) = n
  <2>1. f \in [1..n -> V]
    <3>1. f = [i \in 1..n |-> CHOOSE s \in V : Cardinality({t \in V : <<t, s>> \in R}) = i - 1]
      BY <1>1 DEF ByRank
    <3>2. f = [i \in DOMAIN f |-> f[i]]  BY <3>1
    <3>3. \A i \in 1..n : f[i] \in V  BY <1>4
    <3>4. QED  BY ONLY <1>3, <3>2, <3>3
  <2>2. QED  BY <1>2, <2>1
<1>6. ASSUME NEW s \in V, NEW t \in V, <<s, t>> \in R PROVE rank(s) < rank(t)
  <2> DEFINE before(u) == {v \in V : <<v, u>> \in R}
  <2>1. before(s) \cup {s} \subseteq before(t)  BY <1>6 DEF Orders
  <2>2. s \notin before(s) /\ before(s) \subseteq V /\ before(t) \subseteq V  BY DEF Orders
  <2>3. IsFiniteSet(before(s)) /\ IsFiniteSet(before(t))  BY <2>2, FS_Subset
  <2>4. Cardinality(before(s) \cup {s}) = Cardinality(before(s)) + 1  BY <2>2, <2>3, FS_AddElement
  <2>5. Cardinality(before(s) \cup {s}) <= Cardinality(before(t))  BY <2>1, <2>3, FS_Subset
  <2>6. Cardinality(before(s)) \in Nat /\ Cardinality(before(t)) \in Nat
    BY <2>3, FS_CardinalityType
  <2>7. Cardinality(before(s)) < Cardinality(before(t))
    <3> HIDE DEF before
    <3>1. QED  BY <2>4, <2>5, <2>6
  <2>8. QED  BY <2>7
<1>7. ASSUME NEW i \in 1..n, NEW j \in 1..n, i < j PROVE <<f[i], f[j]>> \in R
  <2>1. f[i] # f[j]
    <3>1. rank(f[i]) = i - 1 /\ rank(f[j]) = j - 1 /\ i \in Nat /\ j \in Nat  BY <1>2, <1>4
    <3> HIDE DEF rank
    <3>2. i - 1 # j - 1  BY <1>7, <3>1
    <3>3. QED  BY <3>1, <3>2
  <2>2. <<f[j], f[i]>> \in R => rank(f[j]) < rank(f[i])  BY <1>4, <1>6
  <2>3. ~(j - 1 < i - 1)  BY <1>7
  <2>4. <<f[j], f[i]>> \notin R  BY <1>4, <2>2, <2>3
  <2>5. QED  BY <1>4, <2>1, <2>4 DEF Orders
<1>8. ASSUME NEW s \in V PROVE \E i \in DOMAIN f : f[i] = s
  <2>1. PICK T : T = {t \in V : <<t, s>> \in R}  OBVIOUS
  <2>2. rank(s) \in 0..(n - 1)
    <3>1. T \subseteq V \ {s}  BY <2>1 DEF Orders
    <3>2. IsFiniteSet(V \ {s}) /\ Cardinality(V \ {s}) = n - 1  BY <1>1, FS_RemoveElement
    <3>3. IsFiniteSet(T) /\ Cardinality(T) <= n - 1  BY <3>1, <3>2, FS_Subset
    <3>4. Cardinality(T) \in Nat  BY <3>3, FS_CardinalityType
    <3>5. QED  BY <1>2, <2>1, <3>3, <3>4
  <2>3. PICK i \in 1..n : i = rank(s) + 1
    <3> HIDE DEF rank
    <3>1. rank(s) + 1 \in 1..n  BY <1>2, <2>2
    <3>2. QED  BY <3>1
  <2>4. rank(f[i]) = rank(s) /\ f[i] \in V
    <3>1. rank(f[i]) = i - 1 /\ f[i] \in V  BY <1>4
    <3> HIDE DEF rank
    <3>2. QED  BY <2>2, <2>3, <3>1
  <2>5. <<s, f[i]>> \in R => rank(s) < rank(f[i])  BY <1>6, <2>4
  <2>6. <<f[i], s>> \in R => rank(f[i]) < rank(s)  BY <1>6, <2>4
  <2>7. f[i] = s
    <3> HIDE DEF rank
    <3>1. ~(rank(s) < rank(s))  BY <2>2
    <3>2. QED  BY <2>4, <2>5, <2>6, <3>1 DEF Orders
  <2>8. QED  BY <1>3, <2>7
<1>9. QED  BY <1>1, <1>3, <1>5, <1>7, <1>8 DEF FirstOf

\* The first n of a list.
LEMMA TakeIs ==
  ASSUME NEW V, NEW f \in Seq(V), NEW n \in Nat, NEW g, g = F!Take(f, n)
  PROVE  /\ g \in Seq(V) /\ Len(g) = (IF Len(f) < n THEN Len(f) ELSE n)
         /\ DOMAIN g = 1..Len(g) /\ DOMAIN g \subseteq DOMAIN f
         /\ \A i \in DOMAIN g : g[i] = f[i]
<1>1. PICK l, m : l = Len(f) /\ m = (IF l < n THEN l ELSE n)  OBVIOUS
<1>2. l \in Nat /\ m \in 0..l /\ DOMAIN f = 1..l  BY <1>1, LenProperties
<1>3. g = SubSeq(f, 1, m)  BY <1>1 DEF F!Take
<1>4. \A i \in 1..m : f[i] \in V  BY <1>1, <1>2, ElementOfSeq
<1>5. 1 \in Int /\ m \in Int  BY <1>2
<1>6. /\ g \in Seq(V) /\ Len(g) = (IF 1 <= m THEN m - 1 + 1 ELSE 0)
      /\ \A i \in 1..(m - 1 + 1) : g[i] = f[1 + i - 1]
  BY <1>3, <1>4, <1>5, SubSeqProperties
<1>7. Len(g) = m /\ \A i \in 1..m : g[i] = f[i]
  <2>1. Len(g) = m  BY <1>2, <1>6
  <2>2. ASSUME NEW i \in 1..m PROVE g[i] = f[i]
    <3>1. i \in 1..(m - 1 + 1) /\ 1 + i - 1 = i  BY <1>2
    <3>2. QED  BY <1>6, <3>1
  <2>3. QED  BY <2>1, <2>2
<1>8. DOMAIN g = 1..m  BY <1>6, <1>7, LenProperties
<1>9. QED  BY <1>1, <1>2, <1>6, <1>7, <1>8

LEMMA FirstTaken ==
  ASSUME NEW V, IsFiniteSet(V), NEW R, Orders(V, R), NEW n \in Nat
  PROVE  FirstOf(F!Take(ByRank(V, R), n), V, R, n)
<1>1. PICK f, g : f = ByRank(V, R) /\ g = F!Take(f, n)  OBVIOUS
<1>2. FirstOf(f, V, R, Cardinality(V)) /\ \A s \in V : \E i \in DOMAIN f : f[i] = s
  BY <1>1, RanksOrder
<1>3. f \in Seq(V)  BY <1>2 DEF FirstOf
<1>4. /\ g \in Seq(V) /\ Len(g) = (IF Len(f) < n THEN Len(f) ELSE n)
      /\ DOMAIN g = 1..Len(g) /\ DOMAIN g \subseteq DOMAIN f
      /\ \A i \in DOMAIN g : g[i] = f[i]
  BY <1>1, <1>3, TakeIs
<1>5. DOMAIN f = 1..Len(f) /\ Len(f) \in Nat  BY <1>3, LenProperties
<1>6. \A i \in DOMAIN f : \A j \in DOMAIN f : i < j => <<f[i], f[j]>> \in R  BY <1>2 DEF FirstOf
<1>7. ASSUME NEW s \in V, \A i \in DOMAIN g : g[i] # s
      PROVE  Len(g) = n /\ \A i \in DOMAIN g : <<g[i], s>> \in R
  <2>1. PICK k \in DOMAIN f : f[k] = s  BY <1>2
  <2>2. k \notin DOMAIN g  BY <1>4, <1>7, <2>1
  <2>3. Len(g) = n /\ \A i \in DOMAIN g : i < k
    <3>1. PICK l, m : l = Len(f) /\ m = Len(g)  OBVIOUS
    <3>2. k \in 1..l /\ k \notin 1..m /\ m = (IF l < n THEN l ELSE n) /\ l \in Nat
      BY <1>4, <1>5, <2>2, <3>1
    <3>3. m = n /\ \A i \in 1..m : i < k  BY <3>2
    <3>4. QED  BY <1>4, <3>1, <3>3
  <2>4. QED  BY <1>4, <1>6, <2>1, <2>3
<1>8. Len(g) <= n  BY <1>4, <1>5
<1>9. \A i \in DOMAIN g : \A j \in DOMAIN g : i < j => <<g[i], g[j]>> \in R  BY <1>4, <1>6
<1>10. QED  BY <1>1, <1>4, <1>7, <1>8, <1>9 DEF FirstOf

-------------------------------------------------------------------------------
(* The queries *)

LEMMA NewsCounts ==
  /\ \A V : F!Cardinality(V) = Cardinality(V) /\ (F!IsFiniteSet(V) <=> IsFiniteSet(V))
  /\ \A f, s : s \in F!ToSet(f) <=> \E i \in DOMAIN f : f[i] = s
BY DEF F!Cardinality, Cardinality, F!IsFiniteSet, IsFiniteSet, F!ToSet

LEMMA NewsConstants ==
  /\ Stories \subseteq Nat /\ 0 \notin Stories /\ \A V \in SUBSET Stories : IsFiniteSet(V)
  /\ "featured" \notin Rails /\ "recent" \notin Rails
  /\ \A s \in Stories : IsFiniteSet(TagsOf[s])
  /\ ShownSize \in Nat /\ RecentSize \in Nat /\ RecentSize > ShownSize /\ RailSize \in Nat
  /\ Limit \in Nat /\ Pool \in Nat /\ Pool >= Limit
<1>1. F!FrontPageAssumption  BY ServerAssumption
<1>2. IsFiniteSet(Stories)  BY <1>1, NewsCounts DEF F!FrontPageAssumption
<1>3. \A V \in SUBSET Stories : IsFiniteSet(V)  BY <1>2, FS_Subset
<1>4. \A s \in Stories : IsFiniteSet(TagsOf[s])  BY <1>1, NewsCounts DEF F!FrontPageAssumption
<1>5. QED  BY <1>1, <1>3, <1>4 DEF F!FrontPageAssumption

Newer == {p \in Nat \X Nat : p[1] > p[2]}

LEMMA NewerOrders ==
  ASSUME NEW V \in SUBSET Nat PROVE Orders(V, Newer)
<1>1. \A s, t \in Nat : <<s, t>> \in Newer <=> s > t  BY DEF Newer
<1>2. QED  BY <1>1 DEF Orders

\* The first n of a query by date.
LEMMA NewestFirst ==
  ASSUME NEW V \in SUBSET Stories, NEW n \in Nat
  PROVE  FirstOf(F!Take(F!Newest(V), n), V, Newer, n)
<1>1. V \subseteq Nat /\ IsFiniteSet(V)  BY NewsConstants
<1>2. F!Newest(V) = ByRank(V, Newer)
  <2>1. F!Newest(V) = [i \in 1..Cardinality(V) |-> CHOOSE s \in V : Cardinality({t \in V : t > s}) = i - 1]
    BY NewsCounts DEF F!Newest, F!Ordered
  <2>2. \A s \in V : {t \in V : t > s} = {t \in V : <<t, s>> \in Newer}  BY <1>1 DEF Newer
  <2>3. QED  BY <2>1, <2>2 DEF ByRank
<1>3. QED  BY <1>1, <1>2, NewerOrders, FirstTaken

PinOrder(p) ==
    {q \in Stories \X Stories :
        IF p[q[1]] = p[q[2]] THEN q[1] > q[2]
                             ELSE p[q[1]] # 0 /\ (p[q[2]] = 0 \/ p[q[1]] < p[q[2]])}

LEMMA PinnedFirstIs ==
  ASSUME NEW V \in SUBSET Stories, NEW n \in Nat, pin \in [Stories -> Nat]
  PROVE  FirstOf(F!Take(F!PinnedFirst(V), n), V, PinOrder(pin), n)
<1>1. V \subseteq Nat /\ IsFiniteSet(V)  BY NewsConstants
<1>2. \A s \in V : \A t \in V : <<t, s>> \in PinOrder(pin) <=>
        IF pin[t] = pin[s] THEN t > s ELSE pin[t] # 0 /\ (pin[s] = 0 \/ pin[t] < pin[s])
  BY DEF PinOrder
<1>3. F!PinnedFirst(V) = ByRank(V, PinOrder(pin))
  <2>1. F!PinnedFirst(V) = [i \in 1..Cardinality(V) |-> CHOOSE s \in V : Cardinality({t \in V :
            IF pin[t] = pin[s] THEN t > s ELSE pin[t] # 0 /\ (pin[s] = 0 \/ pin[t] < pin[s])}) = i - 1]
    BY NewsCounts DEF F!PinnedFirst, F!Ordered
  <2>2. \A s \in V :
          {t \in V : IF pin[t] = pin[s] THEN t > s ELSE pin[t] # 0 /\ (pin[s] = 0 \/ pin[t] < pin[s])}
            = {t \in V : <<t, s>> \in PinOrder(pin)}
    BY <1>2
  <2>3. QED  BY <2>1, <2>2 DEF ByRank
<1>4. Orders(V, PinOrder(pin))
  <2>1. \A s \in V : s \in Nat /\ pin[s] \in Nat  BY <1>1
  <2>2. QED  BY <1>2, <2>1 DEF Orders
<1>5. QED  BY <1>1, <1>3, <1>4, FirstTaken

SharedOrder(o) ==
    {q \in Stories \X Stories :
        LET a == Cardinality(TagsOf[q[1]] \cap TagsOf[o])
            b == Cardinality(TagsOf[q[2]] \cap TagsOf[o])
        IN  a > b \/ (a = b /\ q[1] > q[2])}

LEMMA SharedIs ==
  ASSUME NEW s \in Stories
  PROVE  F!Shared(s) = Cardinality(TagsOf[s] \cap TagsOf[related.of]) /\ F!Shared(s) \in Nat
<1>1. F!Shared(s) = Cardinality(TagsOf[s] \cap TagsOf[related.of])  BY NewsCounts DEF F!Shared
<1>2. IsFiniteSet(TagsOf[s] \cap TagsOf[related.of])  BY NewsConstants, FS_Subset
<1>3. QED  BY <1>1, <1>2, FS_CardinalityType

\* The candidates by the tags they share.
LEMMA SharedFirst ==
  ASSUME NEW V \in SUBSET Stories, NEW n \in Nat
  PROVE  FirstOf(F!Take(F!MostShared(V), n), V, SharedOrder(related.of), n)
<1>1. V \subseteq Nat /\ IsFiniteSet(V)  BY NewsConstants
<1>2. \A s \in V : \A t \in V : <<t, s>> \in SharedOrder(related.of) <=>
        F!Shared(t) > F!Shared(s) \/ (F!Shared(t) = F!Shared(s) /\ t > s)
  BY SharedIs DEF SharedOrder
<1>3. F!MostShared(V) = ByRank(V, SharedOrder(related.of))
  <2>1. F!MostShared(V) = [i \in 1..Cardinality(V) |-> CHOOSE s \in V : Cardinality({t \in V :
            F!Shared(t) > F!Shared(s) \/ (F!Shared(t) = F!Shared(s) /\ t > s)}) = i - 1]
    BY NewsCounts DEF F!MostShared, F!Ordered
  <2>2. \A s \in V : {t \in V : F!Shared(t) > F!Shared(s) \/ (F!Shared(t) = F!Shared(s) /\ t > s)}
                       = {t \in V : <<t, s>> \in SharedOrder(related.of)}
    BY <1>2
  <2>3. QED  BY <2>1, <2>2 DEF ByRank
<1>4. Orders(V, SharedOrder(related.of))
  <2>1. \A s \in V : s \in Nat /\ F!Shared(s) \in Nat  BY <1>1, SharedIs
  <2>2. QED  BY <1>2, <2>1 DEF Orders
<1>5. QED  BY <1>1, <1>3, <1>4, FirstTaken

-------------------------------------------------------------------------------
(* The front page *)

\* f is what the query of the newest gives: of the stories al that are live all along it
\* passes over none for an older one.
RecentFits(f, al, ev) ==
    /\ f \in Seq(Stories) /\ \A i \in DOMAIN f : f[i] \in ev
    /\ \A i \in DOMAIN f : \A j \in DOMAIN f : i < j => f[i] > f[j]
    /\ \A s \in al : \/ \E i \in DOMAIN f : f[i] = s
                     \/ Len(f) = RecentSize /\ \A i \in DOMAIN f : f[i] > s

\* f is the story that is featured, and it is among st if any is.
HeroFits(f, st, ev) ==
    /\ f \in Seq(Stories) /\ Len(f) <= 1 /\ \A i \in DOMAIN f : f[i] \in ev
    /\ \A s \in st : Len(f) = 1 /\ f[1] = s

PageFits(hero, rest, al, ev, st) ==
    /\ hero \in Stories \cup {0} /\ rest \in Seq(Stories)
    /\ hero # 0 => hero \in ev
    /\ \A i \in DOMAIN rest : rest[i] \in ev /\ rest[i] # hero
    /\ \A i \in DOMAIN rest : \A j \in DOMAIN rest : i < j => rest[i] > rest[j]
    /\ \A s \in st : hero = s
    /\ hero = 0 => al = {}
    /\ \A s \in al : \/ s = hero \/ \E i \in DOMAIN rest : rest[i] = s
                     \/ Len(rest) >= ShownSize /\ \A i \in DOMAIN rest : rest[i] > s

LEMMA RecentIs ==
  ASSUME live \subseteq Stories, NEW f, f = F!Take(F!Newest(live), RecentSize),
         NEW al \in SUBSET live, NEW ev, live \subseteq ev
  PROVE  RecentFits(f, al, ev)
<1>1. FirstOf(f, live, Newer, RecentSize)  BY NewestFirst, NewsConstants
<1>2. f \in Seq(live) /\ DOMAIN f = 1..Len(f)  BY <1>1, LenProperties DEF FirstOf
<1>3. \A i \in DOMAIN f : f[i] \in live  BY <1>2, ElementOfSeq
<1>4. f \in Seq(Stories)
  <2>1. Len(f) \in Nat /\ f \in [1..Len(f) -> live]  BY <1>2, LenProperties
  <2>2. f \in [1..Len(f) -> Stories]  BY <2>1
  <2>3. QED  BY <2>1, <2>2
<1>5. \A s, t \in Stories : <<s, t>> \in Newer <=> s > t  BY NewsConstants DEF Newer
<1>6. QED  BY <1>1, <1>3, <1>4, <1>5 DEF FirstOf, RecentFits

LEMMA HeroIs ==
  ASSUME live \subseteq Stories, featured \subseteq live, \A s, t \in featured : s = t,
         NEW f, f = F!Take(F!Newest(live \cap featured), 1), NEW st \in SUBSET featured,
         NEW ev, live \subseteq ev
  PROVE  HeroFits(f, st, ev)
<1>1. FirstOf(f, live \cap featured, Newer, 1)  BY NewestFirst
<1>2. /\ f \in Seq(live \cap featured) /\ DOMAIN f = 1..Len(f)
      /\ Len(f) \in Nat /\ f \in [1..Len(f) -> live \cap featured]
  BY <1>1, LenProperties DEF FirstOf
<1>3. \A i \in DOMAIN f : f[i] \in live \cap featured  BY <1>2
<1>4. f \in Seq(Stories)
  <2>1. f \in [1..Len(f) -> Stories]  BY <1>2
  <2>2. QED  BY <1>2, <2>1
<1>5. Len(f) <= 1  BY <1>1 DEF FirstOf
<1>6. ASSUME NEW s \in st PROVE Len(f) = 1 /\ f[1] = s
  <2>1. s \in live \cap featured  OBVIOUS
  <2>2. Len(f) = 1
    <3>1. (\E i \in DOMAIN f : f[i] = s) \/ Len(f) = 1  BY <1>1, <2>1 DEF FirstOf
    <3>2. PICK n : n = Len(f)  OBVIOUS
    <3>3. DOMAIN f = 1..n /\ n \in Nat /\ n <= 1 /\ (DOMAIN f # {} \/ n = 1)
      BY <1>2, <1>5, <3>1, <3>2
    <3>4. n = 1  BY ONLY <3>3
    <3>5. QED  BY <3>2, <3>4
  <2>3. f[1] \in featured
    <3>1. 1 \in DOMAIN f  BY <1>2, <2>2
    <3>2. QED  BY <1>3, <3>1
  <2>4. QED  BY <2>2, <2>3
<1>7. QED  BY <1>3, <1>4, <1>5, <1>6 DEF HeroFits

\* A list that goes down, without x.
LEMMA RestIs ==
  ASSUME NEW r \in Seq(Stories), \A i \in DOMAIN r : \A j \in DOMAIN r : i < j => r[i] > r[j],
         NEW x, NEW q, q = F!Rest(r, x)
  PROVE  /\ q \in Seq(Stories) /\ Len(q) >= Len(r) - 1
         /\ \A i \in DOMAIN q : q[i] # x /\ \E k \in DOMAIN r : q[i] = r[k]
         /\ \A i \in DOMAIN q : \A j \in DOMAIN q : i < j => q[i] > q[j]
         /\ \A k \in DOMAIN r : r[k] = x \/ \E i \in DOMAIN q : q[i] = r[k]
<1>1. PICK l : l = Len(r)  OBVIOUS
<1>2. l \in Nat /\ DOMAIN r = 1..l /\ \A i \in 1..l : r[i] \in Stories  BY <1>1, LenProperties
<1>3. CASE \A i \in 1..l : r[i] # x
  <2>1. q = r  BY <1>1, <1>3 DEF F!Rest, F!RemoveFirst
  <2>2. QED  BY <1>1, <1>2, <1>3, <2>1
<1>4. CASE \E i \in 1..l : r[i] = x
  <2>1. PICK k \in 1..l : r[k] = x  BY <1>4
  <2>2. \A i \in 1..l : r[i] = x => i = k
    <3>1. \A i \in 1..l : r[i] \in Nat  BY <1>2, NewsConstants
    <3>2. ASSUME NEW i \in 1..l, r[i] = x PROVE i = k
      <4>1. ~(r[k] > r[k])  BY <3>1
      <4>2. ~(i < k) /\ ~(k < i)  BY <1>2, <2>1, <3>2, <4>1
      <4>3. QED  BY <1>2, <4>2
    <3>3. QED  BY <3>2
  <2>3. F!SelectInSeq(r, LAMBDA v : v = x) = k
    <3>1. {i \in 1..l : r[i] = x} = {k}  BY <2>1, <2>2
    <3>2. F!Min({k}) = k  BY <2>1 DEF F!Min
    <3>3. QED  BY <1>1, <3>1, <3>2 DEF F!SelectInSeq
  <2>4. q = SubSeq(r, 1, k - 1) \o SubSeq(r, k + 1, l)
    BY <1>1, <1>4, <2>3 DEF F!Rest, F!RemoveFirst, F!RemoveAt
  <2>5. PICK a, b : a = SubSeq(r, 1, k - 1) /\ b = SubSeq(r, k + 1, l)  OBVIOUS
  <2>6. /\ a \in Seq(Stories) /\ Len(a) = k - 1 /\ \A i \in 1..(k - 1) : a[i] = r[i]
    <3>1. PICK m : m = k - 1  OBVIOUS
    <3>2. 1 \in Int /\ m \in Int /\ m >= 0 /\ \A i \in 1..m : r[i] \in Stories  BY <1>2, <3>1
    <3>3. /\ a \in Seq(Stories) /\ Len(a) = (IF 1 <= m THEN m - 1 + 1 ELSE 0)
          /\ \A i \in 1..(m - 1 + 1) : a[i] = r[1 + i - 1]
      BY <2>5, <3>1, <3>2, SubSeqProperties
    <3>4. Len(a) = m  BY <3>2, <3>3
    <3>5. ASSUME NEW i \in 1..m PROVE a[i] = r[i]
      <4>1. i \in 1..(m - 1 + 1) /\ 1 + i - 1 = i  BY <3>2
      <4>2. QED  BY <3>3, <4>1
    <3>6. QED  BY <3>1, <3>3, <3>4, <3>5
  <2>7. /\ b \in Seq(Stories) /\ Len(b) = l - k /\ \A i \in 1..(l - k) : b[i] = r[k + i]
    <3>1. PICK m : m = k + 1  OBVIOUS
    <3>2. l \in Int /\ m \in Int /\ \A i \in m..l : r[i] \in Stories  BY <1>2, <3>1
    <3>3. /\ b \in Seq(Stories) /\ Len(b) = (IF m <= l THEN l - m + 1 ELSE 0)
          /\ \A i \in 1..(l - m + 1) : b[i] = r[m + i - 1]
      BY <2>5, <3>1, <3>2, SubSeqProperties
    <3>4. Len(b) = l - k  BY <1>2, <3>1, <3>3
    <3>5. ASSUME NEW i \in 1..(l - k) PROVE b[i] = r[k + i]
      <4>1. i \in 1..(l - m + 1) /\ m + i - 1 = k + i  BY <1>2, <3>1
      <4>2. QED  BY <3>3, <4>1
    <3>6. QED  BY <3>3, <3>4, <3>5
  <2>8. /\ q \in Seq(Stories) /\ Len(q) = Len(a) + Len(b)
        /\ \A i \in 1..(Len(a) + Len(b)) : q[i] = IF i <= Len(a) THEN a[i] ELSE b[i - Len(a)]
    BY <2>4, <2>5, <2>6, <2>7, ConcatProperties
  <2>9. Len(q) = l - 1 /\ DOMAIN q = 1..(l - 1)
    <3>1. Len(q) = l - 1  BY <1>2, <2>6, <2>7, <2>8
    <3>2. QED  BY <2>8, <3>1, LenProperties
  <2>10. ASSUME NEW i \in 1..(l - 1) PROVE q[i] = IF i < k THEN r[i] ELSE r[i + 1]
    <3>1. q[i] = IF i <= k - 1 THEN a[i] ELSE b[i - (k - 1)]
      <4>1. i \in 1..(Len(a) + Len(b))  BY <1>2, <2>6, <2>7
      <4>2. QED  BY <2>6, <2>8, <4>1
    <3>2. CASE i < k
      <4>1. i \in 1..(k - 1) /\ i <= k - 1  BY <3>2
      <4>2. QED  BY <2>6, <3>1, <3>2, <4>1
    <3>3. CASE ~(i < k)
      <4>1. PICK j : j = i - (k - 1)  OBVIOUS
      <4>2. j \in 1..(l - k) /\ k + j = i + 1 /\ ~(i <= k - 1)  BY <1>2, <3>3, <4>1
      <4>3. QED  BY <2>7, <3>1, <3>3, <4>1, <4>2
    <3>4. QED  BY <3>2, <3>3
  <2>11. ASSUME NEW i \in 1..(l - 1)
         PROVE  q[i] # x /\ \E m \in 1..l : q[i] = r[m]
    <3>1. PICK m : m = IF i < k THEN i ELSE i + 1  OBVIOUS
    <3>2. m \in 1..l /\ m # k /\ q[i] = r[m]  BY <1>2, <2>10, <3>1
    <3>3. QED  BY <2>2, <3>2
  <2>12. ASSUME NEW i \in 1..(l - 1), NEW j \in 1..(l - 1), i < j PROVE q[i] > q[j]
    <3>1. PICK m, n : m = (IF i < k THEN i ELSE i + 1) /\ n = IF j < k THEN j ELSE j + 1  OBVIOUS
    <3>2. m \in 1..l /\ n \in 1..l /\ m < n /\ q[i] = r[m] /\ q[j] = r[n]
      BY <1>2, <2>10, <2>12, <3>1
    <3>3. QED  BY <1>2, <3>2
  <2>13. ASSUME NEW m \in 1..l, r[m] # x PROVE \E i \in 1..(l - 1) : q[i] = r[m]
    <3>1. m # k  BY <2>1, <2>13
    <3>2. CASE m < k
      <4>1. m \in 1..(l - 1)  BY <1>2, <3>2
      <4>2. q[m] = r[m]  BY <2>10, <3>2, <4>1
      <4>3. QED  BY <4>1, <4>2
    <3>3. CASE m > k
      <4>1. PICK i : i = m - 1  OBVIOUS
      <4>2. i \in 1..(l - 1) /\ ~(i < k) /\ i + 1 = m  BY <1>2, <3>3, <4>1
      <4>3. QED  BY <2>10, <4>2
    <3>4. m < k \/ m > k  BY <1>2, <3>1
    <3>5. QED  BY <3>2, <3>3, <3>4
  <2>14. QED
    <3>1. Len(q) >= Len(r) - 1  BY <1>1, <1>2, <2>9
    <3>2. \A i \in DOMAIN q : q[i] # x /\ \E m \in DOMAIN r : q[i] = r[m]  BY <1>2, <2>9, <2>11
    <3>3. \A i \in DOMAIN q : \A j \in DOMAIN q : i < j => q[i] > q[j]  BY <2>9, <2>12
    <3>4. \A m \in DOMAIN r : r[m] = x \/ \E i \in DOMAIN q : q[i] = r[m]  BY <1>2, <2>9, <2>13
    <3>5. QED  BY <2>8, <3>1, <3>2, <3>3, <3>4
<1>5. QED  BY <1>3, <1>4


\* What home() answers.
LEMMA AnswerIs ==
  ASSUME NEW g \in Seq(Stories), NEW r \in Seq(Stories), NEW al, NEW ev, NEW st,
         RecentFits(r, al, ev), HeroFits(g, st, ev),
         NEW h, h = F!Take(g \o r, 1), NEW hero, hero = IF h = <<>> THEN 0 ELSE h[1],
         NEW rest, rest = F!Take(F!Rest(r, hero), ShownSize)
  PROVE  PageFits(hero, rest, al, ev, st)
<1>1. PICK n, l : n = Len(g) /\ l = Len(r)  OBVIOUS
<1>2. /\ n \in Nat /\ DOMAIN g = 1..n /\ n <= 1 /\ l \in Nat /\ DOMAIN r = 1..l
      /\ \A i \in 1..n : g[i] \in Stories /\ g[i] \in ev
      /\ \A i \in 1..l : r[i] \in Stories /\ r[i] \in ev
  BY <1>1, LenProperties DEF HeroFits, RecentFits
<1>3. /\ g \o r \in Seq(Stories) /\ Len(g \o r) = n + l
      /\ \A i \in 1..(n + l) : (g \o r)[i] = IF i <= n THEN g[i] ELSE r[i - n]
  BY <1>1, ConcatProperties
<1>4. /\ h \in Seq(Stories) /\ Len(h) = (IF n + l < 1 THEN n + l ELSE 1)
      /\ DOMAIN h = 1..Len(h) /\ \A i \in DOMAIN h : h[i] = (g \o r)[i]
  <2>1. PICK f : f = g \o r  OBVIOUS
  <2>2. PICK o : o = 1  OBVIOUS
  <2>3. f \in Seq(Stories) /\ o \in Nat /\ h = F!Take(f, o)  BY <1>3, <2>1, <2>2
  <2>4. /\ h \in Seq(Stories) /\ Len(h) = (IF Len(f) < o THEN Len(f) ELSE o)
        /\ DOMAIN h = 1..Len(h) /\ \A i \in DOMAIN h : h[i] = f[i]
    BY <2>3, TakeIs
  <2>5. QED  BY <1>3, <2>1, <2>2, <2>4
<1>5. CASE n = 0 /\ l = 0
  <2>1. h = <<>> /\ hero = 0
    <3>1. Len(h) = 0  BY <1>4, <1>5
    <3>2. QED  BY <1>4, <3>1
  <2>2. al = {}
    <3>1. Len(r) # RecentSize  BY <1>1, <1>5, NewsConstants
    <3>2. \A i \in DOMAIN r : FALSE  BY <1>2, <1>5
    <3>3. QED  BY <3>1, <3>2 DEF RecentFits
  <2>3. F!Rest(r, hero) = r
    <3>1. ~ \E i \in 1..Len(r) : r[i] = hero  BY <1>1, <1>5
    <3>2. QED  BY <3>1 DEF F!Rest, F!RemoveFirst
  <2>4. rest \in Seq(Stories) /\ DOMAIN rest = {}
    <3>1. ShownSize \in Nat  BY NewsConstants
    <3>2. rest \in Seq(Stories) /\ DOMAIN rest \subseteq DOMAIN r  BY <2>3, <3>1, TakeIs
    <3>3. DOMAIN r = {}  BY <1>2, <1>5
    <3>4. QED  BY <3>2, <3>3
  <2>5. st = {}  BY <1>1, <1>5 DEF HeroFits
  <2>6. QED  BY <2>1, <2>2, <2>4, <2>5 DEF PageFits
<1>6. CASE n + l >= 1
  <2>1. /\ hero \in Stories /\ hero \in ev /\ \A s \in st : hero = s
    <3>1. Len(h) = 1 /\ h # <<>> /\ h[1] = (g \o r)[1]
      <4>1. Len(h) = 1  BY <1>2, <1>4, <1>6
      <4>2. 1 \in DOMAIN h  BY <1>4, <4>1
      <4>3. h # <<>>
        <5>1. Len(<<>>) = 0  BY EmptySeq
        <5>2. ASSUME h = <<>> PROVE Len(h) = 0  BY ONLY <5>1, <5>2
        <5>3. 1 # 0  OBVIOUS
        <5>4. QED  BY ONLY <4>1, <5>2, <5>3
      <4>4. QED  BY <1>4, <4>1, <4>2, <4>3
    <3>2. hero = IF 1 <= n THEN g[1] ELSE r[1]
      <4>1. 1 \in 1..(n + l) /\ (~(1 <= n) => 1 - n = 1)  BY <1>2, <1>6
      <4>2. QED  BY <1>3, <3>1, <4>1
    <3>3. CASE n = 1
      <4>1. hero = g[1] /\ 1 \in 1..n  BY <3>2, <3>3
      <4>2. QED  BY <1>2, <4>1 DEF HeroFits
    <3>4. CASE n = 0
      <4>0. 1 \in 1..l  BY <1>2, <1>6, <3>4
      <4>1. hero = r[1] /\ 1 \in 1..l  BY <3>2, <3>4, <4>0
      <4>2. st = {}  BY <1>1, <3>4 DEF HeroFits
      <4>3. QED  BY <1>2, <4>1, <4>2
    <3>5. QED  BY <1>2, <3>3, <3>4
  <2>2. PICK q : q = F!Rest(r, hero)  OBVIOUS
  <2>3. /\ q \in Seq(Stories) /\ Len(q) >= l - 1
        /\ \A i \in DOMAIN q : q[i] # hero /\ \E k \in DOMAIN r : q[i] = r[k]
        /\ \A i \in DOMAIN q : \A j \in DOMAIN q : i < j => q[i] > q[j]
        /\ \A k \in DOMAIN r : r[k] = hero \/ \E i \in DOMAIN q : q[i] = r[k]
    <3>1. \A i \in DOMAIN r : \A j \in DOMAIN r : i < j => r[i] > r[j]  BY DEF RecentFits
    <3>2. /\ q \in Seq(Stories) /\ Len(q) >= Len(r) - 1
          /\ \A i \in DOMAIN q : q[i] # hero /\ \E k \in DOMAIN r : q[i] = r[k]
          /\ \A i \in DOMAIN q : \A j \in DOMAIN q : i < j => q[i] > q[j]
          /\ \A k \in DOMAIN r : r[k] = hero \/ \E i \in DOMAIN q : q[i] = r[k]
      BY ONLY <2>2, <3>1, RestIs, r \in Seq(Stories)
    <3>3. QED  BY <1>1, <3>2
  <2>4. /\ rest \in Seq(Stories) /\ Len(rest) = (IF Len(q) < ShownSize THEN Len(q) ELSE ShownSize)
        /\ DOMAIN rest = 1..Len(rest) /\ DOMAIN rest \subseteq DOMAIN q
        /\ \A i \in DOMAIN rest : rest[i] = q[i]
    BY <2>2, <2>3, TakeIs, NewsConstants
  <2>5. \A i \in DOMAIN rest : rest[i] \in ev /\ rest[i] # hero  BY <1>2, <2>3, <2>4
  <2>6. \A i \in DOMAIN rest : \A j \in DOMAIN rest : i < j => rest[i] > rest[j]  BY <2>3, <2>4
  <2>7. PICK m, o : m = Len(q) /\ o = Len(rest)  OBVIOUS
  <2>8. /\ m \in Nat /\ DOMAIN q = 1..m /\ o \in Nat /\ DOMAIN rest = 1..o /\ m >= l - 1
        /\ o = IF m < ShownSize THEN m ELSE ShownSize
    BY <2>3, <2>4, <2>7, LenProperties
  <2>9. ASSUME NEW s \in al, s # hero, \A i \in DOMAIN rest : rest[i] # s
        PROVE  o >= ShownSize /\ \A i \in DOMAIN rest : rest[i] > s
    <3>1. CASE \E k \in DOMAIN r : r[k] = s
      <4>1. PICK i \in DOMAIN q : q[i] = s  BY <2>3, <2>9, <3>1
      <4>2. i \notin DOMAIN rest  BY <2>4, <2>9, <4>1
      <4>3. o = ShownSize /\ \A j \in 1..o : j < i
        <5>1. i \in 1..m /\ i \notin 1..o  BY <2>8, <4>1, <4>2
        <5>2. ShownSize \in Nat  BY NewsConstants
        <5>3. QED  BY ONLY <2>8, <5>1, <5>2
      <4>4. ASSUME NEW j \in DOMAIN rest PROVE rest[j] > s
        <5>1. j < i /\ j \in DOMAIN q /\ rest[j] = q[j]  BY <2>4, <2>8, <4>3
        <5>2. QED  BY <2>3, <4>1, <5>1
      <4>5. o >= ShownSize  BY <4>3, NewsConstants
      <4>6. QED  BY <4>4, <4>5
    <3>2. CASE ~ \E k \in DOMAIN r : r[k] = s
      <4>1. l = RecentSize /\ \A k \in DOMAIN r : r[k] > s  BY <1>1, <3>2 DEF RecentFits
      <4>2. o >= ShownSize  BY <2>8, <4>1, NewsConstants
      <4>3. \A i \in DOMAIN rest : rest[i] > s  BY <2>3, <2>4, <4>1
      <4>4. QED  BY <4>2, <4>3
    <3>3. QED  BY <3>1, <3>2
  <2>10. hero # 0  BY <2>1, NewsConstants
  <2>11. \A s \in al : \/ s = hero \/ \E i \in DOMAIN rest : rest[i] = s
                       \/ Len(rest) >= ShownSize /\ \A i \in DOMAIN rest : rest[i] > s
    BY <2>7, <2>9
  <2>12. QED  BY <2>1, <2>4, <2>5, <2>6, <2>10, <2>11 DEF PageFits
<1>7. QED  BY <1>2, <1>5, <1>6

LEMMA LessFits ==
  ASSUME NEW al, NEW bl \in SUBSET al, NEW ev, NEW fv, ev \subseteq fv, NEW st, NEW tt \in SUBSET st
  PROVE  /\ \A f : RecentFits(f, al, ev) => RecentFits(f, bl, fv)
         /\ \A f : HeroFits(f, st, ev) => HeroFits(f, tt, fv)
         /\ \A h, r : PageFits(h, r, al, ev, st) => PageFits(h, r, bl, fv, tt)
<1>1. \A f : RecentFits(f, al, ev) => RecentFits(f, bl, fv)  BY DEF RecentFits
<1>2. \A f : HeroFits(f, st, ev) => HeroFits(f, tt, fv)  BY DEF HeroFits
<1>3. \A h, r : PageFits(h, r, al, ev, st) => PageFits(h, r, bl, fv, tt)  BY DEF PageFits
<1>4. QED  BY <1>1, <1>2, <1>3

-------------------------------------------------------------------------------
(* Related stories *)

Common(s, o) == Cardinality(TagsOf[s] \cap TagsOf[o])

PickFits(f, o, ev) ==
    /\ f \in Seq(Stories) /\ Len(f) <= Limit
    /\ \A i \in DOMAIN f : f[i] \in ev /\ f[i] # o
    /\ \A i \in DOMAIN f : \A j \in DOMAIN f : f[i] = f[j] => i = j

\* All stories of al that share a tag with o are in f.
TagsFit(f, o, al) ==
    /\ \A i \in DOMAIN f : Common(f[i], o) > 0
    /\ \A s \in al \ {o} : Common(s, o) > 0 => \E i \in DOMAIN f : f[i] = s

AptFits(f, o, al) ==
    /\ \A i \in DOMAIN f : Common(f[i], o) > 0 \/ RailOf[f[i]] = RailOf[o]
    /\ \A i \in DOMAIN f : \A j \in DOMAIN f :
            i < j /\ f[j] \in al /\ Common(f[j], o) > 0 => Common(f[i], o) > 0
    /\ Len(f) < Limit /\ o \in al =>
            \A s \in al \ {o} : RailOf[s] = RailOf[o] => \E i \in DOMAIN f : f[i] = s

LEMMA LessIsApt ==
  ASSUME NEW al, NEW bl \in SUBSET al, NEW ev, NEW fv, ev \subseteq fv, NEW f, NEW o
  PROVE  /\ PickFits(f, o, ev) => PickFits(f, o, fv)
         /\ TagsFit(f, o, al) => TagsFit(f, o, bl)
         /\ AptFits(f, o, al) => AptFits(f, o, bl)
<1>1. PickFits(f, o, ev) => PickFits(f, o, fv)  BY DEF PickFits
<1>2. TagsFit(f, o, al) => TagsFit(f, o, bl)  BY DEF TagsFit
<1>3. AptFits(f, o, al) => AptFits(f, o, bl)  BY DEF AptFits
<1>4. QED  BY <1>1, <1>2, <1>3

\* A list in strict order has nothing twice.
LEMMA OrderedOnce ==
  ASSUME NEW f, NEW V, NEW R, NEW n, FirstOf(f, V, R, n), \A s \in V : <<s, s>> \notin R
  PROVE  /\ DOMAIN f = 1..Len(f) /\ Len(f) \in Nat /\ f \in [1..Len(f) -> V]
         /\ \A i \in DOMAIN f : \A j \in DOMAIN f : f[i] = f[j] => i = j
<1>1. DOMAIN f = 1..Len(f) /\ Len(f) \in Nat /\ f \in [1..Len(f) -> V]
  BY LenProperties DEF FirstOf
<1>2. ASSUME NEW i \in DOMAIN f, NEW j \in DOMAIN f, f[i] = f[j], i < j PROVE FALSE
  <2>1. <<f[i], f[j]>> \in R /\ f[i] \in V  BY <1>1, <1>2 DEF FirstOf
  <2>2. QED  BY <1>2, <2>1
<1>3. \A i \in DOMAIN f : \A j \in DOMAIN f : f[i] = f[j] => i = j
  <2>1. \A i, j \in DOMAIN f : i = j \/ i < j \/ j < i
    <3>1. PICK l : l = Len(f)  OBVIOUS
    <3>2. QED  BY <1>1, <3>1
  <2>2. QED  BY <1>2, <2>1
<1>4. QED  BY <1>1, <1>3

\* The first m of f are different, and all among the first n of g: then m is not more than n.
Within(f, m, g, n) ==
    /\ \A i \in 1..m : \A j \in 1..m : f[i] = f[j] => i = j
    /\ \A i \in 1..m : \E k \in 1..n : g[k] = f[i]

LEMMA NotLonger ==
  ASSUME NEW f, NEW g, NEW m \in Nat, NEW n \in Nat, Within(f, m, g, n)
  PROVE  m <= n
<1> DEFINE A == 1..m
           B == 1..n
           h == [i \in A |-> CHOOSE k \in B : g[k] = f[i]]
<1>1. \A i \in A : h[i] \in B /\ g[h[i]] = f[i]  BY DEF Within
<1>2. h \in Injection(A, B)
  <2>1. h \in [A -> B]  BY <1>1
  <2>2. \A i, j \in A : h[i] = h[j] => i = j  BY <1>1 DEF Within
  <2>3. QED  BY <2>1, <2>2 DEF Injection, IsInjective
<1>3. IsFiniteSet(B) /\ Cardinality(B) = n /\ Cardinality(A) = m
  <2>1. \A k \in Nat : IsFiniteSet(1..k) /\ Cardinality(1..k) = k
    <3>1. ASSUME NEW k \in Nat PROVE IsFiniteSet(1..k) /\ Cardinality(1..k) = k
      <4>1. IsFiniteSet(1..k) /\ Cardinality(1..k) = IF 1 > k THEN 0 ELSE k - 1 + 1
        BY FS_Interval
      <4>2. (IF 1 > k THEN 0 ELSE k - 1 + 1) = k  OBVIOUS
      <4>3. QED  BY <4>1, <4>2
    <3>2. QED  BY <3>1
  <2>2. QED  BY <2>1
<1>4. Cardinality(A) <= Cardinality(B)
  <2> HIDE DEF A, B, h
  <2>1. QED  BY <1>2, <1>3, FS_Injection
<1>5. QED  BY <1>3, <1>4


\* What related() finds by tags: less than asked for only if it is all there is.
LEMMA ByTagsFit ==
  ASSUME live \subseteq Stories, NEW al \in SUBSET live, NEW ev, live \subseteq ev,
         related.of \in Stories, NEW f, f = F!Take(F!ByTags, Limit)
  PROVE  /\ PickFits(f, related.of, ev) /\ \A i \in DOMAIN f : Common(f[i], related.of) > 0
         /\ Len(f) < Limit => TagsFit(f, related.of, al)
<1>1. PICK o, sharing, found, all :
          /\ o = related.of /\ sharing = {s \in live \ {o} : Common(s, o) > 0}
          /\ found = F!Take(F!Newest(sharing), Pool) /\ all = F!ToSet(found)
  OBVIOUS
<1>2. f = F!Take(F!MostShared(all), Limit)
  <2>1. {s \in live \ {related.of} : F!Shared(s) > 0} = sharing
    BY <1>1, SharedIs DEF Common
  <2>2. QED  BY <1>1, <2>1 DEF F!ByTags
<1>3. sharing \subseteq Stories /\ Pool \in Nat /\ Limit \in Nat /\ Pool >= Limit
  BY <1>1, NewsConstants
<1>4. FirstOf(found, sharing, Newer, Pool)  BY <1>1, <1>3, NewestFirst
<1>5. \A s \in sharing : <<s, s>> \notin Newer
  <2>1. sharing \subseteq Nat  BY <1>3, NewsConstants
  <2>2. QED  BY <2>1, NewerOrders DEF Orders
<1>6. /\ DOMAIN found = 1..Len(found) /\ Len(found) \in Nat /\ found \in [1..Len(found) -> sharing]
      /\ \A i \in DOMAIN found : \A j \in DOMAIN found : found[i] = found[j] => i = j
  BY <1>4, <1>5, OrderedOnce
<1>7. /\ \A i \in DOMAIN found : found[i] \in all
      /\ \A s \in all : s \in sharing /\ \E i \in DOMAIN found : found[i] = s
  <2>1. \A s : s \in all <=> \E i \in DOMAIN found : found[i] = s  BY <1>1, NewsCounts
  <2>2. \A i \in DOMAIN found : found[i] \in sharing  BY <1>6
  <2>3. QED  BY <2>1, <2>2
<1>8. all \subseteq Stories  BY <1>3, <1>7
<1>9. FirstOf(f, all, SharedOrder(o), Limit)  BY <1>1, <1>2, <1>3, <1>8, SharedFirst
<1>10. \A s \in all : <<s, s>> \notin SharedOrder(o)
  <2>1. \A s \in Stories : s \in Nat /\ Cardinality(TagsOf[s] \cap TagsOf[o]) \in Nat
    BY <1>1, SharedIs, NewsConstants
  <2>2. ASSUME NEW s \in Stories, <<s, s>> \in SharedOrder(o) PROVE FALSE
    <3>1. PICK a : a = Cardinality(TagsOf[s] \cap TagsOf[o])  OBVIOUS
    <3>2. a > a \/ s > s  BY <2>2, <3>1 DEF SharedOrder
    <3>3. a \in Nat /\ s \in Nat  BY <2>1, <3>1
    <3>4. QED  BY <3>2, <3>3
  <2>3. QED  BY <1>8, <2>2
<1>11. /\ DOMAIN f = 1..Len(f) /\ Len(f) \in Nat /\ f \in [1..Len(f) -> all]
       /\ \A i \in DOMAIN f : \A j \in DOMAIN f : f[i] = f[j] => i = j
  BY <1>9, <1>10, OrderedOnce
<1>12. \A i \in DOMAIN f : f[i] \in live \ {o} /\ Common(f[i], o) > 0  BY <1>1, <1>7, <1>11
<1>13. PickFits(f, o, ev)
  <2>1. f \in [1..Len(f) -> Stories]  BY <1>8, <1>11
  <2>2. f \in Seq(Stories)  BY <1>11, <2>1
  <2>3. Len(f) <= Limit  BY <1>9 DEF FirstOf
  <2>4. QED  BY <1>11, <1>12, <2>2, <2>3 DEF PickFits
<1>14. ASSUME Len(f) < Limit PROVE TagsFit(f, o, al)
  <2>1. PICK n, m : n = Len(f) /\ m = Len(found)  OBVIOUS
  <2>2. n \in Nat /\ m \in Nat /\ DOMAIN f = 1..n /\ DOMAIN found = 1..m /\ n < Limit
    BY <1>6, <1>11, <1>14, <2>1
  <2>3. \A s \in all : \E i \in DOMAIN f : f[i] = s
    <3>1. n # Limit  BY <1>3, <2>2
    <3>2. QED  BY <1>9, <2>1, <3>1 DEF FirstOf
  <2>4. \A i \in 1..m : \E k \in 1..n : f[k] = found[i]  BY <1>7, <2>2, <2>3
  <2>5. \A i \in 1..m : \A j \in 1..m : found[i] = found[j] => i = j  BY <1>6, <2>2
  <2>6. m <= n
    <3>1. Within(found, m, f, n)  BY <2>4, <2>5 DEF Within
    <3>2. QED  BY <2>2, <3>1, NotLonger
  <2>7. m # Pool  BY <1>3, <2>2, <2>6
  <2>8. \A s \in sharing : s \in all  BY <1>4, <1>7, <2>1, <2>7 DEF FirstOf
  <2>9. \A s \in al \ {o} : Common(s, o) > 0 => s \in sharing  BY <1>1
  <2>10. QED  BY <1>12, <2>3, <2>8, <2>9 DEF TagsFit
<1>15. QED  BY <1>1, <1>12, <1>13, <1>14

\* What related() answers after it has looked in the section, too.
LEMMA BySectionFits ==
  ASSUME live \subseteq Stories, NEW al \in SUBSET live, NEW ev, live \subseteq ev,
         NEW o \in Stories, NEW f, PickFits(f, o, ev), TagsFit(f, o, al),
         NEW others, others = {s \in live \ ({o} \cup F!ToSet(f)) : RailOf[s] = RailOf[o]},
         NEW g, g = f \o F!Take(F!Newest(others), Limit - Len(f))
  PROVE  PickFits(g, o, ev) /\ AptFits(g, o, al)
<1>1. PICK n, k, h : n = Len(f) /\ k = Limit - n /\ h = F!Take(F!Newest(others), k)  OBVIOUS
<1>2. n \in Nat /\ k \in Nat /\ n + k = Limit /\ DOMAIN f = 1..n /\ f \in Seq(Stories)
  <2>1. n \in Nat /\ DOMAIN f = 1..n /\ f \in Seq(Stories) /\ n <= Limit
    BY <1>1, LenProperties DEF PickFits
  <2>2. Limit \in Nat  BY NewsConstants
  <2>3. k \in Nat /\ n + k = Limit  BY <1>1, <2>1, <2>2
  <2>4. QED  BY <2>1, <2>3
<1>3. others \subseteq Stories  OBVIOUS
<1>4. FirstOf(h, others, Newer, k)  BY <1>1, <1>2, <1>3, NewestFirst
<1>5. \A s \in others : <<s, s>> \notin Newer
  <2>1. others \subseteq Nat  BY <1>3, NewsConstants
  <2>2. QED  BY <2>1, NewerOrders DEF Orders
<1>6. PICK m : m = Len(h)  OBVIOUS
<1>7. /\ DOMAIN h = 1..m /\ m \in Nat /\ m <= k /\ h \in [1..m -> others] /\ h \in Seq(Stories)
      /\ \A i \in 1..m : \A j \in 1..m : h[i] = h[j] => i = j
  <2>1. /\ DOMAIN h = 1..m /\ m \in Nat /\ h \in [1..m -> others]
        /\ \A i \in 1..m : \A j \in 1..m : h[i] = h[j] => i = j
    BY <1>4, <1>5, <1>6, OrderedOnce
  <2>2. h \in [1..m -> Stories]  BY <1>3, <2>1
  <2>3. m <= k  BY <1>4, <1>6 DEF FirstOf
  <2>4. QED  BY <2>1, <2>2, <2>3
<1>8. \A s : s \in F!ToSet(f) <=> \E i \in 1..n : f[i] = s  BY <1>2, NewsCounts
<1>9. \A i \in 1..m : /\ h[i] \in live /\ h[i] # o /\ RailOf[h[i]] = RailOf[o]
                      /\ \A j \in 1..n : f[j] # h[i]
  BY <1>7, <1>8
<1>10. /\ g \in Seq(Stories) /\ Len(g) = n + m
       /\ \A i \in 1..(n + m) : g[i] = IF i <= n THEN f[i] ELSE h[i - n]
  BY <1>1, <1>2, <1>6, <1>7, ConcatProperties
<1>11. DOMAIN g = 1..(n + m)  BY <1>10, LenProperties
<1>12. ASSUME NEW i \in 1..(n + m)
       PROVE  \/ i \in 1..n /\ g[i] = f[i]
              \/ i - n \in 1..m /\ ~(i <= n) /\ g[i] = h[i - n]
  <2>1. CASE i <= n
    BY <1>2, <1>10, <2>1
  <2>2. CASE ~(i <= n)
    <3>1. i - n \in 1..m  BY <1>2, <1>7, <2>2
    <3>2. QED  BY <1>10, <2>2, <3>1
  <2>3. QED  BY <2>1, <2>2
<1>13. /\ \A j \in 1..n : j \in 1..(n + m) /\ g[j] = f[j]
       /\ \A j \in 1..m : n + j \in 1..(n + m) /\ g[n + j] = h[j]
  <2>1. ASSUME NEW j \in 1..n PROVE j \in 1..(n + m) /\ g[j] = f[j]
    <3>1. j \in 1..(n + m) /\ j <= n  BY <1>2, <1>7
    <3>2. QED  BY <1>10, <3>1
  <2>2. ASSUME NEW j \in 1..m PROVE n + j \in 1..(n + m) /\ g[n + j] = h[j]
    <3>1. PICK i : i = n + j  OBVIOUS
    <3>2. i \in 1..(n + m) /\ ~(i <= n) /\ i - n = j  BY <1>2, <1>7, <3>1
    <3>3. QED  BY <1>10, <3>1, <3>2
  <2>3. QED  BY <2>1, <2>2
<1>14. PickFits(g, o, ev)
  <2>1. Len(g) <= Limit  BY <1>2, <1>7, <1>10
  <2>2. ASSUME NEW i \in 1..(n + m) PROVE g[i] \in ev /\ g[i] # o
    <3>1. \A j \in 1..n : f[j] \in ev /\ f[j] # o  BY <1>2 DEF PickFits
    <3>2. \A j \in 1..m : h[j] \in ev /\ h[j] # o  BY <1>9
    <3>3. QED  BY <1>12, <3>1, <3>2
  <2>3. ASSUME NEW i \in 1..(n + m), NEW j \in 1..(n + m), g[i] = g[j] PROVE i = j
    <3>1. CASE i \in 1..n /\ j \in 1..n /\ g[i] = f[i] /\ g[j] = f[j]
      BY <1>2, <2>3, <3>1 DEF PickFits
    <3>2. CASE i - n \in 1..m /\ j - n \in 1..m /\ g[i] = h[i - n] /\ g[j] = h[j - n]
      <4>1. i - n = j - n  BY <1>7, <2>3, <3>2
      <4>2. QED  BY <1>2, <1>7, <4>1
    <3>3. ASSUME i \in 1..n, g[i] = f[i], j - n \in 1..m, g[j] = h[j - n] PROVE FALSE
      BY <1>9, <2>3, <3>3
    <3>4. ASSUME j \in 1..n, g[j] = f[j], i - n \in 1..m, g[i] = h[i - n] PROVE FALSE
      BY <1>9, <2>3, <3>4
    <3>5. QED  BY <1>12, <3>1, <3>2, <3>3, <3>4
  <2>4. QED  BY <1>10, <1>11, <2>1, <2>2, <2>3 DEF PickFits
<1>15. AptFits(g, o, al)
  <2>1. ASSUME NEW i \in 1..(n + m) PROVE Common(g[i], o) > 0 \/ RailOf[g[i]] = RailOf[o]
    BY <1>2, <1>9, <1>12 DEF TagsFit
  <2>2. ASSUME NEW i \in 1..(n + m), NEW j \in 1..(n + m), i < j, g[j] \in al, Common(g[j], o) > 0
        PROVE  Common(g[i], o) > 0
    <3>1. ASSUME j - n \in 1..m, g[j] = h[j - n] PROVE FALSE
      <4>1. g[j] \in al \ {o} /\ \A k2 \in 1..n : f[k2] # g[j]  BY <1>9, <2>2, <3>1
      <4>2. QED  BY <1>2, <2>2, <4>1 DEF TagsFit
    <3>2. j \in 1..n  BY <1>12, <3>1
    <3>3. i \in 1..n  BY <1>2, <2>2, <3>2
    <3>4. QED  BY <1>2, <1>13, <3>3 DEF TagsFit
  <2>3. ASSUME Len(g) < Limit, NEW s \in al \ {o}, RailOf[s] = RailOf[o]
        PROVE  \E i \in 1..(n + m) : g[i] = s
    <3>1. CASE \E j \in 1..n : f[j] = s
      BY <1>13, <3>1
    <3>2. CASE ~ \E j \in 1..n : f[j] = s
      <4>1. s \in others  BY <1>8, <2>3, <3>2
      <4>2. m # k  BY <1>2, <1>7, <1>10, <2>3
      <4>3. \E j \in 1..m : h[j] = s  BY <1>4, <1>6, <1>7, <4>1, <4>2 DEF FirstOf
      <4>4. QED  BY <1>13, <4>3
    <3>3. QED  BY <3>1, <3>2
  <2>4. QED  BY <1>11, <2>1, <2>2, <2>3 DEF AptFits
<1>16. QED  BY <1>14, <1>15

-------------------------------------------------------------------------------
(* The steps of FrontPage *)

LiveInv ==
    /\ live \subseteq Stories /\ ever \subseteq Stories /\ pin \in [Stories -> Nat]
    /\ featured \subseteq live /\ \A s \in featured : \A t \in featured : s = t
    /\ always \subseteq live /\ live \subseteq ever /\ steady \subseteq featured

HomeInv ==
    /\ home \in [at : {"unasked", "queries", "done"}, open : SUBSET F!Parts,
                 got : [F!Parts -> Seq(Stories)], hero : Stories \cup {0}, rest : Seq(Stories)]
    /\ home.at = "queries" =>
        /\ "recent" \notin home.open => RecentFits(home.got["recent"], always, ever)
        /\ "featured" \notin home.open => HeroFits(home.got["featured"], steady, ever)
    /\ home.at = "done" => PageFits(home.hero, home.rest, always, ever, steady)

RelatedInv ==
    /\ related \in [at : {"unasked", "no", "tags", "section", "done"}, of : Stories \cup {0},
                    picked : Seq(Stories)]
    /\ related.at \in {"tags", "section"} => related.of \in Stories
    /\ related.at = "section" => /\ PickFits(related.picked, related.of, ever)
                                 /\ TagsFit(related.picked, related.of, always)
    /\ related.at = "done" => /\ PickFits(related.picked, related.of, ever)
                              /\ AptFits(related.picked, related.of, always)

NewsInv == LiveInv /\ HomeInv /\ RelatedInv

LEMMA NewsInit ==
  ASSUME F!Init PROVE NewsInv
<1>1. LiveInv
  <2>1. \A s \in featured : s \in live  BY DEF F!Init
  <2>2. QED  BY <2>1 DEF F!Init, LiveInv
<1>2. /\ home.at # "done" /\ related.at \in {"unasked", "no"}
      /\ home.at = "queries" => home.open = F!Parts
  BY DEF F!Init
<1>3. <<>> \in Seq(Stories)  OBVIOUS
<1>4. HomeInv
  <2>1. "recent" \in F!Parts /\ "featured" \in F!Parts  BY DEF F!Parts
  <2>2. [p \in F!Parts |-> <<>>] \in [F!Parts -> Seq(Stories)]  BY <1>3
  <2>3. home \in [at : {"unasked", "queries", "done"}, open : SUBSET F!Parts,
                  got : [F!Parts -> Seq(Stories)], hero : Stories \cup {0}, rest : Seq(Stories)]
    BY <1>3, <2>2 DEF F!Init
  <2>4. QED  BY <1>2, <2>1, <2>3 DEF HomeInv
<1>5. RelatedInv
  <2>1. related \in [at : {"unasked", "no", "tags", "section", "done"}, of : Stories \cup {0},
                     picked : Seq(Stories)]
    BY <1>3 DEF F!Init
  <2>2. QED  BY <1>2, <2>1 DEF RelatedInv
<1>6. QED  BY <1>1, <1>4, <1>5 DEF NewsInv

\* Editors: what was live or featured all along gets less, what was ever live more.
LEMMA EditorsStep ==
  ASSUME NewsInv,
         \/ \E s \in Stories : F!Publish(s) \/ F!Unpublish(s) \/ F!Feature(s) \/ F!Pin(s, 1)
  PROVE  NewsInv'
<1>1. /\ always' \subseteq always /\ ever \subseteq ever' /\ steady' \subseteq steady
      /\ home' = home /\ related' = related
  BY DEF F!Publish, F!Unpublish, F!Feature, F!Pin, F!Change
<1>2. LiveInv'
  <2>1. PICK s \in Stories : F!Publish(s) \/ F!Unpublish(s) \/ F!Feature(s) \/ F!Pin(s, 1)  OBVIOUS
  <2>2. always' = always \cap live' /\ ever' = ever \cup live' /\ steady' = steady \cap featured'
    BY <2>1 DEF F!Publish, F!Unpublish, F!Feature, F!Pin, F!Change
  <2>3. /\ live' \subseteq Stories /\ featured' \subseteq live'
        /\ \A t \in featured' : \A u \in featured' : t = u
    BY <2>1 DEF NewsInv, LiveInv, F!Publish, F!Unpublish, F!Feature, F!Pin
  <2>4. pin' \in [Stories -> Nat]
    BY <2>1 DEF NewsInv, LiveInv, F!Publish, F!Unpublish, F!Feature, F!Pin
  <2>5. QED  BY <2>2, <2>3, <2>4 DEF NewsInv, LiveInv
<1>3. HomeInv'
  <2>1. /\ \A f : RecentFits(f, always, ever) => RecentFits(f, always', ever')
        /\ \A f : HeroFits(f, steady, ever) => HeroFits(f, steady', ever')
        /\ \A h, r : PageFits(h, r, always, ever, steady) => PageFits(h, r, always', ever', steady')
    BY <1>1, LessFits
  <2>2. QED  BY <1>1, <2>1 DEF NewsInv, HomeInv
<1>4. RelatedInv'
  <2>1. \A f, o : /\ PickFits(f, o, ever) => PickFits(f, o, ever')
                  /\ TagsFit(f, o, always) => TagsFit(f, o, always')
                  /\ AptFits(f, o, always) => AptFits(f, o, always')
    BY <1>1, LessIsApt
  <2>2. QED  BY <1>1, <2>1 DEF NewsInv, RelatedInv
<1>5. QED  BY <1>2, <1>3, <1>4 DEF NewsInv

\* What is left as it is while a request goes on.
LEMMA ReadersStep ==
  ASSUME NewsInv, UNCHANGED <<live, featured, pin, always, ever, steady, changes>>,
         HomeInv', RelatedInv'
  PROVE  NewsInv'
BY DEF NewsInv, LiveInv

LEMMA QueryIs ==
  ASSUME LiveInv, NEW p \in F!Parts, NEW f, f = F!Query(p)
  PROVE  /\ f \in Seq(Stories)
         /\ p = "recent" => RecentFits(f, always, ever)
         /\ p = "featured" => HeroFits(f, steady, ever)
<1>1. CASE p = "recent"
  <2>1. f = F!Take(F!Newest(live), RecentSize)  BY <1>1, NewsConstants DEF F!Query
  <2>2. RecentFits(f, always, ever)  BY <2>1, RecentIs DEF LiveInv
  <2>3. QED  BY <1>1, <2>2 DEF RecentFits
<1>2. CASE p = "featured"
  <2>1. f = F!Take(F!Newest(live \cap featured), 1)  BY <1>2, NewsConstants DEF F!Query
  <2>2. HeroFits(f, steady, ever)  BY <2>1, HeroIs DEF LiveInv
  <2>3. QED  BY <1>2, <2>2 DEF HeroFits
<1>3. CASE p \in Rails
  <2>1. PICK V : V = {s \in live : RailOf[s] = p}  OBVIOUS
  <2>2. V \subseteq Stories  BY <2>1 DEF LiveInv
  <2>3. f = F!Take(F!PinnedFirst(V), RailSize)  BY <1>3, <2>1, NewsConstants DEF F!Query
  <2>4. FirstOf(f, V, PinOrder(pin), RailSize)  BY <2>2, <2>3, PinnedFirstIs, NewsConstants DEF LiveInv
  <2>5. f \in Seq(V)  BY <2>4 DEF FirstOf
  <2>6. f \in Seq(Stories)
    <3>1. Len(f) \in Nat /\ f \in [1..Len(f) -> V]  BY <2>5, LenProperties
    <3>2. f \in [1..Len(f) -> Stories]  BY <2>2, <3>1
    <3>3. QED  BY <3>1, <3>2
  <2>7. QED  BY <1>3, <2>6, NewsConstants
<1>4. QED  BY <1>1, <1>2, <1>3 DEF F!Parts

\* An answer arrives.
LEMMA GotIs ==
  ASSUME NEW AtSet, NEW OpenSets, NEW GotSet, NEW HeroSet, NEW RestSet, NEW p, NEW f, NEW h, NEW k,
         h \in [at : AtSet, open : OpenSets, got : GotSet, hero : HeroSet, rest : RestSet],
         k = [h EXCEPT !.open = @ \ {p}, !.got[p] = f],
         h.open \ {p} \in OpenSets, [h.got EXCEPT ![p] = f] \in GotSet
  PROVE  /\ k \in [at : AtSet, open : OpenSets, got : GotSet, hero : HeroSet, rest : RestSet]
         /\ k.at = h.at /\ k.open = h.open \ {p} /\ k.got = [h.got EXCEPT ![p] = f]
OBVIOUS

LEMMA HomeStep ==
  ASSUME NewsInv, F!Answer \/ \E p \in F!Parts : F!Read(p)
  PROVE  NewsInv'
<1>1. /\ UNCHANGED <<live, featured, pin, always, ever, steady, changes>> /\ related' = related
  BY DEF F!Answer, F!Read
<1>2. RelatedInv'  BY <1>1 DEF NewsInv, RelatedInv
<1>3. LiveInv /\ HomeInv  BY DEF NewsInv
<1>4. ASSUME NEW p \in F!Parts, F!Read(p) PROVE HomeInv'
  <2>1. PICK f : f = F!Query(p)  OBVIOUS
  <2>2. /\ f \in Seq(Stories)
        /\ p = "recent" => RecentFits(f, always, ever)
        /\ p = "featured" => HeroFits(f, steady, ever)
    BY <1>3, <2>1, QueryIs
  <2>3. /\ home' = [home EXCEPT !.open = @ \ {p}, !.got[p] = f] /\ home.at = "queries"
    BY <1>4, <2>1 DEF F!Read
  <2>4. home.got \in [F!Parts -> Seq(Stories)] /\ home.open \subseteq F!Parts  BY <1>3 DEF HomeInv
  <2>5. PICK g : g = [home.got EXCEPT ![p] = f]  OBVIOUS
  <2>6. g \in [F!Parts -> Seq(Stories)] /\ \A q \in F!Parts : g[q] = IF q = p THEN f ELSE home.got[q]
    BY <2>2, <2>4, <2>5
  <2>7. home \in [at : {"unasked", "queries", "done"}, open : SUBSET F!Parts,
                 got : [F!Parts -> Seq(Stories)], hero : Stories \cup {0}, rest : Seq(Stories)]
    BY <1>3 DEF HomeInv
  <2>8. /\ home' \in [at : {"unasked", "queries", "done"}, open : SUBSET F!Parts,
                      got : [F!Parts -> Seq(Stories)], hero : Stories \cup {0}, rest : Seq(Stories)]
        /\ home'.at = "queries" /\ home'.open = home.open \ {p} /\ home'.got = g
    <3>1. home.open \ {p} \in SUBSET F!Parts  BY <2>4
    <3>2. [home.got EXCEPT ![p] = f] \in [F!Parts -> Seq(Stories)]  BY ONLY <2>5, <2>6
    <3>3. QED  BY ONLY <2>3, <2>5, <2>7, <3>1, <3>2, GotIs
  <2>9. "recent" \in F!Parts /\ "featured" \in F!Parts  BY DEF F!Parts
  <2>10. "recent" \notin home'.open => RecentFits(g["recent"], always, ever)
    BY <1>3, <2>2, <2>3, <2>6, <2>8, <2>9 DEF HomeInv
  <2>11. "featured" \notin home'.open => HeroFits(g["featured"], steady, ever)
    BY <1>3, <2>2, <2>3, <2>6, <2>8, <2>9 DEF HomeInv
  <2>12. QED  BY <1>1, <2>8, <2>10, <2>11 DEF HomeInv
<1>5. ASSUME F!Answer PROVE HomeInv'
  <2>1. "recent" \in F!Parts /\ "featured" \in F!Parts  BY DEF F!Parts
  <2>2. PICK g, r : g = home.got["featured"] /\ r = home.got["recent"]  OBVIOUS
  <2>3. PICK h, hero, rest : /\ h = F!Take(g \o r, 1) /\ hero = (IF h = <<>> THEN 0 ELSE h[1])
                             /\ rest = F!Take(F!Rest(r, hero), ShownSize)
    OBVIOUS
  <2>4. home.at = "queries" /\ home.open = {} /\ home' = [home EXCEPT !.at = "done", !.hero = hero, !.rest = rest]
    BY <1>5, <2>2, <2>3 DEF F!Answer
  <2>5. g \in Seq(Stories) /\ r \in Seq(Stories)  BY <1>3, <2>1, <2>2 DEF HomeInv
  <2>6. RecentFits(r, always, ever) /\ HeroFits(g, steady, ever)  BY <1>3, <2>2, <2>4 DEF HomeInv
  <2>7. PageFits(hero, rest, always, ever, steady)  BY <2>3, <2>5, <2>6, AnswerIs
  <2>8. hero \in Stories \cup {0} /\ rest \in Seq(Stories)  BY <2>7 DEF PageFits
  <2>9. /\ home' \in [at : {"unasked", "queries", "done"}, open : SUBSET F!Parts,
                      got : [F!Parts -> Seq(Stories)], hero : Stories \cup {0}, rest : Seq(Stories)]
        /\ home'.at = "done" /\ home'.hero = hero /\ home'.rest = rest
    BY <1>3, <2>4, <2>8 DEF HomeInv
  <2>10. QED  BY <1>1, <2>7, <2>9 DEF HomeInv
<1>6. HomeInv'  BY <1>4, <1>5
<1>7. QED  BY <1>1, <1>2, <1>6, ReadersStep

LEMMA RelatedStep ==
  ASSUME NewsInv, \/ \E s \in Stories : F!AskRelated(s)
                  \/ F!FindByTags \/ F!FindBySection
  PROVE  NewsInv'
<1>1. UNCHANGED <<live, featured, pin, always, ever, steady, changes>> /\ home' = home
  BY DEF F!AskRelated, F!FindByTags, F!FindBySection, F!Related
<1>2. HomeInv'  BY <1>1 DEF NewsInv, HomeInv
<1>3. LiveInv /\ RelatedInv  BY DEF NewsInv
<1>4. ASSUME NEW s \in Stories, F!AskRelated(s) PROVE RelatedInv'
  <2>1. related' = [at |-> IF s \in live THEN "tags" ELSE "done", of |-> s, picked |-> <<>>]
    BY <1>4 DEF F!AskRelated, F!Related
  <2>2. <<>> \in Seq(Stories) /\ Len(<<>>) = 0 /\ DOMAIN <<>> = {}  BY EmptySeq
  <2>3. PickFits(<<>>, s, ever)  BY <2>2, NewsConstants DEF PickFits
  <2>4. s \notin live => AptFits(<<>>, s, always)  BY <1>3, <2>2 DEF AptFits, LiveInv
  <2>5. QED  BY <1>1, <2>1, <2>2, <2>3, <2>4 DEF RelatedInv
<1>5. ASSUME F!FindByTags PROVE RelatedInv'
  <2>1. PICK f : f = F!Take(F!ByTags, Limit)  OBVIOUS
  <2>2. related.at = "tags"
        /\ related' = [related EXCEPT !.at = IF Len(f) < Limit THEN "section" ELSE "done", !.picked = f]
    BY <1>5, <2>1 DEF F!FindByTags, F!Related
  <2>3. related.of \in Stories  BY <1>3, <2>2 DEF RelatedInv
  <2>4. /\ PickFits(f, related.of, ever) /\ \A i \in DOMAIN f : Common(f[i], related.of) > 0
        /\ Len(f) < Limit => TagsFit(f, related.of, always)
    BY <1>3, <2>1, <2>3, ByTagsFit DEF LiveInv
  <2>5. ~(Len(f) < Limit) => AptFits(f, related.of, always)  BY <2>4 DEF AptFits
  <2>6. f \in Seq(Stories)  BY <2>4 DEF PickFits
  <2>7. /\ related' \in [at : {"unasked", "no", "tags", "section", "done"}, of : Stories \cup {0},
                         picked : Seq(Stories)]
        /\ related'.of = related.of /\ related'.picked = f
        /\ related'.at = IF Len(f) < Limit THEN "section" ELSE "done"
    BY <1>3, <2>2, <2>6 DEF RelatedInv
  <2>8. QED  BY <1>1, <2>3, <2>4, <2>5, <2>7 DEF RelatedInv
<1>6. ASSUME F!FindBySection PROVE RelatedInv'
  <2>1. PICK f, o, others, g :
          /\ f = related.picked /\ o = related.of
          /\ others = {s \in live \ ({o} \cup F!ToSet(f)) : RailOf[s] = RailOf[o]}
          /\ g = f \o F!Take(F!Newest(others), Limit - Len(f))
    OBVIOUS
  <2>2. related.at = "section" /\ related' = [related EXCEPT !.at = "done", !.picked = g]
    BY <1>6, <2>1 DEF F!FindBySection, F!Related
  <2>3. o \in Stories /\ PickFits(f, o, ever) /\ TagsFit(f, o, always)
    BY <1>3, <2>1, <2>2 DEF RelatedInv
  <2>4. PickFits(g, o, ever) /\ AptFits(g, o, always)
    BY <1>3, <2>1, <2>3, BySectionFits DEF LiveInv
  <2>5. g \in Seq(Stories)  BY <2>4 DEF PickFits
  <2>6. /\ related' \in [at : {"unasked", "no", "tags", "section", "done"}, of : Stories \cup {0},
                         picked : Seq(Stories)]
        /\ related'.of = o /\ related'.picked = g /\ related'.at = "done"
    BY <1>3, <2>1, <2>2, <2>5 DEF RelatedInv
  <2>7. QED  BY <1>1, <2>4, <2>6 DEF RelatedInv
<1>7. RelatedInv'  BY <1>4, <1>5, <1>6
<1>8. QED  BY <1>1, <1>2, <1>7, ReadersStep

LEMMA NewsStep ==
  ASSUME NewsInv, F!Next \/ UNCHANGED newsVars PROVE NewsInv'
<1>1. CASE UNCHANGED newsVars
  BY <1>1 DEF newsVars, NewsInv, LiveInv, HomeInv, RelatedInv
<1>2. QED  BY <1>1, EditorsStep, HomeStep, RelatedStep DEF F!Next

-------------------------------------------------------------------------------
(* What the invariants of FrontPage say *)

LEMMA NewsTyped ==
  ASSUME NewsInv PROVE F!TypeOK
<1>1. /\ home.at \in {"unasked", "queries", "done"} /\ home.open \subseteq F!Parts
      /\ home.got \in [F!Parts -> Seq(Stories)]
      /\ home.hero \in Stories \cup {0} /\ home.rest \in Seq(Stories)
  BY DEF NewsInv, HomeInv
<1>2. /\ related.at \in {"unasked", "no", "tags", "section", "done"}
      /\ related.picked \in Seq(Stories)
  BY DEF NewsInv, RelatedInv
<1>3. QED  BY <1>1, <1>2 DEF NewsInv, LiveInv, F!TypeOK

\* The front page, hero first.
LEMMA ShownIs ==
  ASSUME NEW hero \in Stories, NEW rest \in Seq(Stories), NEW shown, shown = <<hero>> \o rest
  PROVE  /\ DOMAIN shown = 1..(Len(rest) + 1) /\ Len(rest) \in Nat /\ DOMAIN rest = 1..Len(rest)
         /\ shown # <<>> /\ shown[1] = hero
         /\ \A i \in 1..Len(rest) : shown[i + 1] = rest[i]
         /\ \A i \in 1..(Len(rest) + 1) : i = 1 \/ (i - 1 \in 1..Len(rest) /\ shown[i] = rest[i - 1])
<1>1. PICK n, first : n = Len(rest) /\ first = <<hero>>  OBVIOUS
<1>2. n \in Nat /\ DOMAIN rest = 1..n  BY <1>1, LenProperties
<1>3. first \in Seq(Stories) /\ Len(first) = 1 /\ first[1] = hero  BY <1>1
<1>4. /\ shown \in Seq(Stories) /\ Len(shown) = 1 + n
      /\ \A i \in 1..(1 + n) : shown[i] = IF i <= 1 THEN first[i] ELSE rest[i - 1]
  BY <1>1, <1>3, ConcatProperties
<1>5. DOMAIN shown = 1..(n + 1)  BY <1>2, <1>4, LenProperties
<1>6. 1 \in 1..(1 + n)  BY <1>2
<1>7. shown[1] = hero  BY <1>3, <1>4, <1>6
<1>8. shown # <<>>
  <2>1. Len(<<>>) = 0  BY EmptySeq
  <2>2. ASSUME shown = <<>> PROVE Len(shown) = 0  BY ONLY <2>1, <2>2
  <2>3. 1 + n # 0  BY <1>2
  <2>4. QED  BY ONLY <1>4, <2>2, <2>3
<1>9. \A i \in 1..n : shown[i + 1] = rest[i]
  <2>1. TAKE i \in 1..n
  <2>2. i + 1 \in 1..(1 + n) /\ ~(i + 1 <= 1) /\ (i + 1) - 1 = i  BY <1>2
  <2>3. QED  BY <1>4, <2>2
<1>10. \A i \in 1..(n + 1) : i = 1 \/ (i - 1 \in 1..n /\ shown[i] = rest[i - 1])
  <2>1. TAKE i \in 1..(n + 1)
  <2>2. i \in 1..(1 + n) /\ (i # 1 => i - 1 \in 1..n /\ ~(i <= 1))  BY <1>2
  <2>3. QED  BY <1>4, <2>2
<1>11. QED  BY <1>1, <1>2, <1>5, <1>7, <1>8, <1>9, <1>10

LEMMA PageIsWhole ==
  ASSUME NewsInv PROVE F!FrontPageIsWhole
<1>1. SUFFICES ASSUME home.at = "done"
               PROVE  /\ F!ToSet(F!Shown) \subseteq ever /\ F!IsInjective(F!Shown)
                      /\ F!Descending(home.rest)
                      /\ steady # {} => home.hero \in steady
                      /\ F!Shown = <<>> => always = {}
                      /\ \A s \in always \ F!ToSet(F!Shown) :
                            Len(home.rest) >= ShownSize /\ \A i \in DOMAIN home.rest : home.rest[i] > s
  BY DEF F!FrontPageIsWhole
<1>2. PICK hero, rest, shown : hero = home.hero /\ rest = home.rest /\ shown = F!Shown  OBVIOUS
<1>3. PageFits(hero, rest, always, ever, steady)  BY <1>1, <1>2 DEF NewsInv, HomeInv
<1>4. F!Descending(rest)  BY <1>3 DEF PageFits, F!Descending
<1>5. steady # {} => hero \in steady  BY <1>3 DEF PageFits
<1>6. CASE hero = 0
  <2>1. shown = <<>> /\ always = {}  BY <1>2, <1>3, <1>6 DEF PageFits, F!Shown
  <2>2. DOMAIN shown = {}  BY <2>1
  <2>3. F!ToSet(shown) = {} /\ F!IsInjective(shown)  BY <2>2 DEF F!ToSet, F!IsInjective
  <2>4. QED  BY <1>2, <1>4, <1>5, <2>1, <2>3
<1>7. CASE hero # 0
  <2>1. hero \in Stories /\ rest \in Seq(Stories) /\ shown = <<hero>> \o rest
    BY <1>2, <1>3, <1>7 DEF PageFits, F!Shown
  <2>2. PICK n : n = Len(rest)  OBVIOUS
  <2>3. /\ DOMAIN shown = 1..(n + 1) /\ n \in Nat /\ DOMAIN rest = 1..n
        /\ shown # <<>> /\ shown[1] = hero
        /\ \A i \in 1..n : shown[i + 1] = rest[i]
        /\ \A i \in 1..(n + 1) : i = 1 \/ (i - 1 \in 1..n /\ shown[i] = rest[i - 1])
    BY <2>1, <2>2, ShownIs
  <2>4. /\ hero \in ever /\ \A i \in 1..n : rest[i] \in ever /\ rest[i] # hero
        /\ \A i \in 1..n : \A j \in 1..n : i < j => rest[i] > rest[j]
    BY <1>3, <1>7, <2>3 DEF PageFits
  <2>5. F!ToSet(shown) \subseteq ever  BY <2>3, <2>4 DEF F!ToSet
  <2>6. F!IsInjective(shown)
    <3>1. \A i \in 1..n : rest[i] \in Nat
      <4>1. \A i \in 1..n : rest[i] \in Stories  BY <2>1, <2>2, <2>3, ElementOfSeq
      <4>2. \A s \in Stories : s \in Nat  BY NewsConstants
      <4>3. QED  BY ONLY <4>1, <4>2
    <3>2. \A i, j \in 1..n : rest[i] = rest[j] => i = j  BY <2>3, <2>4, <3>1
    <3>3. ASSUME NEW i \in 1..(n + 1), NEW j \in 1..(n + 1), shown[i] = shown[j] PROVE i = j
      <4>1. CASE i = 1 \/ j = 1  BY <2>3, <2>4, <3>3, <4>1
      <4>2. CASE i # 1 /\ j # 1
        <5>1. i - 1 \in 1..n /\ j - 1 \in 1..n /\ rest[i - 1] = rest[j - 1]  BY <2>3, <3>3, <4>2
        <5>2. i - 1 = j - 1  BY <3>2, <5>1
        <5>3. QED  BY <5>2
      <4>3. QED  BY <4>1, <4>2
    <3>4. QED  BY <2>3, <3>3 DEF F!IsInjective
  <2>7. ASSUME NEW s \in always \ F!ToSet(shown)
        PROVE  n >= ShownSize /\ \A i \in DOMAIN rest : rest[i] > s
    <3>1. 1 \in DOMAIN shown /\ \A i \in 1..n : i + 1 \in DOMAIN shown  BY <2>3
    <3>2. s # hero /\ \A i \in 1..n : rest[i] # s  BY <2>3, <2>7, <3>1 DEF F!ToSet
    <3>3. QED  BY <1>3, <2>2, <2>3, <3>2 DEF PageFits
  <2>8. QED  BY <1>2, <1>4, <1>5, <2>2, <2>3, <2>5, <2>6, <2>7
<1>8. QED  BY <1>6, <1>7

LEMMA PickedIsApt ==
  ASSUME NewsInv PROVE F!RelatedIsApt
<1>1. CASE related.at # "done"  BY <1>1 DEF F!RelatedIsApt
<1>2. CASE related.at = "done"
  <2>1. PICK f, o : f = related.picked /\ o = related.of  OBVIOUS
  <2>2. PickFits(f, o, ever) /\ AptFits(f, o, always)  BY <1>2, <2>1 DEF NewsInv, RelatedInv
  <2>3. \A s : F!Shared(s) = Common(s, o)  BY <2>1, NewsCounts DEF F!Shared, Common
  <2>4. o \notin F!ToSet(f) /\ F!ToSet(f) \subseteq ever /\ F!IsInjective(f)
    BY <2>2 DEF PickFits, F!ToSet, F!IsInjective
  <2>5. \A s \in F!ToSet(f) : F!Shared(s) > 0 \/ RailOf[s] = RailOf[o]
    BY <2>2, <2>3 DEF AptFits, F!ToSet
  <2>6. \A i, j \in DOMAIN f : i < j /\ f[j] \in always /\ F!Shared(f[j]) > 0 => F!Shared(f[i]) > 0
    BY <2>2, <2>3 DEF AptFits
  <2>7. Len(f) <= Limit  BY <2>2 DEF PickFits
  <2>8. Len(f) < Limit /\ o \in always =>
            \A s \in always \ {o} : RailOf[s] = RailOf[o] => s \in F!ToSet(f)
    BY <2>2 DEF AptFits, F!ToSet
  <2>9. QED  BY <2>1, <2>4, <2>5, <2>6, <2>7, <2>8 DEF F!RelatedIsApt
<1>3. QED  BY <1>1, <1>2

(***************************************************************************)
(* The types of the articles, one request at a time.                       *)
(***************************************************************************)
LEMMA EditorialRows ==
  ASSUME NEW x \in E!Rows
  PROVE  /\ E!Created(x) \in E!Rows /\ E!Removed(x) \in E!Rows
         /\ \A body \in Patches : E!Updated(x, body) \in E!Rows
         /\ E!Submitted(x) \in E!Rows /\ E!Rejected(x) \in E!Rows /\ E!Unpublished(x) \in E!Rows
         /\ \A d \in Nat : E!Published(x, d) \in E!Rows
         /\ \A p \in BOOLEAN : E!Pinned(x, p) \in E!Rows /\ [x EXCEPT !.featured = p] \in E!Rows
<1>1. E!Created(x) \in E!Rows /\ E!Submitted(x) \in E!Rows
  BY DEF E!Rows, E!Statuses, E!Created, E!Submitted
<1>2. E!Rejected(x) \in E!Rows /\ E!Unpublished(x) \in E!Rows
  BY DEF E!Rows, E!Statuses, E!Rejected, E!Unpublished
<1>3. ASSUME NEW body \in Patches PROVE E!Updated(x, body) \in E!Rows
  <2> DEFINE hero == [AR!NoRow EXCEPT !.status = "PUBLISHED", !.featured = TRUE]
  <2>a. AR!NoRow \in E!Rows  BY DEF AR!NoRow, E!Rows
  <2>b. hero \in E!Rows  BY <2>a DEF E!Rows, E!Statuses
  <2>c. body.row \in {AR!NoRow, hero}  BY <1>3 DEF Patches, AR!Text
  <2>d. x.edits + 1 \in Nat  BY DEF E!Rows
  <2> HIDE DEF hero
  <2>1. body.row \in E!Rows /\ x.edits + 1 \in Nat  BY <2>a, <2>b, <2>c, <2>d
  <2>2. QED  BY <2>1 DEF E!Rows, E!Updated
<1>4. E!Removed(x) \in E!Rows  BY DEF E!Rows, E!NoRow, E!Removed
<1>5. \A d \in Nat : E!Published(x, d) \in E!Rows  BY DEF E!Rows, E!Statuses, E!Published
<1>6. \A p \in BOOLEAN : E!Pinned(x, p) \in E!Rows /\ [x EXCEPT !.featured = p] \in E!Rows
  BY DEF E!Rows, E!Pinned
<1>7. QED  BY <1>1, <1>2, <1>3, <1>4, <1>5, <1>6

LEMMA EditorialInit ==
  ASSUME E!Init PROVE E!TypeOK
<1>1. E!NoRow \in E!Rows  BY DEF E!NoRow, E!Rows
<1>2. QED  BY <1>1 DEF E!Init, E!TypeOK

\* A request is read, or goes on, or ends.
LEMMA EditorialLooks ==
  ASSUME E!TypeOK, NEW h \in {1},
         \/ \E op \in E!Operations, a \in {1, 2}, by \in E!Actors : E!Check(h, op, a, by)
         \/ E!FeatureLook(h) \/ E!FeatureClear(h) \/ E!Fail(h)
  PROVE  E!TypeOK'
<1>1. CASE E!Fail(h)  BY <1>1 DEF E!Fail, E!TypeOK
<1>2. ASSUME NEW op \in E!Operations, NEW a \in {1, 2}, NEW by \in E!Actors, E!Check(h, op, a, by)
      PROVE  E!TypeOK'
  <2>1. article[a] \in E!Rows  BY DEF E!TypeOK
  <2>2. article[a].published_at \in Nat  BY <2>1 DEF E!Rows
  <2>3. [pc |-> "checked", op |-> op, id |-> a, by |-> by,
         published_at |-> IF op = "publish" THEN article[a].published_at ELSE 0,
         clears |-> {}] \in E!Requests
    BY <2>2 DEF E!Requests
  <2>4. QED  BY <1>2, <2>3 DEF E!Check, E!TypeOK
<1>3. CASE E!FeatureLook(h) \/ E!FeatureClear(h)
  <2>1. PICK pc \in {"looked", "cleared"}, rows \in SUBSET {1, 2} :
            handler' = [handler EXCEPT ![h].pc = pc, ![h].clears = rows]
    BY <1>3 DEF E!FeatureLook, E!FeatureClear, E!TypeOK, E!Requests
  <2>2. handler[h] \in E!Requests  BY <1>3 DEF E!FeatureLook, E!FeatureClear, E!TypeOK
  <2>3. [handler[h] EXCEPT !.pc = pc, !.clears = rows] \in E!Requests  BY <2>2 DEF E!Requests
  <2>4. handler' \in [{1} -> E!Requests \cup {E!Idle}]  BY <2>1, <2>3 DEF E!TypeOK
  <2>5. QED  BY <1>3, <2>4 DEF E!FeatureLook, E!FeatureClear, E!TypeOK
<1>4. QED  BY <1>1, <1>2, <1>3

\* The request that ends with a write.
LEMMA EditorialWrites ==
  ASSUME E!TypeOK, NEW h \in {1},
         \/ E!Update(h) \/ E!Remove(h) \/ E!Submit(h) \/ E!Publish(h) \/ E!Reject(h)
         \/ E!Unpublish(h) \/ E!FeatureCommit(h) \/ E!Pin(h)
  PROVE  E!TypeOK'
<1>1. PICK op : E!Writes(h, op)
  BY DEF E!Update, E!Remove, E!Submit, E!Publish, E!Reject, E!Unpublish, E!FeatureCommit, E!Pin
<1>2. handler' \in [{1} -> E!Requests \cup {E!Idle}] /\ overlapped' \subseteq {1, 2}
  BY <1>1 DEF E!Writes, E!TypeOK
<1>p. patched' \subseteq {1, 2}
  <2>1. handler[h].id \in {1, 2}  BY <1>1 DEF E!Writes, E!TypeOK, E!Requests
  <2>2. patched' \subseteq patched \cup {handler[h].id}
    BY DEF E!Update, E!Remove, E!Submit, E!Publish, E!Reject, E!Unpublish, E!FeatureCommit, E!Pin
  <2>3. QED  BY <2>1, <2>2 DEF E!TypeOK
<1>3. handler[h] \in E!Requests /\ handler[h].id \in {1, 2} /\ handler[h].published_at \in Nat
  BY <1>1 DEF E!Writes, E!TypeOK, E!Requests
<1>4. E!Row(h) \in E!Rows  BY <1>3 DEF E!Row, E!TypeOK
<1>5. \A row \in E!Rows : E!Write(h, row) => article' \in [{1, 2} -> E!Rows]
  BY <1>3 DEF E!Write, E!TypeOK
<1>6. CASE E!Update(h) \/ E!Remove(h) \/ E!Submit(h) \/ E!Reject(h) \/ E!Unpublish(h) \/ E!Pin(h)
  <2>1. article' \in [{1, 2} -> E!Rows]
    BY <1>4, <1>5, <1>6, EditorialRows
    DEF E!Update, E!Remove, E!Submit, E!Reject, E!Unpublish, E!Pin
  <2>2. clock' = clock  BY <1>6 DEF E!Update, E!Remove, E!Submit, E!Reject, E!Unpublish, E!Pin
  <2>3. QED  BY <1>2, <1>p, <2>1, <2>2 DEF E!TypeOK
<1>7. CASE E!Publish(h)
  <2>1. clock' \in Nat  BY <1>7 DEF E!Publish, E!TypeOK
  <2>2. E!DateOr(handler[h].published_at, clock') \in Nat  BY <1>3, <2>1 DEF E!DateOr
  <2>3. E!Published(E!Row(h), E!DateOr(handler[h].published_at, clock')) \in E!Rows
    BY <1>4, <2>2, EditorialRows
  <2>4. QED  BY <1>2, <1>p, <1>5, <1>7, <2>1, <2>3 DEF E!Publish, E!TypeOK
<1>8. CASE E!FeatureCommit(h)
  <2>1. \A a \in {1, 2} : \A p \in BOOLEAN : [article[a] EXCEPT !.featured = p] \in E!Rows
    BY EditorialRows DEF E!TypeOK
  <2>2. article' \in [{1, 2} -> E!Rows]  BY <1>8, <2>1 DEF E!FeatureCommit, E!TypeOK
  <2>3. QED  BY <1>2, <1>p, <1>8, <2>2 DEF E!FeatureCommit, E!TypeOK
<1>9. QED  BY <1>6, <1>7, <1>8

LEMMA EditorialStep ==
  ASSUME E!TypeOK, E!Next \/ UNCHANGED editorialVars PROVE E!TypeOK'
<1>1. CASE UNCHANGED editorialVars  BY <1>1 DEF editorialVars, E!TypeOK
<1>2. ASSUME NEW a \in {1, 2}, E!Create(a) PROVE E!TypeOK'
  <2>1. E!Created(article[a]) \in E!Rows  BY EditorialRows DEF E!TypeOK
  <2>2. QED  BY <1>2, <2>1 DEF E!Create, E!TypeOK
<1>3. ASSUME NEW h \in {1}, E!Handle(h) PROVE E!TypeOK'
  BY <1>3, EditorialLooks, EditorialWrites DEF E!Handle
<1>4. QED  BY <1>1, <1>2, <1>3 DEF E!Next

-------------------------------------------------------------------------------
(* The theorems *)

ServerInv == IInv /\ MediaInv /\ StaffInv /\ NewsInv /\ E!TypeOK

LEMMA ServerInductive ==
  ServerSpec => []ServerInv
<1>1. ASSUME ServerInit PROVE ServerInv
  <2>1. IInv  BY <1>1, InitIInv DEF ServerInit, NoAccounts
  <2>2. MediaInv /\ StaffInv
    BY <1>1, ServerAssumption, MediaInit, StaffInit DEF ServerInit, NoStaff
  <2>3. NewsInv  BY <1>1, NewsInit DEF ServerInit, NoNews
  <2>4. E!TypeOK  BY <1>1, EditorialInit DEF ServerInit
  <2>5. QED  BY <2>1, <2>2, <2>3, <2>4 DEF ServerInv
<1>2. ASSUME ServerInv, ServerNext PROVE ServerInv'
  <2>1. IInv'  BY <1>2, Inductive DEF ServerInv, ServerNext
  <2>2. MediaInv' /\ StaffInv'
    BY <1>2, ServerAssumption, MediaStep, StaffStep DEF ServerInv, ServerNext
  <2>3. NewsInv'  BY <1>2, NewsStep DEF ServerInv, ServerNext
  <2>4. E!TypeOK'  BY <1>2, EditorialStep DEF ServerInv, ServerNext
  <2>5. QED  BY <2>1, <2>2, <2>3, <2>4 DEF ServerInv
<1>3. ASSUME ServerInv, UNCHANGED <<part, vars, staffVars, mediaVars, newsVars, editorialVars>>
      PROVE  ServerInv'
  BY <1>3, Inductive, ServerAssumption, MediaStep, StaffStep, NewsStep, EditorialStep DEF ServerInv
<1>4. QED  BY <1>1, <1>2, <1>3, PTL DEF ServerSpec

\* Every state of the server's components has its type (TypesOK), for any values of their
\* constants.
THEOREM ServerTypes ==
  ServerSpec => []TypesOK
<1>1. ASSUME ServerInv PROVE TypesOK
  <2>1. TypeOK  BY <1>1 DEF ServerInv, IInv
  <2>2. M!TypeOK /\ S!TypeOK  BY <1>1 DEF ServerInv, MediaInv, StaffInv
  <2>3. F!TypeOK  BY <1>1, NewsTyped DEF ServerInv
  <2>4. QED  BY <1>1, <2>1, <2>2, <2>3 DEF ServerInv, TypesOK
<1>2. QED  BY <1>1, ServerInductive, PTL

\* Images and their rows come and go together (uploadMedia, deleteMedia): what is left over is
\* left by a failure of the compensation itself or by a crash, for any overlap of any number of
\* uploads, deletions and failures.
THEOREM ImagesHaveRows ==
  ServerSpec => []RowsAndImagesMatch
<1>1. ServerInv => RowsAndImagesMatch  BY DEF ServerInv, MediaInv, RowsAndImagesMatch
<1>2. QED  BY <1>1, ServerInductive, PTL

\* The studio keeps an admin (updateRole, createStaff) unless a change of roles was under way
\* while its actor was demoted, for any users and requests.
THEOREM AnAdminRemains ==
  ServerSpec => []AdminRemains
<1>1. ServerInv => AdminRemains  BY DEF ServerInv, StaffInv, AdminRemains
<1>2. QED  BY <1>1, ServerInductive, PTL

\* The password of an invitation (createStaff) reaches its owner by mail or an admin on the
\* panel, or its answer is still to come, or found no panel to show it; that the panel says a
\* mail is on its way and none is happens only to a backend that has no key for mails.
THEOREM PasswordsAreKnown ==
  ServerSpec => []SomebodyKnows
<1>1. ServerInv => SomebodyKnows  BY DEF ServerInv, StaffInv, SomebodyKnows
<1>2. QED  BY <1>1, ServerInductive, PTL

\* The front page (home) shows what was live while its queries ran, once each, misses nothing
\* that was live all along for something older and has the hero that stood all along, for any
\* stories and sections and for whatever editors do between any two of the queries.
THEOREM FrontPagesAreWhole ==
  ServerSpec => []FrontPageIsWhole
<1>1. ServerInv => FrontPageIsWhole  BY PageIsWhole DEF ServerInv, FrontPageIsWhole
<1>2. QED  BY <1>1, ServerInductive, PTL

\* Related stories (related) are others, live and apt, the tags' before the section's, and as
\* many as were asked for if there are as many, whatever editors do between the two queries.
THEOREM RelatedAreApt ==
  ServerSpec => []RelatedIsApt
<1>1. ServerInv => RelatedIsApt  BY PickedIsApt DEF ServerInv, RelatedIsApt
<1>2. QED  BY <1>1, ServerInductive, PTL
===============================================================================
