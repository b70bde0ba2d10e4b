---------------------------- MODULE EditorialProofs ----------------------------
(***************************************************************************)
(* Editorial: what survives any overlap of any number of requests          *)
(* (RowsMakeSense), that a single handler is the workflow, and what holds  *)
(* of an article none of whose requests overlapped, whatever goes on       *)
(* around it.  All of it is about articles whose workflow columns no PATCH *)
(* has named.                                                              *)
(***************************************************************************)
EXTENDS Editorial, ArticleRowProofs, TLAPS

\* What an accepted request has seen stays true of the row until the row is
\* deleted or a PATCH names these columns, because no operation takes them back.
HandlerInv(h) ==
    LET q == handler[h]
        row == article[q.id]
    IN  q # Idle =>
            /\ row.status # "NEW"
            /\ row.status \in Statuses /\ q.id \notin patched =>
                /\ q.op = "reject" => row.submitted
                /\ q.op \in {"unpublish", "feature"} => row.published_at > 0

EInv == TypeOK /\ RowsMakeSense /\ \A h \in Handlers : HandlerInv(h)

\* RowsMakeSense of one row.
Sensible(x) ==
    /\ x.status \in {"PUBLISHED", "ARCHIVED"} => x.published_at > 0
    /\ x.status = "IN_REVIEW" => x.submitted
    /\ x.note => x.submitted
    /\ x.featured => x.published_at > 0

\* No row is created or comes back by an operation on it.
Alive(x, y) ==
    /\ y.status = "NEW" => x.status = "NEW"
    /\ y.status \in Statuses => x.status # "DELETED"

\* The columns HandlerInv speaks of are never taken back.
Later(x, y) ==
    y.status \in Statuses => /\ x.submitted => y.submitted
                             /\ x.published_at > 0 => y.published_at > 0

-------------------------------------------------------------------------------
(* Any overlap *)

\* A write: rows move to later, sensible rows and one handler is done.
LEMMA WriteStep ==
  ASSUME EInv, NEW h \in Handlers, handler' = [handler EXCEPT ![h] = Idle],
         clock' \in Nat, article' \in [Articles -> Rows], UNCHANGED overlapped,
         patched \subseteq patched', patched' \subseteq Articles,
         \A a \in Articles :
            \/ article'[a] = article[a]
            \/ /\ Alive(article[a], article'[a])
               /\ \/ a \in patched'
                  \/ Sensible(article'[a]) /\ Later(article[a], article'[a])
  PROVE  EInv'
<1>1. TypeOK'
  BY DEF EInv, TypeOK
<1>2. RowsMakeSense'
  BY DEF EInv, RowsMakeSense, W!Untouched, Sensible
<1>3. ASSUME NEW g \in Handlers PROVE HandlerInv(g)'
  <2>1. CASE g = h
    BY <2>1 DEF EInv, TypeOK, HandlerInv
  <2>2. CASE g # h
    <3>1. handler'[g] = handler[g]
      BY <2>2
    <3>2. CASE handler[g] # Idle
      <4>1. handler[g] \in Requests /\ handler[g].id \in Articles
        BY <3>2 DEF EInv, TypeOK, Requests
      <4>2. article[handler[g].id].status \in Statuses \cup {"NEW", "DELETED"}
        BY <4>1 DEF EInv, TypeOK, Rows
      <4>3. HandlerInv(g)
        BY DEF EInv
      <4> QED
        BY <3>1, <3>2, <4>1, <4>2, <4>3 DEF HandlerInv, Alive, Later
    <3> QED
      BY <3>1, <3>2 DEF HandlerInv
  <2> QED
    BY <2>1, <2>2
<1> QED
  BY <1>1, <1>2, <1>3 DEF EInv

LEMMA CreateStep == ASSUME EInv, NEW a \in Articles, Create(a) PROVE EInv'
<1>1. article[a] \in Rows /\ Created(article[a]) \in Rows
  BY RowTypes DEF EInv, TypeOK
<1>2. article' = [article EXCEPT ![a] = Created(article[a])]
  BY DEF Create
<1>3. TypeOK'
  BY <1>1, <1>2 DEF Create, EInv, TypeOK
<1>4. /\ Created(article[a]).status = "DRAFT" /\ article[a].status = "NEW"
      /\ Created(article[a]).submitted = article[a].submitted
      /\ Created(article[a]).published_at = article[a].published_at
      /\ Created(article[a]).note = article[a].note
      /\ Created(article[a]).featured = article[a].featured
  BY <1>1 DEF Create, Created, Rows
<1>5. RowsMakeSense'
  BY <1>2, <1>4 DEF Create, EInv, TypeOK, RowsMakeSense, W!Untouched
<1>6. ASSUME NEW h \in Handlers PROVE HandlerInv(h)'
  <2>1. HandlerInv(h) /\ UNCHANGED <<handler, patched>>
    BY DEF EInv, Create
  <2>2. CASE handler[h] # Idle
    <3>1. handler[h] \in Requests /\ handler[h].id \in Articles
      BY <2>2 DEF EInv, TypeOK, Requests
    <3> QED
      BY <1>2, <1>4, <2>1, <2>2, <3>1 DEF HandlerInv, EInv, TypeOK
  <2> QED
    BY <2>1, <2>2 DEF HandlerInv
<1> QED
  BY <1>3, <1>5, <1>6 DEF EInv

LEMMA CheckStep ==
  ASSUME EInv, NEW h \in Handlers, NEW op \in Operations, NEW a \in Articles,
         NEW by \in Actors, Check(h, op, a, by)
  PROVE  EInv'
<1> DEFINE new == [pc |-> "checked", op |-> op, id |-> a, by |-> by,
             published_at |-> IF op = "publish" THEN article[a].published_at ELSE 0,
             clears |-> {}]
<1>1. /\ handler' = [handler EXCEPT ![h] = new] /\ UNCHANGED <<article, clock, patched>>
      /\ article[a].status \in Required(op, by)
  BY DEF Check
<1>o. overlapped' \subseteq Articles
  BY DEF Check, EInv, TypeOK
<1>2. article[a].status \in Statuses /\ article[a] \in Rows
  BY <1>1, RequiredAreStatuses DEF EInv, TypeOK
<1>3. new \in Requests /\ new # Idle /\ new.op = op /\ new.id = a
  BY <1>2 DEF Requests, Rows, Idle
<1> HIDE DEF new
<1>4. TypeOK' /\ RowsMakeSense'
  BY <1>1, <1>3, <1>o DEF EInv, TypeOK, RowsMakeSense, W!Untouched
<1>5. ASSUME NEW g \in Handlers PROVE HandlerInv(g)'
  <2>1. CASE g = h
    <3>1. op = "reject" /\ a \notin patched => article[a].submitted
      BY <1>1 DEF Required, EInv, RowsMakeSense, W!Untouched
    <3>2. op \in {"unpublish", "feature"} /\ a \notin patched => article[a].published_at > 0
      BY <1>1 DEF Required, EInv, RowsMakeSense, W!Untouched
    <3>3. handler'[h] = new
      BY <1>1 DEF EInv, TypeOK
    <3> QED
      BY <1>1, <1>2, <1>3, <2>1, <3>1, <3>2, <3>3 DEF HandlerInv, Statuses
  <2>2. CASE g # h
    BY <1>1, <2>2 DEF EInv, TypeOK, HandlerInv
  <2> QED
    BY <2>1, <2>2
<1> QED
  BY <1>4, <1>5 DEF EInv

\* A write of one row.
LEMMA OneRowStep ==
  ASSUME EInv, NEW h \in Handlers, NEW op \in Operations, Writes(h, op),
         NEW x \in Rows, Write(h, x), clock' \in Nat, Alive(Row(h), x),
         patched \subseteq patched', patched' \subseteq Articles,
         \/ handler[h].id \in patched'
         \/ Sensible(x) /\ Later(Row(h), x)
  PROVE  EInv'
<1>1. /\ handler[h].id \in Articles /\ handler' = [handler EXCEPT ![h] = Idle]
      /\ UNCHANGED overlapped
  BY DEF Writes, EInv, TypeOK, Requests
<1>2. /\ article' \in [Articles -> Rows] /\ article'[handler[h].id] = x
      /\ \A a \in Articles : a # handler[h].id => article'[a] = article[a]
  BY <1>1 DEF Write, EInv, TypeOK
<1> QED
  BY <1>1, <1>2, WriteStep DEF Row

LEMMA HandleStep == ASSUME EInv, NEW h \in Handlers, Handle(h) PROVE EInv'
<1> DEFINE x == Row(h)
<1> DEFINE Free == handler[h].id \notin patched
<1>c. clock \in Nat /\ patched \subseteq Articles
  BY DEF EInv, TypeOK
<1>r. ASSUME NEW op \in Operations, Writes(h, op)
      PROVE  /\ x \in Rows /\ x.status \in Statuses /\ handler[h].id \in Articles
             /\ Free => Sensible(x)
             /\ op = "reject" /\ Free => x.submitted
             /\ op \in {"unpublish", "feature"} /\ Free => x.published_at > 0
  <2>1. handler[h] # Idle /\ handler[h].op = op /\ x.status \in Statuses
    BY <1>r DEF Writes, Row
  <2>2. handler[h].id \in Articles
    BY <2>1 DEF EInv, TypeOK, Requests
  <2> QED
    BY <2>1, <2>2 DEF EInv, TypeOK, RowsMakeSense, W!Untouched, Sensible, HandlerInv, Row
<1>1. ASSUME NEW op \in Operations, NEW a \in Articles, NEW by \in Actors,
             Check(h, op, a, by)
      PROVE  EInv'
  BY <1>1, CheckStep
<1>2. CASE Update(h)
  <2>1. Writes(h, "update") /\ "update" \in Operations
    BY <1>2 DEF Update, Operations
  <2>2. PICK body \in Bodies :
              /\ Write(h, Updated(x, body))
              /\ patched' = IF body.columns = {} THEN patched ELSE patched \cup {handler[h].id}
    BY <1>2 DEF Update
  <2>3. /\ body \in PatchBodies /\ Updated(x, body) \in Rows /\ clock' \in Nat
        /\ Updated(x, body).status \in Statuses
    BY <1>2, <1>c, <1>r, <2>1, RowTypes, PatchKeeps, BodiesAssumption DEF Update
  <2>4. /\ Alive(x, Updated(x, body))
        /\ body.columns = {} /\ Free =>
              Sensible(Updated(x, body)) /\ Later(x, Updated(x, body))
    BY <1>r, <2>1, <2>3, PatchKeeps DEF Alive, Sensible, Later, Statuses
  <2>5. patched \subseteq patched' /\ patched' \subseteq Articles
    BY <1>c, <1>r, <2>1, <2>2
  <2>6. \/ handler[h].id \in patched'
        \/ Sensible(Updated(x, body)) /\ Later(x, Updated(x, body))
    BY <2>2, <2>4
  <2> QED
    BY <2>1, <2>2, <2>3, <2>4, <2>5, <2>6, OneRowStep
<1>3. CASE Remove(h)
  <2>1. Writes(h, "remove") /\ "remove" \in Operations
    BY <1>3 DEF Remove, Operations
  <2>2. Alive(x, Removed(x)) /\ (Free => Sensible(Removed(x)) /\ Later(x, Removed(x)))
    BY DEF Alive, Sensible, Later, Removed, NoRow, Statuses
  <2> QED
    BY <1>3, <1>c, <1>r, <2>1, <2>2, RowTypes, OneRowStep DEF Remove
<1>4. CASE Submit(h)
  <2>1. Writes(h, "submit") /\ "submit" \in Operations
    BY <1>4 DEF Submit, Operations
  <2>2. Alive(x, Submitted(x)) /\ (Free => Sensible(Submitted(x)) /\ Later(x, Submitted(x)))
    BY <1>r, <2>1 DEF Alive, Sensible, Later, Submitted, Rows, Statuses
  <2> QED
    BY <1>4, <1>c, <1>r, <2>1, <2>2, RowTypes, OneRowStep DEF Submit
<1>5. CASE Publish(h)
  <2> DEFINE d == DateOr(handler[h].published_at, clock')
  <2>1. Writes(h, "publish") /\ "publish" \in Operations /\ Write(h, Published(x, d))
    BY <1>5 DEF Publish, Operations
  <2>2. clock' \in Nat /\ d \in Nat /\ d > 0
    <3>1. handler[h] \in Requests
      BY <2>1 DEF Writes, EInv, TypeOK
    <3> QED
      BY <1>5, <1>c, <3>1 DEF Publish, DateOr, Requests
  <2> HIDE DEF d
  <2>3. Alive(x, Published(x, d)) /\ (Free => Sensible(Published(x, d)) /\ Later(x, Published(x, d)))
    BY <1>r, <2>1, <2>2 DEF Alive, Sensible, Later, Published, Rows, Statuses
  <2> QED
    BY <1>5, <1>c, <1>r, <2>1, <2>2, <2>3, RowTypes, OneRowStep DEF Publish
<1>6. CASE Reject(h)
  <2>1. Writes(h, "reject") /\ "reject" \in Operations
    BY <1>6 DEF Reject, Operations
  <2>2. Alive(x, Rejected(x)) /\ (Free => Sensible(Rejected(x)) /\ Later(x, Rejected(x)))
    BY <1>r, <2>1 DEF Alive, Sensible, Later, Rejected, Rows, Statuses
  <2> QED
    BY <1>6, <1>c, <1>r, <2>1, <2>2, RowTypes, OneRowStep DEF Reject
<1>7. CASE Unpublish(h)
  <2>1. Writes(h, "unpublish") /\ "unpublish" \in Operations
    BY <1>7 DEF Unpublish, Operations
  <2>2. Alive(x, Unpublished(x)) /\ (Free => Sensible(Unpublished(x)) /\ Later(x, Unpublished(x)))
    BY <1>r, <2>1 DEF Alive, Sensible, Later, Unpublished, Rows, Statuses
  <2> QED
    BY <1>7, <1>c, <1>r, <2>1, <2>2, RowTypes, OneRowStep DEF Unpublish
<1>8. ASSUME NEW pc \in {"looked", "cleared"}, NEW C \in SUBSET Articles,
             handler[h] # Idle, UNCHANGED <<article, clock, overlapped, patched>>,
             handler' = [handler EXCEPT ![h] = [handler[h] EXCEPT !.pc = pc, !.clears = C]]
      PROVE  EInv'
  <2> DEFINE new == [handler[h] EXCEPT !.pc = pc, !.clears = C]
  <2>1. /\ handler[h] \in Requests /\ handler[h] # Idle
        /\ UNCHANGED <<article, clock, overlapped, patched>>
    BY <1>8 DEF EInv, TypeOK
  <2>2. /\ new \in Requests /\ new # Idle
        /\ new.op = handler[h].op /\ new.id = handler[h].id
    BY <2>1 DEF Requests, Idle
  <2>3. handler' = [handler EXCEPT ![h] = new]
    BY <1>8
  <2> HIDE DEF new
  <2>4. TypeOK' /\ RowsMakeSense'
    BY <2>1, <2>2, <2>3 DEF EInv, TypeOK, RowsMakeSense, W!Untouched
  <2>5. ASSUME NEW g \in Handlers PROVE HandlerInv(g)'
    <3>1. HandlerInv(g) /\ HandlerInv(h)
      BY DEF EInv
    <3>2. handler'[g] = IF g = h THEN new ELSE handler[g]
      BY <2>3 DEF EInv, TypeOK
    <3> QED
      BY <2>1, <2>2, <3>1, <3>2 DEF HandlerInv
  <2> QED
    BY <2>4, <2>5 DEF EInv
<1>l. CASE FeatureLook(h)
  <2> DEFINE C == {a \in Articles : article[a].featured}
  <2>1. handler' = [handler EXCEPT ![h] = [handler[h] EXCEPT !.pc = "looked", !.clears = C]]
    BY <1>l DEF FeatureLook
  <2>2. handler[h] # Idle /\ UNCHANGED <<article, clock, overlapped, patched>>
    BY <1>l DEF FeatureLook
  <2>3. C \in SUBSET Articles
    OBVIOUS
  <2> HIDE DEF C
  <2> QED
    BY <1>8, <2>1, <2>2, <2>3
<1>k. CASE FeatureClear(h)
  <2>1. handler[h] \in Requests
    BY <1>k DEF FeatureClear, EInv, TypeOK
  <2>2. {a \in handler[h].clears : article[a].featured} \in SUBSET Articles
    BY <2>1 DEF Requests
  <2> QED
    BY <1>8, <1>k, <2>2 DEF FeatureClear
<1>9. CASE FeatureCommit(h)
  <2>1. Writes(h, "feature") /\ "feature" \in Operations
    BY <1>9 DEF FeatureCommit, Operations
  <2>2. ASSUME NEW a \in Articles
        PROVE  /\ article[a] \in Rows
               /\ \A p \in BOOLEAN :
                    LET y == [article[a] EXCEPT !.featured = p]
                    IN  /\ y \in Rows /\ y.status = article[a].status /\ y.featured = p
                        /\ y.submitted = article[a].submitted /\ y.note = article[a].note
                        /\ y.published_at = article[a].published_at
    <3>1. article[a] \in Rows
      BY DEF EInv, TypeOK
    <3>2. \A p \in BOOLEAN : [article[a] EXCEPT !.featured = p] \in Rows
      BY <3>1, RowTypes
    <3> QED
      BY <3>1, <3>2 DEF Rows
  <2>3. ASSUME NEW a \in Articles
        PROVE  /\ article'[a] \in Rows
               /\ \/ article'[a] = article[a]
                  \/ /\ Alive(article[a], article'[a])
                     /\ \/ a \in patched
                        \/ Sensible(article'[a]) /\ Later(article[a], article'[a])
    <3>s. a \notin patched => Sensible(article[a])
      BY DEF EInv, RowsMakeSense, W!Untouched, Sensible
    <3>1. CASE a = handler[h].id
      <4>1. article'[a] = [article[a] EXCEPT !.featured = TRUE]
        BY <1>9, <3>1 DEF FeatureCommit
      <4>2. (a \notin patched => article[a].published_at > 0) /\ article[a].status \in Statuses
        BY <1>r, <2>1, <3>1 DEF Row
      <4> QED
        BY <2>2, <3>s, <4>1, <4>2 DEF Alive, Sensible, Later, Statuses
    <3>2. CASE a # handler[h].id /\ a \in handler[h].clears
      <4>1. article'[a] = [article[a] EXCEPT !.featured = FALSE]
        BY <1>9, <3>2 DEF FeatureCommit
      <4> QED
        BY <2>2, <3>s, <4>1 DEF Alive, Sensible, Later, Statuses
    <3>3. CASE a # handler[h].id /\ a \notin handler[h].clears
      BY <1>9, <2>2, <3>3 DEF FeatureCommit
    <3> QED
      BY <3>1, <3>2, <3>3
  <2>4. article' \in [Articles -> Rows]
    BY <1>9, <2>3 DEF FeatureCommit
  <2>5. /\ handler' = [handler EXCEPT ![h] = Idle] /\ clock' \in Nat
        /\ UNCHANGED <<overlapped, patched>>
    BY <1>9, <1>c DEF FeatureCommit, Writes
  <2> QED
    BY <1>c, <2>3, <2>4, <2>5, WriteStep
<1>10. CASE Pin(h)
  <2>1. Writes(h, "pin") /\ "pin" \in Operations /\ UNCHANGED <<clock, patched>>
    BY <1>10 DEF Pin, Operations
  <2>2. PICK p \in BOOLEAN : Write(h, Pinned(x, p))
    BY <1>10 DEF Pin
  <2>3. Alive(x, Pinned(x, p)) /\ (Free => Sensible(Pinned(x, p)) /\ Later(x, Pinned(x, p)))
    BY <1>r, <2>1 DEF Alive, Sensible, Later, Pinned, Rows, Statuses
  <2> QED
    BY <1>c, <1>r, <2>1, <2>2, <2>3, RowTypes, OneRowStep
<1>11. CASE Fail(h)
  BY <1>11, <1>c, WriteStep DEF Fail, EInv, TypeOK
<1> QED
  BY <1>1, <1>2, <1>3, <1>4, <1>5, <1>6, <1>7, <1>l, <1>k, <1>9, <1>10, <1>11 DEF Handle

LEMMA InitEInv == Init => EInv
BY DEF Init, EInv, TypeOK, RowsMakeSense, W!Untouched, HandlerInv, NoRow, Rows, Idle

LEMMA StepEInv == EInv /\ [Next]_vars => EInv'
<1>1. EInv /\ UNCHANGED vars => EInv'
  BY DEF vars, EInv, TypeOK, RowsMakeSense, W!Untouched, HandlerInv
<1> QED
  BY <1>1, CreateStep, HandleStep DEF Next

\* Whatever overlaps, the columns of a row make sense together, as long as no PATCH
\* names them.
THEOREM OverlapsKeepRows == Spec => []RowsMakeSense
<1>1. EInv => RowsMakeSense
  BY DEF EInv
<1> QED
  BY <1>1, InitEInv, StepEInv, PTL DEF Spec

\* Every variable keeps its type.
THEOREM TypeCorrect == Spec => []TypeOK
<1>1. EInv => TypeOK
  BY DEF EInv
<1> QED
  BY <1>1, InitEInv, StepEInv, PTL DEF Spec
-------------------------------------------------------------------------------
(* One handler *)

\* With nobody else writing, what the handler has seen is what is there.
SerialInv(h) ==
    LET q == handler[h]
        row == article[q.id]
    IN  q # Idle =>
            /\ row.status \in Required(q.op, q.by)
            /\ q.op = "publish" => q.published_at = row.published_at
            /\ q.pc \in {"looked", "cleared"} =>
                  q.op = "feature" /\ q.clears = {a \in Articles : article[a].featured}

OneHandler == \A g, h \in Handlers : g = h

\* The row operations mean the same in both modules.
LEMMA SameRowOperations ==
  /\ W!Statuses = Statuses /\ W!Actors = Actors /\ W!NoRow = NoRow
  /\ \A op, by : W!Required(op, by) = Required(op, by)
  /\ \A x : /\ W!Created(x) = Created(x)
            /\ \A body : W!Updated(x, body) = Updated(x, body)
            /\ W!Removed(x) = Removed(x) /\ W!Submitted(x) = Submitted(x)
            /\ W!Rejected(x) = Rejected(x) /\ W!Unpublished(x) = Unpublished(x)
  /\ \A x, y : /\ W!Published(x, y) = Published(x, y) /\ W!Pinned(x, y) = Pinned(x, y)
               /\ W!DateOr(x, y) = DateOr(x, y)
<1>1. W!Statuses = Statuses /\ W!Actors = Actors /\ W!NoRow = NoRow
  BY DEF Statuses, W!Statuses, Actors, W!Actors, NoRow, W!NoRow
<1>2. \A op, by : W!Required(op, by) = Required(op, by)
  BY <1>1 DEF Required, W!Required
<1>3. \A x : /\ W!Created(x) = Created(x)
            /\ \A body : W!Updated(x, body) = Updated(x, body)
            /\ W!Removed(x) = Removed(x) /\ W!Submitted(x) = Submitted(x)
            /\ W!Rejected(x) = Rejected(x) /\ W!Unpublished(x) = Unpublished(x)
  BY <1>1 DEF Created, W!Created, Updated, W!Updated, Removed, W!Removed, Submitted,
     W!Submitted, Rejected, W!Rejected, Unpublished, W!Unpublished
<1>4. \A x, y : /\ W!Published(x, y) = Published(x, y) /\ W!Pinned(x, y) = Pinned(x, y)
               /\ W!DateOr(x, y) = DateOr(x, y)
  BY DEF Published, W!Published, Pinned, W!Pinned, DateOr, W!DateOr
<1> QED
  BY <1>1, <1>2, <1>3, <1>4

LEMMA AcceptedMay ==
  ASSUME EInv, NEW h \in Handlers, SerialInv(h), NEW op \in Operations, Writes(h, op)
  PROVE  /\ handler[h].id \in Articles /\ W!May(op, handler[h].id)
         /\ Row(h) = article[handler[h].id]
         /\ \A x : Write(h, x) => W!Write(handler[h].id, x)
<1>1. handler[h] \in Requests /\ handler[h] # Idle /\ handler[h].op = op
  BY DEF EInv, TypeOK, Writes
<1>2. handler[h].id \in Articles /\ handler[h].by \in Actors
  BY <1>1 DEF Requests
<1>3. W!May(op, handler[h].id)
  BY <1>1, <1>2, SameRowOperations DEF SerialInv, W!May
<1> QED
  BY <1>2, <1>3 DEF Row, Write, W!Write

\* The writes of a handler that works alone are the operations of the workflow.
LEMMA HandleShows ==
  ASSUME EInv, NEW h \in Handlers, SerialInv(h), Handle(h)
  PROVE  W!Next \/ UNCHANGED W!wvars
<1> DEFINE a == handler[h].id
<1>1. CASE \E op \in Operations, b \in Articles, by \in Actors : Check(h, op, b, by)
  BY <1>1 DEF Check, W!wvars
<1>2. CASE Update(h)
  <2>1. a \in Articles /\ W!May("update", a) /\ Row(h) = article[a]
    BY <1>2, AcceptedMay DEF Update, Operations
  <2>2. PICK body \in Bodies :
              /\ Write(h, Updated(Row(h), body))
              /\ patched' = IF body.columns = {} THEN patched ELSE patched \cup {a}
    BY <1>2 DEF Update
  <2>3. W!Write(a, W!Updated(article[a], body)) /\ UNCHANGED clock
    BY <1>2, <2>1, <2>2, SameRowOperations DEF Update, Write, W!Write
  <2>4. W!Update(a)
    BY <2>1, <2>2, <2>3 DEF W!Update
  <2> QED
    BY <2>1, <2>4 DEF W!Next
<1>3. CASE Remove(h)
  <2>1. a \in Articles /\ W!Remove(a)
    BY <1>3, AcceptedMay, SameRowOperations
       DEF Remove, W!Remove, Operations
  <2> QED
    BY <2>1 DEF W!Next
<1>4. CASE Submit(h)
  <2>1. a \in Articles /\ W!Submit(a)
    BY <1>4, AcceptedMay, SameRowOperations
       DEF Submit, W!Submit, Operations
  <2> QED
    BY <2>1 DEF W!Next
<1>5. CASE Publish(h)
  <2>1. handler[h].published_at = article[a].published_at
    BY <1>5 DEF Publish, Writes, SerialInv
  <2>2. a \in Articles /\ W!Publish(a)
    BY <1>5, <2>1, AcceptedMay, SameRowOperations
       DEF Publish, W!Publish, Operations
  <2> QED
    BY <2>2 DEF W!Next
<1>6. CASE Reject(h)
  <2>1. a \in Articles /\ W!Reject(a)
    BY <1>6, AcceptedMay, SameRowOperations
       DEF Reject, W!Reject, Operations
  <2> QED
    BY <2>1 DEF W!Next
<1>7. CASE Unpublish(h)
  <2>1. a \in Articles /\ W!Unpublish(a)
    BY <1>7, AcceptedMay, SameRowOperations
       DEF Unpublish, W!Unpublish, Operations
  <2> QED
    BY <2>1 DEF W!Next
<1>8. CASE FeatureLook(h) \/ FeatureClear(h)
  BY <1>8 DEF FeatureLook, FeatureClear, W!wvars
<1>9. CASE FeatureCommit(h)
  <2>1. Writes(h, "feature") /\ handler[h].pc = "cleared" /\ UNCHANGED <<clock, patched>>
    BY <1>9 DEF FeatureCommit
  <2>2. a \in Articles /\ W!May("feature", a)
    BY <2>1, AcceptedMay DEF Operations
  <2>3. handler[h].clears = {b \in Articles : article[b].featured}
    BY <2>1 DEF SerialInv, Writes
  <2>4. ASSUME NEW b \in Articles
        PROVE  article'[b] = [article[b] EXCEPT !.featured = (b = a)]
    <3>1. article[b] \in Rows
      BY DEF EInv, TypeOK
    <3>2. CASE b = a
      BY <1>9, <3>2 DEF FeatureCommit
    <3>3. CASE b # a /\ article[b].featured
      BY <1>9, <2>3, <3>3 DEF FeatureCommit
    <3>4. CASE b # a /\ ~article[b].featured
      <4>1. article'[b] = article[b]
        BY <1>9, <2>3, <3>4 DEF FeatureCommit
      <4>2. article[b] = [article[b] EXCEPT !.featured = FALSE]
        BY <3>1, <3>4 DEF Rows
      <4> QED
        BY <3>4, <4>1, <4>2
    <3> QED
      BY <3>2, <3>3, <3>4
  <2>5. article' = [b \in Articles |-> [article[b] EXCEPT !.featured = (b = a)]]
    BY <1>9, <2>4 DEF FeatureCommit
  <2>6. W!Feature(a)
    BY <2>1, <2>2, <2>5 DEF W!Feature
  <2> QED
    BY <2>2, <2>6 DEF W!Next
<1>10. CASE Pin(h)
  <2>1. a \in Articles /\ W!Pin(a)
    BY <1>10, AcceptedMay, SameRowOperations
       DEF Pin, W!Pin, Operations
  <2> QED
    BY <2>1 DEF W!Next
<1>11. CASE Fail(h)
  BY <1>11 DEF Fail, W!wvars
<1> QED
  BY <1>1, <1>2, <1>3, <1>4, <1>5, <1>6, <1>7, <1>8, <1>9, <1>10, <1>11 DEF Handle

LEMMA SerialStep ==
  ASSUME OneHandler, EInv, NEW h \in Handlers, SerialInv(h), [Next]_vars
  PROVE  SerialInv(h)'
<1>t. handler[h] # Idle => handler[h] \in Requests
  BY DEF EInv, TypeOK
<1>1. CASE UNCHANGED vars
  BY <1>1 DEF vars, SerialInv
<1>2. ASSUME NEW a \in Articles, Create(a) PROVE SerialInv(h)'
  <2>1. \A b \in Articles : article[b] \in Rows
    BY DEF EInv, TypeOK
  <2>2. \A b \in Articles : article'[b].featured = article[b].featured
    BY <1>2, <2>1 DEF Create, Created, Rows
  <2>3. CASE handler[h] # Idle
    <3>1. handler[h].id \in Articles /\ article[handler[h].id].status \in Statuses
      BY <1>t, <2>3, RequiredAreStatuses DEF Requests, SerialInv
    <3>2. handler[h].id # a
      BY <1>2, <3>1 DEF Create, Statuses
    <3>3. article'[handler[h].id] = article[handler[h].id] /\ UNCHANGED handler
      BY <1>2, <3>1, <3>2 DEF Create, EInv, TypeOK
    <3> QED
      BY <2>2, <2>3, <3>3 DEF SerialInv
  <2>4. CASE handler[h] = Idle
    BY <1>2, <2>4 DEF Create, SerialInv
  <2> QED
    BY <2>3, <2>4
<1>3. ASSUME NEW op \in Operations, NEW a \in Articles, NEW by \in Actors,
             Check(h, op, a, by)
      PROVE  SerialInv(h)'
  <2> DEFINE new == [pc |-> "checked", op |-> op, id |-> a, by |-> by,
             published_at |-> IF op = "publish" THEN article[a].published_at ELSE 0,
             clears |-> {}]
  <2>1. handler'[h] = new /\ UNCHANGED article /\ article[a].status \in Required(op, by)
    BY <1>3 DEF Check, EInv, TypeOK
  <2>2. /\ new.id = a /\ new.op = op /\ new.by = by /\ new.pc \notin {"looked", "cleared"}
        /\ op = "publish" => new.published_at = article[a].published_at
    OBVIOUS
  <2> HIDE DEF new
  <2> QED
    BY <2>1, <2>2 DEF SerialInv
<1>4. CASE FeatureLook(h) \/ FeatureClear(h)
  <2> DEFINE C == {a \in Articles : article[a].featured}
  <2>1. /\ handler[h] \in Requests /\ handler[h] # Idle /\ UNCHANGED article
    BY <1>4, <1>t DEF FeatureLook, FeatureClear
  <2>2. ASSUME NEW pc, handler'[h] = [handler[h] EXCEPT !.pc = pc, !.clears = C],
               handler[h].op = "feature"
        PROVE  SerialInv(h)'
    <3> DEFINE new == [handler[h] EXCEPT !.pc = pc, !.clears = C]
    <3>1. /\ new.op = handler[h].op /\ new.id = handler[h].id /\ new.by = handler[h].by
          /\ new.clears = C
      BY <2>1 DEF Requests
    <3>2. handler'[h] = new
      BY <2>2
    <3> HIDE DEF new
    <3> QED
      BY <2>1, <2>2, <3>1, <3>2 DEF SerialInv
  <2>3. CASE FeatureLook(h)
    BY <2>2, <2>3 DEF FeatureLook, EInv, TypeOK
  <2>4. CASE FeatureClear(h)
    <3>1. handler[h].clears = C
      BY <2>1, <2>4 DEF FeatureClear, SerialInv
    <3>2. {a \in handler[h].clears : article[a].featured} = C
      BY <3>1
    <3>3. handler'[h] = [handler[h] EXCEPT !.pc = "cleared", !.clears = C]
      BY <2>4, <3>2 DEF FeatureClear, EInv, TypeOK
    <3>4. handler[h].op = "feature"
      BY <2>1, <2>4 DEF FeatureClear, SerialInv
    <3> QED
      BY <2>2, <3>3, <3>4
  <2> QED
    BY <1>4, <2>3, <2>4
<1>5. ASSUME handler'[h] = Idle PROVE SerialInv(h)'
  BY <1>5 DEF SerialInv
<1>6. CASE \/ Update(h) \/ Remove(h) \/ Submit(h) \/ Publish(h) \/ Reject(h)
           \/ Unpublish(h) \/ FeatureCommit(h) \/ Pin(h) \/ Fail(h)
  <2>1. handler' = [handler EXCEPT ![h] = Idle]
    BY <1>6 DEF Update, Remove, Submit, Publish, Reject, Unpublish, FeatureCommit, Pin,
       Fail, Writes
  <2> QED
    BY <1>5, <2>1 DEF EInv, TypeOK
<1>7. CASE Handle(h)
  BY <1>3, <1>4, <1>6, <1>7 DEF Handle
<1> QED
  BY <1>1, <1>2, <1>7 DEF Next, OneHandler

\* A step of one handler alone is a step of the workflow.
LEMMA SerialShows ==
  ASSUME EInv, \A h \in Handlers : SerialInv(h), [Next]_vars
  PROVE  W!Next \/ UNCHANGED W!wvars
<1>1. ASSUME NEW a \in Articles, Create(a) PROVE W!Next
  <2>1. W!Create(a)
    BY <1>1, SameRowOperations DEF Create, W!Create, W!Write
  <2> QED
    BY <2>1 DEF W!Next
<1>2. CASE UNCHANGED vars
  BY <1>2 DEF vars, W!wvars
<1> QED
  BY <1>1, <1>2, HandleShows DEF Next

LEMMA SerialInit ==
  Init => \A h \in Handlers : SerialInv(h)
BY DEF Init, SerialInv

\* A backend that served one request at a time would be the workflow; so every
\* departure from the workflow needs two requests in flight.
THEOREM SerialImplementsWorkflow ==
  ASSUME OneHandler PROVE Spec => ImplementsWorkflow
<1> DEFINE S == \A h \in Handlers : SerialInv(h)
<1>1. EInv /\ S /\ [Next]_vars => S'
  BY SerialStep
<1>2. EInv /\ S /\ [Next]_vars => [W!Next]_(W!wvars)
  BY SerialShows
<1>3. Init => W!Init
  BY SameRowOperations DEF Init, W!Init
<1> QED
  BY <1>1, <1>2, <1>3, SerialInit, InitEInv, StepEInv, PTL
     DEF Spec, ImplementsWorkflow, W!Spec

\* No operation of the workflow but Feature makes an article the hero, and Feature
\* makes one of them the hero alone.
LEMMA OneHeroStep ==
  ASSUME EInv, AtMostOneFeatured, W!Next
  PROVE  AtMostOneFeatured'
<1>1. \A a \in Articles : article[a] \in Rows
  BY DEF EInv, TypeOK
<1>2. ASSUME NEW a \in Articles, NEW row, W!Write(a, row), patched \subseteq patched',
             a \in patched' \/ (row.featured => article[a].featured)
      PROVE  AtMostOneFeatured'
  <2>1. \A b \in W!Untouched' : article'[b].featured => article[b].featured
    BY <1>2 DEF W!Write, W!Untouched, EInv, TypeOK
  <2> QED
    BY <1>2, <2>1 DEF AtMostOneFeatured, W!AtMostOneFeatured, W!Untouched
<1>3. ASSUME NEW a \in Articles, W!Feature(a) PROVE AtMostOneFeatured'
  <2>1. \A b \in Articles : article'[b].featured = (b = a)
    BY <1>1, <1>3 DEF W!Feature, Rows
  <2> QED
    BY <2>1 DEF AtMostOneFeatured, W!AtMostOneFeatured, W!Untouched
<1>4. \A a \in Articles :
        LET x == article[a] IN
        /\ Created(x).featured = x.featured
        /\ Removed(x).featured = FALSE /\ Submitted(x).featured = x.featured
        /\ Rejected(x).featured = x.featured /\ Unpublished(x).featured = FALSE
        /\ \A d : Published(x, d).featured = x.featured
        /\ \A p : Pinned(x, p).featured = x.featured
  BY <1>1 DEF Rows, Created, Removed, Submitted, Rejected, Unpublished,
     Published, Pinned, NoRow
<1>5. PICK a \in Articles :
        \/ W!Create(a) \/ W!Update(a) \/ W!Remove(a) \/ W!Submit(a) \/ W!Publish(a)
        \/ W!Reject(a) \/ W!Unpublish(a) \/ W!Feature(a) \/ W!Pin(a)
  BY DEF W!Next
<1>6. CASE W!Create(a)
  BY <1>2, <1>4, <1>6, SameRowOperations DEF W!Create
<1>7. CASE W!Update(a)
  <2>1. PICK body \in Bodies :
              /\ W!Write(a, Updated(article[a], body))
              /\ patched' = IF body.columns = {} THEN patched ELSE patched \cup {a}
    BY <1>7, SameRowOperations DEF W!Update
  <2>2. \/ a \in patched'
        \/ (Updated(article[a], body).featured => article[a].featured)
    BY <1>1, <2>1, PatchKeeps, BodiesAssumption
  <2> QED
    BY <1>2, <2>1, <2>2
<1>8. CASE W!Remove(a)
  BY <1>2, <1>4, <1>8, SameRowOperations DEF W!Remove
<1>9. CASE W!Submit(a)
  BY <1>2, <1>4, <1>9, SameRowOperations DEF W!Submit
<1>10. CASE W!Publish(a)
  BY <1>2, <1>4, <1>10, SameRowOperations DEF W!Publish
<1>11. CASE W!Reject(a)
  BY <1>2, <1>4, <1>11, SameRowOperations DEF W!Reject
<1>12. CASE W!Unpublish(a)
  BY <1>2, <1>4, <1>12, SameRowOperations DEF W!Unpublish
<1>13. CASE W!Pin(a)
  BY <1>2, <1>4, <1>13, SameRowOperations DEF W!Pin
<1> QED
  BY <1>3, <1>5, <1>6, <1>7, <1>8, <1>9, <1>10, <1>11, <1>12, <1>13

\* With one request at a time there is at most one hero, as feature() says, among
\* the articles that no PATCH has overwritten.
THEOREM SerialOneHero ==
  ASSUME OneHandler PROVE Spec => []AtMostOneFeatured
<1> DEFINE S == \A h \in Handlers : SerialInv(h)
<1>1. EInv /\ S /\ [Next]_vars => S'
  BY SerialStep
<1>2. Init => AtMostOneFeatured
  BY DEF Init, NoRow, AtMostOneFeatured, W!AtMostOneFeatured, W!Untouched
<1>3. EInv /\ S /\ AtMostOneFeatured /\ [Next]_vars => AtMostOneFeatured'
  <2>1. AtMostOneFeatured /\ UNCHANGED W!wvars => AtMostOneFeatured'
    BY DEF W!wvars, AtMostOneFeatured, W!AtMostOneFeatured, W!Untouched
  <2> QED
    BY <2>1, SerialShows, OneHeroStep
<1> QED
  BY <1>1, <1>2, <1>3, SerialInit, InitEInv, StepEInv, PTL DEF Spec

-------------------------------------------------------------------------------
(***************************************************************************)
(* Editorial: an article whose requests never overlapped follows the       *)
(* workflow, for any number of articles and of requests for others.        *)
(*                                                                         *)
(* While the requests for an article come one after the other, the one in  *)
(* flight has seen the row as it is (Seen), because only requests for an   *)
(* article change its status and its date.  feature() of another article   *)
(* only takes the hero away.                                               *)
(***************************************************************************)

\* What request q was accepted for is what the row says.
Seen(q, row) ==
    /\ row.status \in Required(q.op, q.by)
    /\ q.op = "publish" => q.published_at = row.published_at

HeroLive(row) == row.featured => row.status = "PUBLISHED"

ApartInv(a) ==
    /\ HeroLive(article[a])
    /\ \A g, h \in On(a) : g = h
    /\ \A h \in On(a) : Seen(handler[h], article[a])

AInv == \A a \in Apart : ApartInv(a)

\* From row x to row y as the workflow allows.
Move(x, y) ==
    /\ y.status \in {x.status, "DELETED"} \/ <<x.status, y.status>> \in W!Moves
    /\ x.published_at > 0 /\ y.status # "DELETED" => y.published_at = x.published_at
    /\ HeroLive(x) => HeroLive(y)

-------------------------------------------------------------------------------
(* One article *)

\* A step that is about something else.
LEMMA OtherStep ==
  ASSUME EInv, NEW a \in Articles, ApartInv(a),
         \A h \in Handlers :
            \/ handler'[h] = Idle
            \/ /\ handler[h] # Idle
               /\ handler'[h].id = handler[h].id /\ handler'[h].op = handler[h].op
               /\ handler'[h].by = handler[h].by
               /\ handler'[h].published_at = handler[h].published_at,
         article'[a].status = article[a].status,
         article'[a].published_at = article[a].published_at,
         article'[a].featured => article[a].featured
  PROVE  Move(article[a], article'[a]) /\ ApartInv(a)'
<1>1. \A h \in On(a)' : h \in On(a)
  BY DEF On
<1>2. \A h \in On(a)' : Seen(handler[h], article[a]) => Seen(handler'[h], article'[a])
  BY DEF On, Seen
<1>3. HeroLive(article[a]) => HeroLive(article'[a])
  BY DEF HeroLive
<1>4. HeroLive(article[a])
  BY DEF ApartInv
<1>5. (\A g, h \in On(a)' : g = h) /\ \A h \in On(a)' : Seen(handler'[h], article'[a])
  BY <1>1, <1>2 DEF ApartInv
<1> QED
  BY <1>3, <1>4, <1>5 DEF ApartInv, Move

\* The write of the only request for it.
LEMMA OwnStep ==
  ASSUME EInv, NEW a \in Articles, ApartInv(a), NEW h \in On(a),
         handler' = [handler EXCEPT ![h] = Idle],
         Move(article[a], article'[a])
  PROVE  ApartInv(a)'
<1>1. h \in Handlers
  BY DEF On
<1>2. ASSUME NEW g \in Handlers, handler'[g] # Idle PROVE g \notin On(a) /\ handler'[g] = handler[g]
  BY <1>1, <1>2 DEF EInv, TypeOK, ApartInv
<1>3. \A g \in Handlers : ~(handler'[g] # Idle /\ handler'[g].id = a)
  BY <1>2 DEF On
<1>4. HeroLive(article'[a])
  BY DEF ApartInv, Move
<1> QED
  BY <1>3, <1>4 DEF ApartInv, On

\* Every operation moves a row along the workflow, if it meets the row it was
\* accepted for.
LEMMA OperationMoves ==
  ASSUME NEW x \in Rows, NEW op \in Operations, NEW by \in Actors,
         x.status \in Required(op, by)
  PROVE  /\ op = "update" => \A body \in PatchBodies :
                              body.columns = {} => Move(x, Updated(x, body))
         /\ op = "remove" => Move(x, Removed(x))
         /\ op = "submit" => Move(x, Submitted(x))
         /\ op = "publish" => \A now \in Nat : Move(x, Published(x, DateOr(x.published_at, now)))
         /\ op = "reject" => Move(x, Rejected(x))
         /\ op = "unpublish" => Move(x, Unpublished(x))
         /\ op = "feature" => Move(x, [x EXCEPT !.featured = TRUE])
         /\ op = "pin" => \A p \in BOOLEAN : Move(x, Pinned(x, p))
<1>1. op = "update" => \A body \in PatchBodies :
                        body.columns = {} => Move(x, Updated(x, body))
  BY PatchKeeps DEF Move, HeroLive
<1> USE DEF Move, HeroLive, W!Moves, Rows, Required, Statuses, Actors
<1>2. op = "remove" => Move(x, Removed(x))
  BY DEF Removed, NoRow
<1>3. op = "submit" => Move(x, Submitted(x))
  BY DEF Submitted
<1>4. op = "publish" => \A now \in Nat : Move(x, Published(x, DateOr(x.published_at, now)))
  BY DEF Published, DateOr
<1>5. op = "reject" => Move(x, Rejected(x))
  BY DEF Rejected
<1>6. op = "unpublish" => Move(x, Unpublished(x))
  BY DEF Unpublished
<1>7. op = "feature" => Move(x, [x EXCEPT !.featured = TRUE])
  OBVIOUS
<1>8. op = "pin" => \A p \in BOOLEAN : Move(x, Pinned(x, p))
  BY DEF Pinned
<1> QED
  BY <1>1, <1>2, <1>3, <1>4, <1>5, <1>6, <1>7, <1>8

-------------------------------------------------------------------------------
(* The steps *)

\* A write by id of the row y.
LEMMA WriteApart ==
  ASSUME EInv, NEW a \in Articles, ApartInv(a), NEW h \in Handlers,
         NEW op \in Operations, Writes(h, op), NEW y, Write(h, y),
         /\ handler[h].id = a /\ Row(h) \in Rows /\ handler[h].by \in Actors
         /\ Row(h).status \in Required(op, handler[h].by)
         /\ op = "publish" => handler[h].published_at = Row(h).published_at
         => Move(Row(h), y)
  PROVE  Move(article[a], article'[a]) /\ ApartInv(a)'
<1>1. /\ handler[h] # Idle /\ handler[h].op = op /\ handler[h].id \in Articles
      /\ handler[h].by \in Actors
      /\ handler' = [handler EXCEPT ![h] = Idle]
  BY DEF Writes, EInv, TypeOK, Requests
<1>2. article' = [article EXCEPT ![handler[h].id] = y]
  BY DEF Write
<1>3. CASE handler[h].id = a
  <2>1. h \in On(a)
    BY <1>1, <1>3 DEF On
  <2>2. Seen(handler[h], article[a]) /\ Row(h) = article[a] /\ article[a] \in Rows
    BY <1>3, <2>1 DEF ApartInv, Row, EInv, TypeOK
  <2>3. Move(article[a], y)
    BY <1>1, <1>3, <2>2 DEF Seen
  <2>4. article'[a] = y
    BY <1>2, <1>3 DEF EInv, TypeOK
  <2> QED
    BY <1>1, <2>1, <2>3, <2>4, OwnStep
<1>4. CASE handler[h].id # a
  <2>1. article'[a] = article[a]
    BY <1>2, <1>4
  <2>2. \A g \in Handlers : handler'[g] = Idle \/ handler'[g] = handler[g]
    BY <1>1 DEF EInv, TypeOK
  <2> QED
    BY <2>1, <2>2, OtherStep
<1> QED
  BY <1>3, <1>4

\* A step of the transaction of feature() before its commit.
LEMMA LookApart ==
  ASSUME EInv, NEW a \in Articles, ApartInv(a), NEW h \in Handlers, NEW pc, NEW C,
         handler[h] # Idle, UNCHANGED article,
         handler' = [handler EXCEPT ![h] = [handler[h] EXCEPT !.pc = pc, !.clears = C]]
  PROVE  Move(article[a], article'[a]) /\ ApartInv(a)'
<1> DEFINE new == [handler[h] EXCEPT !.pc = pc, !.clears = C]
<1>1. handler[h] \in Requests
  BY DEF EInv, TypeOK
<1>2. /\ new.id = handler[h].id /\ new.op = handler[h].op /\ new.by = handler[h].by
      /\ new.published_at = handler[h].published_at
  BY <1>1 DEF Requests
<1>3. \A g \in Handlers : handler'[g] = IF g = h THEN new ELSE handler[g]
  BY DEF EInv, TypeOK
<1> HIDE DEF new
<1> QED
  BY <1>2, <1>3, OtherStep

\* A request is accepted: of this article it is the only one, or it would overlap.
LEMMA CheckApart ==
  ASSUME EInv, NEW a \in Articles, a \notin overlapped', ApartInv(a), NEW h \in Handlers,
         NEW op \in Operations, NEW b \in Articles, NEW by \in Actors, Check(h, op, b, by)
  PROVE  Move(article[a], article'[a]) /\ ApartInv(a)'
<1> DEFINE new == [pc |-> "checked", op |-> op, id |-> b, by |-> by,
             published_at |-> IF op = "publish" THEN article[b].published_at ELSE 0,
             clears |-> {}]
<1>1. /\ handler' = [handler EXCEPT ![h] = new] /\ UNCHANGED article
      /\ article[b].status \in Required(op, by) /\ handler[h] = Idle
      /\ b = a => On(a) = {}
  BY DEF Check
<1>2. /\ new.id = b /\ new.op = op /\ new.by = by
      /\ op = "publish" => new.published_at = article[b].published_at
  OBVIOUS
<1>3. \A g \in Handlers : handler'[g] = IF g = h THEN new ELSE handler[g]
  BY <1>1 DEF EInv, TypeOK
<1> HIDE DEF new
<1>4. Move(article[a], article'[a])
  BY <1>1 DEF Move
<1>5. \A g \in On(a)' :
        \/ handler'[g] = handler[g] /\ g \in On(a)
        \/ b = a /\ g = h
  BY <1>2, <1>3 DEF On
<1>6. (\A g, f \in On(a)' : g = f) /\ \A g \in On(a)' : Seen(handler'[g], article'[a])
  <2>1. CASE b = a
    <3>1. \A g \in On(a)' : g = h /\ handler'[g] = new
      BY <1>1, <1>3, <1>5, <2>1 DEF On
    <3>2. Seen(new, article'[a])
      BY <1>1, <1>2, <2>1 DEF Seen
    <3> QED
      BY <3>1, <3>2
  <2>2. CASE b # a
    BY <1>1, <1>5, <2>2 DEF ApartInv
  <2> QED
    BY <2>1, <2>2
<1>7. HeroLive(article[a])'
  BY <1>1 DEF ApartInv
<1>8. (\A g, f \in On(a) : g = f)' /\ (\A g \in On(a) : Seen(handler[g], article[a]))'
  BY <1>6
<1> QED
  BY <1>4, <1>7, <1>8 DEF ApartInv

LEMMA ApartStep ==
  ASSUME EInv, NEW a \in Articles, a \notin overlapped' \cup patched', ApartInv(a),
         [Next]_vars
  PROVE  Move(article[a], article'[a]) /\ ApartInv(a)'
<1> DEFINE Goal == Move(article[a], article'[a]) /\ ApartInv(a)'
<1>r. \A b \in Articles : article[b] \in Rows
  BY DEF EInv, TypeOK
<1>1. CASE UNCHANGED vars
  BY <1>1, OtherStep DEF vars
<1>2. ASSUME NEW b \in Articles, Create(b) PROVE Goal
  <2>1. UNCHANGED handler /\ article' = [article EXCEPT ![b] = Created(article[b])]
    BY <1>2 DEF Create
  <2>2. CASE b = a
    <3>1. On(a) = {}
      <4>1. ASSUME NEW h \in On(a) PROVE FALSE
        <5>1. handler[h].op \in Operations /\ handler[h].by \in Actors
          BY <4>1 DEF On, EInv, TypeOK, Requests
        <5>2. article[a].status \in Statuses
          BY <4>1, <5>1, RequiredAreStatuses DEF ApartInv, Seen
        <5> QED
          BY <1>2, <2>2, <5>2 DEF Create, Statuses
      <4> QED
        BY <4>1
    <3>2. On(a)' = {}
      BY <2>1, <3>1 DEF On
    <3>3. article'[a] = Created(article[a]) /\ article[a].status = "NEW"
      BY <1>2, <2>1, <2>2 DEF Create, EInv, TypeOK
    <3>4. Move(article[a], article'[a])
      BY <1>r, <3>3 DEF Move, Created, HeroLive, W!Moves, Rows
    <3> QED
      BY <3>2, <3>4 DEF ApartInv, Move
  <2>3. CASE b # a
    BY <2>1, <2>3, OtherStep
  <2> QED
    BY <2>2, <2>3
<1>3. ASSUME NEW h \in Handlers, Handle(h) PROVE Goal
  <2> DEFINE x == Row(h)
  <2>1. ASSUME NEW op \in Operations, NEW b \in Articles, NEW by \in Actors, Check(h, op, b, by)
        PROVE  Goal
    BY <2>1, CheckApart DEF Check
  <2>2. CASE Update(h)
    <3>1. PICK body \in Bodies :
              /\ Write(h, Updated(Row(h), body))
              /\ patched' = IF body.columns = {} THEN patched ELSE patched \cup {handler[h].id}
      BY <2>2 DEF Update
    <3>2. body \in PatchBodies /\ (handler[h].id = a => body.columns = {})
      BY <3>1, BodiesAssumption
    <3>3. Writes(h, "update")
      BY <2>2 DEF Update
    <3> QED
      BY <3>1, <3>2, <3>3, WriteApart, OperationMoves DEF Operations
  <2>3. CASE Remove(h)
    BY <2>3, WriteApart, OperationMoves DEF Remove, Operations
  <2>4. CASE Submit(h)
    BY <2>4, WriteApart, OperationMoves DEF Submit, Operations
  <2>5. CASE Publish(h)
    <3>1. clock' \in Nat
      BY <2>5 DEF Publish, EInv, TypeOK
    <3> QED
      BY <2>5, <3>1, WriteApart, OperationMoves DEF Publish, Operations
  <2>6. CASE Reject(h)
    BY <2>6, WriteApart, OperationMoves DEF Reject, Operations
  <2>7. CASE Unpublish(h)
    BY <2>7, WriteApart, OperationMoves DEF Unpublish, Operations
  <2>8. CASE Pin(h)
    BY <2>8, WriteApart, OperationMoves DEF Pin, Operations
  <2>9. CASE FeatureLook(h)
    <3>1. handler' = [handler EXCEPT ![h] = [handler[h] EXCEPT
                !.pc = "looked", !.clears = {b \in Articles : article[b].featured}]]
      BY <2>9 DEF FeatureLook
    <3>2. handler[h] # Idle /\ UNCHANGED article
      BY <2>9 DEF FeatureLook
    <3> QED
      BY <3>1, <3>2, LookApart
  <2>10. CASE FeatureClear(h)
    <3>1. handler' = [handler EXCEPT ![h] = [handler[h] EXCEPT
                !.pc = "cleared", !.clears = {b \in handler[h].clears : article[b].featured}]]
      BY <2>10 DEF FeatureClear
    <3>2. handler[h] # Idle /\ UNCHANGED article
      BY <2>10 DEF FeatureClear
    <3> QED
      BY <3>1, <3>2, LookApart
  <2>11. CASE FeatureCommit(h)
    <3>1. /\ handler[h] # Idle /\ handler[h].op = "feature"
          /\ handler' = [handler EXCEPT ![h] = Idle]
      BY <2>11 DEF FeatureCommit, Writes
    <3>2. CASE handler[h].id = a
      <4>1. article'[a] = [article[a] EXCEPT !.featured = TRUE]
        BY <2>11, <3>2 DEF FeatureCommit
      <4>2. h \in On(a) /\ handler[h].by \in Actors
        BY <3>1, <3>2 DEF On, EInv, TypeOK, Requests
      <4>3. article[a].status \in Required("feature", handler[h].by)
        BY <3>1, <4>2 DEF ApartInv, Seen
      <4>4. Move(article[a], article'[a])
        BY <1>r, <4>1, <4>2, <4>3, OperationMoves DEF Operations
      <4> QED
        BY <3>1, <4>2, <4>4, OwnStep
    <3>3. CASE handler[h].id # a
      <4>1. /\ article'[a].status = article[a].status
            /\ article'[a].published_at = article[a].published_at
            /\ article'[a].featured => article[a].featured
        BY <1>r, <2>11, <3>3 DEF FeatureCommit, Rows
      <4>2. \A g \in Handlers : handler'[g] = Idle \/ handler'[g] = handler[g]
        BY <3>1 DEF EInv, TypeOK
      <4> QED
        BY <4>1, <4>2, OtherStep
    <3> QED
      BY <3>2, <3>3
  <2>12. CASE Fail(h)
    <3>1. UNCHANGED article /\ \A g \in Handlers : handler'[g] = Idle \/ handler'[g] = handler[g]
      BY <2>12 DEF Fail, EInv, TypeOK
    <3> QED
      BY <3>1, OtherStep
  <2> QED
    BY <1>3, <2>1, <2>2, <2>3, <2>4, <2>5, <2>6, <2>7, <2>8, <2>9, <2>10, <2>11, <2>12 DEF Handle
<1> QED
  BY <1>1, <1>2, <1>3 DEF Next

\* What has overlapped or was overwritten stays so.
LEMMA ApartShrinks ==
  ASSUME [Next]_vars PROVE Apart' \subseteq Apart
<1>1. ASSUME NEW h \in Handlers, Update(h) PROVE patched \subseteq patched'
  <2>1. PICK body \in Bodies :
            patched' = IF body.columns = {} THEN patched ELSE patched \cup {handler[h].id}
    BY <1>1 DEF Update
  <2> QED
    BY <2>1
<1>2. ASSUME NEW h \in Handlers, Handle(h)
      PROVE  overlapped \subseteq overlapped' /\ patched \subseteq patched'
  BY <1>1, <1>2 DEF Handle, Check, Update, Remove, Submit, Publish, Reject, Unpublish,
     FeatureLook, FeatureClear, FeatureCommit, Pin, Fail, Writes
<1>3. overlapped \subseteq overlapped' /\ patched \subseteq patched'
  BY <1>2 DEF Next, vars, Create
<1> QED
  BY <1>3 DEF Apart, W!Untouched

-------------------------------------------------------------------------------
(* The theorems *)

LEMMA InitAInv == Init => AInv
  BY DEF Init, AInv, Apart, W!Untouched, ApartInv, HeroLive, On, NoRow, Idle

\* A step moves an article that stays apart as the workflow does.
LEMMA ApartMoves ==
  ASSUME EInv, AInv, [Next]_vars, NEW a \in Apart'
  PROVE  Move(article[a], article'[a]) /\ ApartInv(a)'
<1>1. a \in Apart /\ a \in Articles /\ a \notin overlapped' \cup patched'
  BY ApartShrinks DEF Apart, W!Untouched
<1>2. ApartInv(a)
  BY <1>1 DEF AInv
<1> QED
  BY <1>1, <1>2, ApartStep

LEMMA StepAInv == EInv /\ AInv /\ [Next]_vars => AInv'
<1> SUFFICES ASSUME EInv, AInv, [Next]_vars, NEW a \in Apart' PROVE ApartInv(a)'
  BY DEF AInv
<1> QED
  BY ApartMoves

\* While the requests for an article have come one after the other, the one in
\* flight was accepted for the row that is there (findOwned and findOrThrow are
\* still true at the update).
THEOREM ApartIsInvariant == Spec => [](EInv /\ AInv)
<1>1. Init => EInv /\ AInv
  BY InitEInv, InitAInv
<1>2. EInv /\ AInv /\ [Next]_vars => (EInv /\ AInv)'
  BY StepEInv, StepAInv
<1> QED
  BY <1>1, <1>2, PTL DEF Spec

\* An article whose requests never overlapped, and whose columns no PATCH named,
\* moves along the workflow only, for any number of requests for other articles, heroes included.
THEOREM ApartLegalMoves == Spec => LegalMoves
<1>1. EInv /\ AInv /\ [Next]_vars =>
        [\A a \in Apart' :
            \/ article'[a].status \in {article[a].status, "DELETED"}
            \/ <<article[a].status, article'[a].status>> \in W!Moves]_vars
  BY ApartMoves DEF Move
<1> QED
  BY <1>1, ApartIsInvariant, PTL DEF Spec, LegalMoves

\* It keeps its first date of publication (publish() writes
\* published_at ?? new Date()).
THEOREM ApartDatesKept == Spec => DatesKept
<1>1. EInv /\ AInv /\ [Next]_vars =>
        [\A a \in Apart' : article[a].published_at > 0 /\ article'[a].status # "DELETED"
            => article'[a].published_at = article[a].published_at]_vars
  BY ApartMoves DEF Move
<1> QED
  BY <1>1, ApartIsInvariant, PTL DEF Spec, DatesKept

\* It is live when it is the hero (feature() refuses what is not PUBLISHED and
\* unpublish() takes the hero away).
THEOREM ApartHeroIsLive == Spec => []FeaturedIsPublished
<1>1. AInv => FeaturedIsPublished
  BY DEF AInv, Apart, W!Untouched, ApartInv, HeroLive, FeaturedIsPublished
<1> QED
  BY <1>1, ApartIsInvariant, PTL
===============================================================================
