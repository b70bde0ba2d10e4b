---------------------------- MODULE WorkflowProofs ----------------------------
(***************************************************************************)
(* ArticleWorkflow keeps at most one hero, a live one, and coherent rows,  *)
(* among any articles that no PATCH has overwritten.  The three are        *)
(* proved together: that an article can be taken down without leaving a    *)
(* hero behind needs the coherent rows.                                    *)
(***************************************************************************)
EXTENDS ArticleWorkflow, ArticleRowProofs, TLAPS

WInv == TypeOK /\ AtMostOneFeatured /\ FeaturedIsPublished /\ RowsCoherent

\* What each operation makes of a coherent row.
Coherent(x) ==
    /\ x.status \in {"PUBLISHED", "ARCHIVED"} => x.published_at > 0
    /\ x.status = "IN_REVIEW" => x.submitted
    /\ x.note => x.status = "DRAFT" /\ x.submitted

\* A step that replaces one row, by one that is coherent and featured only if the
\* old one was and the new one is live.
LEMMA OneRow ==
  ASSUME WInv, NEW a \in Articles, NEW x \in Rows, Write(a, x), clock' \in Nat,
         patched' \subseteq Articles, patched \subseteq patched',
         \/ a \in patched'
         \/ /\ Coherent(x)
            /\ x.featured => article[a].featured /\ x.status = "PUBLISHED"
  PROVE  WInv'
<1>1. article'[a] = x /\ \A b \in Articles : b # a => article'[b] = article[b]
  BY DEF WInv, TypeOK, Write
<1>2. TypeOK'
  BY DEF WInv, TypeOK, Write
<1>3. AtMostOneFeatured'
  BY <1>1 DEF WInv, AtMostOneFeatured, Untouched
<1>4. FeaturedIsPublished'
  BY <1>1 DEF WInv, FeaturedIsPublished, Untouched
<1>5. RowsCoherent'
  BY <1>1 DEF WInv, RowsCoherent, Coherent, Untouched
<1> QED
  BY <1>2, <1>3, <1>4, <1>5 DEF WInv

LEMMA InitWInv == Init => WInv
BY DEF Init, WInv, TypeOK, AtMostOneFeatured, FeaturedIsPublished, RowsCoherent, NoRow,
   Rows, Untouched

LEMMA StepWInv == ASSUME BodiesAssumption PROVE WInv /\ [Next]_wvars => WInv'
<1> SUFFICES ASSUME WInv, [Next]_wvars PROVE WInv'
  OBVIOUS
<1>0. CASE UNCHANGED wvars
  BY <1>0 DEF wvars, WInv, TypeOK, AtMostOneFeatured, FeaturedIsPublished, RowsCoherent,
     Untouched
<1>a. ASSUME NEW a \in Articles
      PROVE  /\ article[a] \in Rows
             /\ \/ a \in patched
                \/ /\ Coherent(article[a])
                   /\ article[a].featured => article[a].status = "PUBLISHED"
  BY DEF WInv, TypeOK, FeaturedIsPublished, RowsCoherent, Coherent, Untouched
<1>c. clock \in Nat /\ patched \subseteq Articles
  BY DEF WInv, TypeOK
<1>1. ASSUME NEW a \in Articles, Create(a) PROVE WInv'
  <2>1. a \in patched \/ (Coherent(Created(article[a])) /\ ~Created(article[a]).featured)
    BY <1>1, <1>a DEF Create, Created, Coherent, Rows
  <2> QED
    BY <1>1, <1>a, <1>c, <2>1, RowTypes, OneRow DEF Create
<1>2. ASSUME NEW a \in Articles, Update(a) PROVE WInv'
  <2>1. PICK body \in Bodies :
              /\ Write(a, Updated(article[a], body))
              /\ patched' = IF body.columns = {} THEN patched ELSE patched \cup {a}
    BY <1>2 DEF Update
  <2>2. body \in PatchBodies /\ Updated(article[a], body) \in Rows /\ clock' \in Nat
    BY <1>2, <1>a, <1>c, RowTypes DEF Update, BodiesAssumption
  <2>3. CASE body.columns = {}
    <3>1. \/ a \in patched
          \/ /\ Coherent(Updated(article[a], body))
             /\ Updated(article[a], body).featured =>
                  article[a].featured /\ Updated(article[a], body).status = "PUBLISHED"
      BY <1>a, <2>2, <2>3, PatchKeeps DEF Coherent
    <3> QED
      BY <1>c, <2>1, <2>2, <2>3, <3>1, OneRow
  <2>4. CASE body.columns # {}
    BY <1>c, <2>1, <2>2, <2>4, OneRow
  <2> QED
    BY <2>3, <2>4
<1>3. ASSUME NEW a \in Articles, Remove(a) PROVE WInv'
  <2>1. Coherent(Removed(article[a])) /\ ~Removed(article[a]).featured
    BY DEF Removed, NoRow, Coherent
  <2> QED
    BY <1>3, <1>a, <1>c, <2>1, RowTypes, OneRow DEF Remove
<1>4. ASSUME NEW a \in Articles, Submit(a) PROVE WInv'
  <2>1. article[a].status = "DRAFT"
    BY <1>4 DEF Submit, May, Required
  <2>2. a \in patched \/ (Coherent(Submitted(article[a])) /\ ~Submitted(article[a]).featured)
    BY <1>a, <2>1 DEF Submitted, Coherent, Rows
  <2> QED
    BY <1>4, <1>a, <1>c, <2>2, RowTypes, OneRow DEF Submit
<1>5. ASSUME NEW a \in Articles, Publish(a) PROVE WInv'
  <2> DEFINE d == DateOr(article[a].published_at, clock')
  <2>1. clock' \in Nat /\ d \in Nat /\ d > 0
    BY <1>5, <1>a, <1>c DEF Publish, DateOr, Rows
  <2>2. article[a].status # "PUBLISHED"
    BY <1>5 DEF Publish, May, Required
  <2> HIDE DEF d
  <2>3. a \in patched \/ (Coherent(Published(article[a], d)) /\ ~Published(article[a], d).featured)
    BY <1>a, <2>1, <2>2 DEF Published, Coherent, Rows
  <2>4. Write(a, Published(article[a], d))
    BY <1>5 DEF Publish, d
  <2> QED
    BY <1>5, <1>a, <1>c, <2>1, <2>3, <2>4, RowTypes, OneRow DEF Publish
<1>6. ASSUME NEW a \in Articles, Reject(a) PROVE WInv'
  <2>1. article[a].status = "IN_REVIEW"
    BY <1>6 DEF Reject, May, Required, Actors
  <2>2. a \in patched \/ (Coherent(Rejected(article[a])) /\ ~Rejected(article[a]).featured)
    BY <1>a, <2>1 DEF Rejected, Coherent, Rows
  <2> QED
    BY <1>6, <1>a, <1>c, <2>2, RowTypes, OneRow DEF Reject
<1>7. ASSUME NEW a \in Articles, Unpublish(a) PROVE WInv'
  <2>1. article[a].status = "PUBLISHED"
    BY <1>7 DEF Unpublish, May, Required, Actors
  <2>2. a \in patched \/ (Coherent(Unpublished(article[a])) /\ ~Unpublished(article[a]).featured)
    BY <1>a, <2>1 DEF Unpublished, Coherent, Rows
  <2> QED
    BY <1>7, <1>a, <1>c, <2>2, RowTypes, OneRow DEF Unpublish
<1>8. ASSUME NEW a \in Articles, Feature(a) PROVE WInv'
  <2>1. article[a].status = "PUBLISHED"
    BY <1>8 DEF Feature, May, Required, Actors
  <2>2. ASSUME NEW b \in Articles
        PROVE  /\ article'[b] \in Rows /\ article'[b].featured = (b = a)
               /\ article'[b].status = article[b].status
               /\ article'[b].published_at = article[b].published_at
               /\ article'[b].submitted = article[b].submitted
               /\ article'[b].note = article[b].note
    <3>1. article'[b] = [article[b] EXCEPT !.featured = (b = a)]
      BY <1>8 DEF Feature
    <3>2. (b = a) \in BOOLEAN
      OBVIOUS
    <3> QED
      BY <1>a, <3>1, <3>2 DEF Rows
  <2>3. TypeOK'
    <3>1. article' = [b \in Articles |-> article'[b]]
      BY <1>8 DEF Feature
    <3> QED
      BY <1>8, <1>c, <2>2, <3>1 DEF Feature, TypeOK
  <2>4. AtMostOneFeatured' /\ FeaturedIsPublished'
    BY <2>1, <2>2 DEF AtMostOneFeatured, FeaturedIsPublished, Untouched
  <2>5. RowsCoherent'
    BY <1>8, <2>2 DEF Feature, WInv, RowsCoherent, Untouched
  <2> QED
    BY <2>3, <2>4, <2>5 DEF WInv
<1>9. ASSUME NEW a \in Articles, Pin(a) PROVE WInv'
  <2>1. PICK p \in BOOLEAN : Write(a, Pinned(article[a], p))
    BY <1>9 DEF Pin
  <2>2. /\ a \in patched \/ Coherent(Pinned(article[a], p))
        /\ Pinned(article[a], p).featured = article[a].featured
        /\ Pinned(article[a], p).status = article[a].status
    BY <1>a DEF Pinned, Coherent, Rows
  <2> QED
    BY <1>9, <1>a, <1>c, <2>1, <2>2, RowTypes, OneRow DEF Pin
<1> QED
  BY <1>0, <1>1, <1>2, <1>3, <1>4, <1>5, <1>6, <1>7, <1>8, <1>9 DEF Next

\* Among the articles that no PATCH has overwritten: at most one hero, a live one,
\* and coherent rows, in every reachable state.
THEOREM WorkflowSafe ==
  ASSUME BodiesAssumption
  PROVE  Spec => [](AtMostOneFeatured /\ FeaturedIsPublished /\ RowsCoherent)
<1>1. WInv => AtMostOneFeatured /\ FeaturedIsPublished /\ RowsCoherent
  BY DEF WInv
<1> QED
  BY <1>1, InitWInv, StepWInv, PTL DEF Spec

\* No step changes the date of a published article but a PATCH that names it.
THEOREM DatesAreKept == ASSUME BodiesAssumption PROVE Spec => DatesKept
<1> DEFINE Kept == \A a \in Untouched' :
              article[a].published_at > 0 /\ article'[a].status # "DELETED"
                 => article'[a].published_at = article[a].published_at
<1>1. ASSUME WInv, [Next]_wvars PROVE [Kept]_wvars
  <2>1. ASSUME NEW a \in Articles, NEW x, Write(a, x),
               \/ a \in patched'
               \/ x.status = "DELETED"
               \/ x.published_at = article[a].published_at
               \/ article[a].published_at = 0
        PROVE  Kept
    BY <1>1, <2>1 DEF Write, WInv, TypeOK, Untouched
  <2>2. ASSUME NEW a \in Articles
        PROVE  /\ article[a] \in Rows
               /\ Created(article[a]).published_at = article[a].published_at
               /\ Removed(article[a]).status = "DELETED"
               /\ Submitted(article[a]).published_at = article[a].published_at
               /\ Rejected(article[a]).published_at = article[a].published_at
               /\ Unpublished(article[a]).published_at = article[a].published_at
               /\ \A p \in BOOLEAN : Pinned(article[a], p).published_at = article[a].published_at
               /\ \A d \in Nat : Published(article[a], d).published_at = d
    <3>1. article[a] \in Rows
      BY <1>1 DEF WInv, TypeOK
    <3> QED
      BY <3>1 DEF Rows, Created, Removed, NoRow, Submitted, Rejected, Unpublished,
         Pinned, Published
  <2>3. ASSUME NEW a \in Articles, Publish(a) PROVE Kept
    <3> DEFINE d == DateOr(article[a].published_at, clock')
    <3>1. d \in Nat /\ (article[a].published_at = 0 \/ d = article[a].published_at)
      BY <1>1, <2>2, <2>3 DEF Publish, DateOr, Rows, WInv, TypeOK
    <3>2. Write(a, Published(article[a], d))
      BY <2>3 DEF Publish
    <3> HIDE DEF d
    <3> QED
      BY <2>1, <2>2, <3>1, <3>2
  <2>4. ASSUME NEW a \in Articles, Feature(a) PROVE Kept
    <3>1. \A b \in Articles : article'[b].published_at = article[b].published_at
      BY <2>2, <2>4 DEF Feature, Rows
    <3> QED
      BY <3>1 DEF Untouched
  <2>5. ASSUME NEW a \in Articles,
               \/ Create(a) \/ Remove(a) \/ Submit(a) \/ Reject(a)
               \/ Unpublish(a) \/ Pin(a)
        PROVE  Kept
    <3> HIDE DEF Kept
    <3> QED
      BY <2>1, <2>2, <2>5 DEF Create, Remove, Submit, Reject, Unpublish, Pin
  <2>6. ASSUME NEW a \in Articles, Update(a) PROVE Kept
    <3>1. PICK body \in Bodies :
              /\ Write(a, Updated(article[a], body))
              /\ patched' = IF body.columns = {} THEN patched ELSE patched \cup {a}
      BY <2>6 DEF Update
    <3>2. \/ a \in patched'
          \/ Updated(article[a], body).published_at = article[a].published_at
      BY <2>2, <3>1, PatchKeeps DEF BodiesAssumption
    <3> HIDE DEF Kept
    <3> QED
      BY <2>1, <3>1, <3>2
  <2> QED
    BY <1>1, <2>3, <2>4, <2>5, <2>6 DEF Next
<1>2. WInv /\ [Next]_wvars => [Kept]_wvars
  BY <1>1
<1> QED
  BY <1>2, InitWInv, StepWInv, PTL DEF Spec, DatesKept
===============================================================================
