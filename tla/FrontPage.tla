-------------------------------- MODULE FrontPage -------------------------------
(***************************************************************************)
(* What readers get (NewsService): the front page, whose hero, newest      *)
(* stories and rails are read by queries that run at the same time, and    *)
(* the stories related to one, which two queries find in turn.  Editors    *)
(* publish, feature and pin meanwhile; Editorial.tla has that in detail.   *)
(* The two requests share nothing: a behaviour has one of them.            *)
(***************************************************************************)
EXTENDS Naturals, SequencesExt

CONSTANTS
    Stories,        \* articles, 1..n by the date of their publication, which they keep
    Rails,          \* HOME_RAILS
    RailOf,         \* the section of each story
    TagsOf,         \* its tags
    RecentSize, ShownSize,      \* 9 and 8 of home()
    RailSize,       \* 4
    Limit, Pool,    \* related(): the limit, and how many candidates its tags bring
    MaxChanges      \* bound: what editors do

\* home() asks for one more than it shows, related() for at least four times its limit.
FrontPageAssumption ==
    /\ Stories \subseteq Nat \ {0} /\ IsFiniteSet(Stories)
    /\ {"featured", "recent"} \cap Rails = {}
    /\ \A s \in Stories : IsFiniteSet(TagsOf[s])
    /\ ShownSize \in Nat /\ RecentSize \in Nat /\ RecentSize > ShownSize /\ RailSize \in Nat
    /\ Limit \in Nat /\ Pool \in Nat /\ Pool >= Limit /\ MaxChanges \in Nat

VARIABLES
    live,           \* stories that are PUBLISHED
    featured,       \* is_featured
    pin,            \* pin_order, 0 for null
    home,           \* home(): how far it is, its open queries, the others' answers, and its own
    related,        \* related(): of which story, how far it is and what it picked
    always, ever,   \* history: stories live all the time that the requests took, and at some time
    steady,         \* history: stories featured all that time
    changes         \* changes so far

vars == <<live, featured, pin, home, related, always, ever, steady, changes>>

Parts == {"featured", "recent"} \cup Rails

TypeOK ==
    /\ live \subseteq Stories /\ featured \subseteq live
    /\ pin \in [Stories -> Nat]
    /\ home.at \in {"unasked", "queries", "done"} /\ home.open \subseteq Parts
    /\ home.got \in [Parts -> Seq(Stories)]
    /\ home.hero \in Stories \cup {0} /\ home.rest \in Seq(Stories)
    /\ related.at \in {"unasked", "no", "tags", "section", "done"} /\ related.picked \in Seq(Stories)

Init ==
    /\ live \in SUBSET Stories
    /\ featured \in {{}} \cup {{s} : s \in live}
    /\ pin = [s \in Stories |-> 0]
    /\ \E asked \in {"home", "related"} :
        /\ home = [at |-> IF asked = "home" THEN "queries" ELSE "unasked", open |-> Parts,
                   got |-> [p \in Parts |-> <<>>], hero |-> 0, rest |-> <<>>]
        /\ related = [at |-> IF asked = "related" THEN "no" ELSE "unasked", of |-> 0, picked |-> <<>>]
    /\ always = live /\ ever = live /\ steady = featured
    /\ changes = 0

-------------------------------------------------------------------------------
(* Editors *)

Change ==
    /\ changes < MaxChanges /\ changes' = changes + 1
    /\ always' = always \cap live' /\ ever' = ever \cup live'
    /\ steady' = steady \cap featured'
    /\ UNCHANGED <<home, related>>

Publish(s) ==
    /\ s \notin live /\ live' = live \cup {s}
    /\ UNCHANGED <<featured, pin>> /\ Change

Unpublish(s) ==
    /\ s \in live /\ live' = live \ {s}
    /\ featured' = featured \ {s} /\ pin' = [pin EXCEPT ![s] = 0] /\ Change

Feature(s) ==
    /\ s \in live \ featured /\ featured' = {s}
    /\ UNCHANGED <<live, pin>> /\ Change

Pin(s, n) ==
    /\ s \in live /\ n # pin[s] /\ pin' = [pin EXCEPT ![s] = n]
    /\ UNCHANGED <<live, featured>> /\ Change

-------------------------------------------------------------------------------
(* home() *)

Take(list, n) == SubSeq(list, 1, IF Len(list) < n THEN Len(list) ELSE n)

\* In the order of Before: place i is that of the story with i - 1 before it.
Ordered(stories, Before(_, _)) ==
    [i \in 1..Cardinality(stories) |->
        CHOOSE s \in stories : Cardinality({t \in stories : Before(t, s)}) = i - 1]

Newest(stories) == Ordered(stories, LAMBDA s, t : s > t)

\* pin_order first, nulls last, then the date.
PinnedFirst(stories) ==
    Ordered(stories, LAMBDA s, t :
        IF pin[s] = pin[t] THEN s > t ELSE pin[s] # 0 /\ (pin[t] = 0 \/ pin[s] < pin[t]))

Query(part) ==
    CASE part = "featured" -> Take(Newest(live \cap featured), 1)
      [] part = "recent"   -> Take(Newest(live), RecentSize)
      [] part \in Rails    -> Take(PinnedFirst({s \in live : RailOf[s] = part}), RailSize)

Read(part) ==
    /\ home.at = "queries" /\ part \in home.open
    /\ home' = [home EXCEPT !.open = @ \ {part}, !.got[part] = Query(part)]
    /\ UNCHANGED <<live, featured, pin, related, always, ever, steady, changes>>

\* Mutant: the hero stays among the newest.
RestWithHero(recent, hero) == recent

\* A query has a story once.
Rest(recent, hero) == RemoveFirst(recent, hero)

\* latest and trending are one list, cut after the third.
Answer ==
    LET recent == home.got["recent"]
        hero == Take(home.got["featured"] \o recent, 1)
    IN
    /\ home.at = "queries" /\ home.open = {}
    /\ home' = [home EXCEPT !.at = "done",
                    !.hero = IF hero = <<>> THEN 0 ELSE hero[1],
                    !.rest = Take(Rest(recent, IF hero = <<>> THEN 0 ELSE hero[1]), ShownSize)]
    /\ UNCHANGED <<live, featured, pin, related, always, ever, steady, changes>>

\* EditorialHome, without the rails; without a hero, HomePage says that there is trouble.
Shown == IF home.hero = 0 THEN <<>> ELSE <<home.hero>> \o home.rest

-------------------------------------------------------------------------------
(* related() *)

\* The most tags in common first; sort() keeps the order of the date between equals.
Shared(s) == Cardinality(TagsOf[s] \cap TagsOf[related.of])

MostShared(stories) ==
    Ordered(stories, LAMBDA s, t : Shared(s) > Shared(t) \/ (Shared(s) = Shared(t) /\ s > t))

ByTags ==
    LET sharing == {s \in live \ {related.of} : Shared(s) > 0} IN
    MostShared(ToSet(Take(Newest(sharing), Pool)))

Related(r) ==
    /\ related' = r
    /\ UNCHANGED <<live, featured, pin, home, always, ever, steady, changes>>

AskRelated(s) ==
    /\ related.at = "no"
    /\ Related([at |-> IF s \in live THEN "tags" ELSE "done", of |-> s, picked |-> <<>>])

FindByTags ==
    /\ related.at = "tags"
    /\ LET picked == Take(ByTags, Limit) IN
       Related([related EXCEPT !.at = IF Len(picked) < Limit THEN "section" ELSE "done",
                               !.picked = picked])

\* Mutant: the query asks for others than the story only.
FindBySectionAgain ==
    /\ related.at = "section"
    /\ LET others == {s \in live \ {related.of} : RailOf[s] = RailOf[related.of]} IN
       Related([related EXCEPT !.at = "done",
                    !.picked = @ \o Take(Newest(others), Limit - Len(@))])

FindBySection ==
    /\ related.at = "section"
    /\ LET others == {s \in live \ ({related.of} \cup ToSet(related.picked)) :
                        RailOf[s] = RailOf[related.of]} IN
       Related([related EXCEPT !.at = "done",
                    !.picked = @ \o Take(Newest(others), Limit - Len(@))])

Next ==
    \/ \E s \in Stories : Publish(s) \/ Unpublish(s) \/ Feature(s) \/ Pin(s, 1) \/ AskRelated(s)
    \/ \E part \in Parts : Read(part)
    \/ Answer \/ FindByTags \/ FindBySection

Spec == Init /\ [][Next]_vars

-------------------------------------------------------------------------------
(* Properties *)

Descending(list) == \A i, j \in DOMAIN list : i < j => list[i] > list[j]

\* The front page shows each story once beside its rails, newest first after the hero, and
\* only stories that were live while it was put together.  Nothing that was live all along
\* is passed over for an older one, the hero of all that time is the hero, and there is
\* "trouble" only if nothing was live all along.
FrontPageIsWhole ==
    home.at = "done" =>
        /\ ToSet(Shown) \subseteq ever /\ IsInjective(Shown) /\ Descending(home.rest)
        /\ steady # {} => home.hero \in steady
        /\ Shown = <<>> => always = {}
        /\ \A s \in always \ ToSet(Shown) :
                Len(home.rest) >= ShownSize /\ \A i \in DOMAIN home.rest : home.rest[i] > s

\* A story is never related to itself, nor twice; what is related was live, shares a tag or
\* the section.  Of what was live all along, those that share a tag come first ("same tags
\* first, same section to fill the rest", [slug]/page.tsx:110), and if there are fewer than
\* asked for, none of the section is missing.
RelatedIsApt ==
    LET same(s) == RailOf[s] = RailOf[related.of] IN
    related.at = "done" =>
        /\ related.of \notin ToSet(related.picked) /\ IsInjective(related.picked)
        /\ ToSet(related.picked) \subseteq ever
        /\ \A s \in ToSet(related.picked) : Shared(s) > 0 \/ same(s)
        /\ \A i, j \in DOMAIN related.picked :
                i < j /\ related.picked[j] \in always /\ Shared(related.picked[j]) > 0
                    => Shared(related.picked[i]) > 0
        /\ Len(related.picked) <= Limit
        /\ Len(related.picked) < Limit /\ related.of \in always =>
                \A s \in always \ {related.of} : same(s) => s \in ToSet(related.picked)
===============================================================================
