-------------------------------- MODULE MCPages --------------------------------
(* Pages of the site, each with as much of the server as it depends on: the      *)
(* article form, the lists of the studio, the campaign composer, the player, and *)
(* the pages to sign in.                                                         *)
(* A behaviour is one of a single page, so that one run does for all of them;    *)
(* the others' variables keep their first values.                                *)
EXTENDS ArticleForm

CONSTANTS Items, Named, Limit, ListBudgets,         \* of Lists.tla
          ComposerBudgets,                          \* of Composer.tla
          Rates, MaxClicks,                         \* of Player.tla
          SignInBudgets                             \* of SignIn.tla

\* Pages, texts, uploads, clicks, what colleagues do, and losses.
Plan(v, t, u, c, e, l) ==
    [visits |-> v, texts |-> t, uploads |-> u, clicks |-> c, elsewhere |-> e, lost |-> l]

\* Clicks with a colleague about, on one page or two; texts on two pages or three; a lost
\* answer; two uploads.
FirstPlan == Plan(1, 1, 0, 4, 1, 0)
Plans == {FirstPlan, Plan(2, 1, 0, 2, 1, 0), Plan(2, 2, 0, 3, 0, 0), Plan(3, 1, 0, 2, 0, 0),
          Plan(2, 2, 0, 2, 0, 1), Plan(2, 1, 1, 2, 0, 1), Plan(1, 1, 2, 2, 0, 1)}

\* Choices, changes, others' changes, time and losses.
ListPlan(c, h, o, a, l) == [choices |-> c, changes |-> h, others |-> o, aging |-> a, lost |-> l]
ListPlans == {ListPlan(2, 1, 0, 1, 0), ListPlan(1, 1, 1, 1, 1)}

\* Many clicks, or fewer and a loss.
ComposerPlan(c, l) == [texts |-> 2, clicks |-> c, visits |-> 1, lost |-> l]
ComposerPlans == {ComposerPlan(4, 0), ComposerPlan(3, 1)}

\* Requests, links, addresses, time, others' doings and losses: a little of each, in turn.
SignInPlan(s, l, v, a, e, x) ==
    [submits |-> s, links |-> l, visits |-> v, aging |-> a, elsewhere |-> e, lost |-> x]
SignInPlans == {SignInPlan(2, 2, 1, 0, 0, 0), SignInPlan(2, 1, 1, 0, 1, 0),
                SignInPlan(2, 1, 1, 0, 0, 1), SignInPlan(1, 1, 1, 1, 1, 0)}

VARIABLES part,
    kind, rows, typed, timer, sel, cache, fresh, failed, flights, last, asked, listSent, carried,
    done, overtaken, moved, listBudget,
    campaign, loops, composer, composerSent, campaignCopy, fetch, drafts, mailed, tested, early,
    left, composerBudget,
    mounted, playing, paused, rate, heartbeat, intervals, engine, events, clicks, raced,
    account, session, person, asking, where, going, due, says, calls, bound, ahead, learnt, stale,
    signInBudget

L == INSTANCE Lists WITH Budgets <- ListBudgets, sent <- listSent, budget <- listBudget

C == INSTANCE Composer WITH Budgets <- ComposerBudgets, row <- campaign, page <- composer,
        sent <- composerSent, cache <- campaignCopy, texts <- drafts, budget <- composerBudget

P == INSTANCE Player

G == INSTANCE SignIn WITH Budgets <- SignInBudgets, me <- person, budget <- signInBudget

ASSUME PagesAssumption == L!ListsAssumption /\ C!ComposerAssumption /\ G!SignInAssumption

listVars == <<kind, rows, typed, timer, sel, cache, fresh, failed, flights, last, asked, listSent,
              carried, done, overtaken, moved, listBudget>>
composerVars == <<campaign, loops, composer, composerSent, campaignCopy, fetch, drafts, mailed,
                  tested, early, left, composerBudget>>
playerVars == <<mounted, playing, paused, rate, heartbeat, intervals, engine, events, clicks, raced>>
signInVars == <<account, session, person, asking, where, going, due, says, calls, bound, ahead,
                learnt, stale, signInBudget>>

\* The first state of a page that does nothing.
Some(S) == CHOOSE s \in S : TRUE
NoForm == Init /\ me = "author" /\ budget = Some(Budgets)
NoList == L!Init /\ kind = "media" /\ rows = [i \in Items |-> "none"] /\ listBudget = Some(ListBudgets)
NoComposer == C!Init /\ composerBudget = Some(ComposerBudgets)
NoPlayer == P!Init /\ rate = Some(Rates) /\ ~engine.paused
NoSignIn == G!Init /\ ~account.made /\ signInBudget = Some(SignInBudgets)

PagesInit ==
    /\ part \in {"form", "list", "composer", "player", "sign-in"}
    /\ IF part = "form" THEN Init ELSE NoForm
    /\ IF part = "list" THEN L!Init ELSE NoList
    /\ IF part = "composer" THEN C!Init ELSE NoComposer
    /\ IF part = "player" THEN P!Init ELSE NoPlayer
    /\ IF part = "sign-in" THEN G!Init ELSE NoSignIn

PagesNext ==
    \/ part = "form" /\ Next /\ UNCHANGED <<part, listVars, composerVars, playerVars, signInVars>>
    \/ part = "list" /\ L!Next /\ UNCHANGED <<part, vars, composerVars, playerVars, signInVars>>
    \/ part = "composer" /\ C!Next /\ UNCHANGED <<part, vars, listVars, playerVars, signInVars>>
    \/ part = "player" /\ P!Next /\ UNCHANGED <<part, vars, listVars, composerVars, signInVars>>
    \/ part = "sign-in" /\ G!Next /\ UNCHANGED <<part, vars, listVars, composerVars, playerVars>>

PagesSpec ==
    PagesInit /\ [][PagesNext]_<<part, vars, listVars, composerVars, playerVars, signInVars>>

-------------------------------------------------------------------------------
(* The pages' properties, by their names *)

\* Every variable has its type.
TypesOK == TypeOK /\ L!TypeOK /\ C!TypeOK /\ P!TypeOK /\ G!TypeOK

\* Of Lists.tla: what is shown is the list that was chosen.
ShowsTheList == L!ShowsTheList

\* Of Composer.tla: nothing older goes out than what the page knew of.
NothingOlder == C!NothingOlder

\* Of Composer.tla: a page at rest has seen that its campaign was sent.
BehindOnlyIfEarly == C!BehindOnlyIfEarly

\* Of Player.tla: the player shows what the engine does.
PlayerIsHonest == P!PlayerIsHonest

\* Of SignIn.tla: the person ends up where they wanted to be, known for who they are.
EndsUpRight == G!EndsUpRight
===============================================================================
