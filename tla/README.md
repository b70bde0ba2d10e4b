# fulltiime: TLA+ models

Formal models of the fulltiime backend (NestJS, Prisma, Postgres) and of the
parts of its Next.js frontend that take part in a protocol with it. All paths
are relative to the repository. `PROJECT.json` lists, in machine-readable form,
the components, the runs, the mutants, which source lines each definition
stands for, the findings, the hazards and the theorems.

Check a run with `tlc -workers 2 -config <run>.cfg <module>.tla`, a proof module
with `tlapm <module>.tla`.

## What is hard about this program

The backend is one Node process. It runs one callback at a time, but every
`await` of a handler lets all the others run. Nearly every handler has the same
shape: read a row, decide, await, write the row *by id alone*. Nothing is
locked, one method uses a transaction of more than one write (`feature()`), and
one piece of work goes on after its request was answered (the campaign sender).
The database is read-committed. A deploy replaces the process whenever it
likes. So the questions worth asking are:

* what a write does to a row that has changed since it was read;
* what two handlers of different kinds do to each other's decisions;
* what is left when the process dies in the middle;
* what a browser believes while the row says something else: almost every page of
  the frontend acts on a cached copy, and sends a second request after the first.

The tests of the repository (`backend/src/app.controller.spec.ts`,
`backend/test/app.e2e-spec.ts`) are the framework's templates and reach none of it.

## Inventory

| Component | State | Operations | Interacts with | Hard part | Correct when | Module |
|---|---|---|---|---|---|---|
| Newsletter list and campaigns (`newsletter.service.ts`) | subscriber and campaign rows | subscribe, unsubscribe, delete; campaign create, update, delete, send | sender, email | checks and writes are apart; opt-outs during a send of minutes | nobody is mailed against their will; a campaign's status is true | `Newsletter` |
| Campaign sender (`campaign-sender.service.ts`) | loop variables of each send; the campaign row | snapshot, mark, batches, progress, finish | email, campaign rows | runs detached; dies with the process | everybody in the snapshot once; SENDING ends | `Newsletter`, `Broadcast` |
| Studio article workflow (`studio.service.ts`) | article rows | create, update, remove, submit, publish, reject, unpublish, feature, pin | news reads | stale decisions, transaction of `feature()` | the workflow; one hero, live; dates kept | `ArticleRow`, `ArticleWorkflow`, `Editorial` |
| Sessions (`auth.service.ts`, `auth.controller.ts`) | `refresh_token` column, cookies | login, refresh, logout, reset | ApiClient | rotation; writes after awaits | the row's session is one a browser holds | `Sessions` |
| ApiClient (`lib/api/client.ts`) | the refresh in flight, requests that wait for it | request, tryRefresh | sessions | single flight, retry once, timeouts, page loads | nobody waits in vain; requests end | `Sessions` |
| Accounts (`auth.service.ts`) | user rows, one-time tokens | register, verify, resend, forgot, change, reset, Google, invitation | email, sessions, staff | single-use links, unique names, mails that are lost | a verified address is its owner's; a link works once; the password is the one last told | `Accounts` |
| Staff and roles (`studio.service.ts`, `app/studio/users`) | role of users, the invitation panel | createStaff, updateRole | guards, email, accounts | a role read once per request; a password shown once | an administrator remains; somebody knows the password | `Staff` |
| Media (`studio.service.ts`, `cloudinary.service.ts`) | media rows, remote assets | upload, delete | Cloudinary | two systems, compensation | rows and images match but for what failed | `Media` |
| News reads (`news.service.ts`) | none | home, related, lists | article rows | several queries, one page | a whole front page; apt stories | `FrontPage` |
| Chat (`chat.gateway.ts`, `live-chat.tsx`) | rooms, socket data, messages | connect, join, leave, message, presence | accounts | handlers of one socket overlap; history against live messages | every message once, in its thread | `Chat` |
| Article form (`article-form.tsx`) | form, cached copy, uploads | save, submit, publish, reject, feature, delete, cover | workflow, media | two requests per click, stale copies, lost answers | what was typed is what goes out | `ArticleForm` |
| Studio lists (`app/studio/*/page.tsx`) | tab, search, page; query cache | choose, search, turn, delete | staff, media, newsletter | answers overtake choices | what is shown is what was chosen | `Lists` |
| Campaign composer (`campaign-composer.tsx`) | form, cached copy, poll | save, test, send | newsletter | reads meet a loop that has not begun | nothing older goes out; a sent campaign is seen | `Composer` |
| Article audio (`article-audio.tsx`) | playing, paused, rate, heartbeat | play, pause, resume, stop, rate | speech engine | events of cancelled utterances come late | the player shows what the engine does | `Player` |
| Sign-in pages and guards (`app/(auth)`, `studio/layout.tsx`, `auth.hooks.ts`) | the cached answer of `/auth/me`, the page | register, sign in, verify, set passwords, sign out | accounts, sessions | pages and guards both navigate; 401s load the login page | people end up where they wanted to be | `SignIn` |
| Cache, LLM | rows; none | getOrSet; complete | nobody at this commit | | | |
| Users, email, common, Prisma, other pages, ads, SEO | none of their own | | | | | |

`ARCHITECTURE.md` also describes a sports-data synchronisation (jobs, queues, a
SportMonks client). The source has none of it; its scripts import modules that
do not exist. It is not modelled.

## Modules

```
Broadcast  <---- Newsletter <--- MCNewsletter      NewsletterProofs
                 (refines)
ArticleRow <-+-- ArticleWorkflow                   ArticleRowProofs, WorkflowProofs
             +-- Editorial  <--- MCEditorial       EditorialProofs
             |   (refines ArticleWorkflow when serial)
             +-- ArticleForm <-+
Sessions   <--- MCSessions     |                   SessionsProofs
Chat       <--- MCChat         |                   ChatProofs
Lists, Composer, Player, SignIn+-- MCPages         PagesProofs
Accounts, Staff, Media, FrontPage, Editorial <-- MCServer     ServerProofs
```

`MCServer` and `MCPages` are sums: a behaviour is one of a single component, chosen by
`part` in the first state, and the variables of the others keep their first values.
The components in a sum share no rows in what their properties say, so their product
would add interleavings and no behaviour. `MCServer` extends `Accounts` and `MCPages`
extends `ArticleForm`; the other components are instances.

Conventions. One action per atomic step: from one `await` to the next. A
handler that has decided and not yet written is a record in a variable. An
`UPDATE ... WHERE id` is an action that meets the row as it has become; the
error it throws when the row is gone is an end without a write. Definitions
keep the names of the code. *Mutants* are stated next to the action they
change, each the way a plausible bug would; the project uses them to see
that every property can fail.

### Newsletter and Broadcast

`Newsletter` composes `NewsletterService` and `CampaignSenderService`.

* `subscriber`, `campaign`: the two tables. `row` numbers the rows an address
  has had, which is what distinguishes its `unsubscribe_token`s; `content`
  numbers saved versions of subject and body.
* `subscribing`, `unsubscribing`, `editing`, `deleting`: handlers between read
  and write, as *sets* of decisions. Two handlers that decided the same are one
  element, and `Without` lets the element stay after a write, so that any number
  of equal handlers is covered.
* `run`: one entry per accepted send: its phase, the snapshot, what is not yet
  in a batch, the batch whose answers are pending, `sent`, and the copies
  handed to the mail provider.
* `send()` writes nothing before it answers (`newsletter.service.ts:140-153`):
  `Send` only starts a loop. `RunLoad`, `RunCount`, `RunMark`, `RunBatch`,
  `RunSettle`, `RunSave`, `RunFinish` are the loop's awaits.
* `RunError` is a database call of the loop that throws; `Restart` is a new
  process: loops and handlers are gone, nothing resumes them.
* `optedOut` is a history variable: the addresses off the list when a send was
  accepted, minus those who subscribe afterwards.

A post is counted when it is handed over, whether its answer is a success, an
error or the 15 s timeout; so does the code, where each post of a batch catches its own
error. What the
mail provider does with it is outside. `sendTest` and the reads change no row.

`Broadcast` is the promise of one send: the audience is fixed when mailing
starts; a step mails only members who were not mailed by this send; it closes
only when all were. `Newsletter` implements it (`ImplementsBroadcast`), mapping
"counted or sending" to open, the snapshot to the audience, and every other
step of the system to a stutter.

### ArticleRow, ArticleWorkflow and Editorial

`ArticleRow` has no state: the row, who may ask for what in which status
(`Required`: `assertStatus`, `findOwned` and the role guards) and what each
operation writes. `ArticleWorkflow` applies these to the row as it is: the
workflow the studio means. `Editorial` is the code: `Check` reads and decides,
the write of each operation comes later. `publish()` carries the
`published_at` it has read, which decides the date it writes.

`feature()` is a transaction under READ COMMITTED. Its `updateMany` finds the
featured rows (`FeatureLook`), waits for those that another open transaction has
changed, passes over those no longer featured and locks the rest
(`FeatureClear`); the second statement and the commit are `FeatureCommit`. Single
updates wait for these locks (`Locked`). `overlapped` is a history variable: the
articles that have had two requests in flight at once.

Time is the number of publications so far: only the order of dates matters.

A PATCH carries what it likes. Its body is typed `Partial<CreateArticleDto>`
(`studio.controller.ts:63`), which at run time is no class, so the `ValidationPipe`
(`main.ts:30-36`) lets it through as it came, and `update()` writes `data: dto`
(`studio.service.ts:94-97`). `Updated` therefore takes a *body*: the columns of the
workflow that it names and what it says of them, confined only by the schema's enum.
`Bodies` is the set of bodies that a run allows: text alone, which is all that the
studio's editor sends, and a body that makes of any article a live hero without a date. `ArticleWorkflow` has
the same operation, for it is what the code does. `patched` is the history variable that
marks the articles of which a PATCH named such a column, and the promises of the workflow
are about the others. Columns outside the workflow (the slug, the author) are not in
the model.

### Sessions

The sessions of one account: the column `refresh_token`, the cookies of each
browser, and in every tab an `ApiClient`. A request is `<<tab, number>>`, a tab
`<<browser, number>>`: requests of a tab share a refresh, tabs of a browser
share cookies.

* `request`: `ApiClient.request` per request. `Deny` is the 401 branch: wait for
  the shared refresh, once; the second 401 fails. A 401 comes for want of a live access
  token, or from the handler itself (`changePassword` answers a wrong current password
  with one), so a request that was sent again after a refresh may be denied again.
* `call`: the handler behind a login or a refresh: `RefreshCheck` (read and
  compare), `Sign`, `Store` (after the hash), `CallAnswered`.
* `refreshInFlight`: the field of the same name, per tab.
* A token is the *second* it was signed in: `jwtService.sign` adds `iat` in
  seconds and nothing random, so two tokens of one account in one second are
  one string. `Sign` may stay in the last second or go to the next.
* `AccessExpires` removes the cookie; it lasts exactly as long as its JWT.
  The 30 days of a refresh token are not modelled.
* `LoseRequest`, `LoseCall` (lost answer, timeout, a handler that throws) and
  `Reload` (including the redirect to `/login`) spend the bound `MaxLost`. A page
  that is gone does not stop its handlers.
* `Login` stands also for `register` and `loginWithGoogle`, which end in the same
  `signAndStoreTokens`; it is possible when the tab has no request under way,
  because the forms are behind `GuestGuard`.
* `ResetPassword` is always possible: somebody, on any device, has a link. The
  link itself belongs to the accounts.
* `overlapped` is a history variable: two tabs (or a login or logout with
  anything else) were about to change the row or the cookies at once. Requests
  of one tab that find their access token expired do not set it, in whatever
  order.

### Chat

The threads: `ChatGateway` and the `LiveChat` of every reader, with the socket
between them. A socket is `<<reader, n>>`, the reader's n-th connection; until the
server notices that a connection is gone, a reader has two.

* `page`: the story a reader has open, the messages shown, the count told. `visit`
  tells one mount of `LiveChat` from the next: the route segment of an article is its
  slug, so another story is another mount, and the callback of an old one sets nothing.
* `up`, `down`: packets in order, both ways. `buffer`: what socket.io-client keeps
  while disconnected; it is sent before the page joins again.
* `rooms` is the adapter's, `room` is `client.data.room`: two records of one fact,
  which `onJoin` and `onLeave` change at different awaits.
* `client.join` and `client.leave` are synchronous with the in-memory adapter: what
  awaits them goes on in the same *tick*, and only packets of the same socket that
  came with the same read start in between (`InTick`, `Next`). The
  history read and the creation of a message await the database: `JoinRead` is when
  the query sees the table, `JoinAnswered` when its answer is used; `Create` and
  `Publish` likewise.
* The answer to a join and broadcasts go only to sockets whose reader is still there.
* `OnMessage` may refuse any message: a guest's, one of a user who was not found
  yet, too long, too soon. Who signed in and when the last message came is not kept.
* `crossed` and `raced` are history variables that mark where the code departs from
  what it means. *crossed*: a join or leave started while another of the same
  socket was between its awaits. Then a leave is ignored (`data.room` is not set
  yet), and the socket can end in two rooms and post in the wrong one. *raced*: a
  message created before a join's query and sent out after its answer (shown twice),
  or created after and sent out before (wiped by the answer). Each is
  marked by its exact condition; without any of them TLC violates the property.

### Accounts and Staff

`Accounts` is the users table by address. A request that goes on after its first read is
a *call*: `Register`, `CreateStaff`, `ResendVerification`, `ForgotPassword`, `VerifyEmail`,
`ResetPassword`, `ChangePassword` and `LoginWithGoogle` receive one, and `Pick`, `Create`,
`Link`, `Issue`, `Reissue`, `Confirm`, `SetPassword`, `Mail` are its awaits. A call has a number,
and the number names the token it makes or the password it sets. `CreateRefused` is the
unique column that decides between two calls which found nothing. A mail fails, is lost,
or is skipped without a word when the service has no key (`configured`); a call can be cut
short. Links stay in the mailbox, and get old. Google says of an address whether it has
verified it; a new account believes that (`auth.service.ts:241`), an account that was there
is linked and counts as verified whatever was said (`:244-249`). `Proofs` keeps the three
grounds apart: a link, Google's word, or only having been linked.

`Staff` has the roles, what `JwtStrategy` and `RolesGuard` read at the start of a request
and what the request does later, and `InvitePanel` with the password it shows. A backend
without a mail key (`configured`) skips the mail and tells the panel that it was sent.

### Media and FrontPage

`Media` has the images that Cloudinary keeps and the rows that name them. Each call, to
either system, may fail before or after its effect; the process may end. `hit` remembers what
failed about which image.

`FrontPage` numbers stories by their date. The queries of `home()` are answered in any order,
with changes in between; `related()` asks for the tags, and then for the section. A behaviour
has one of the two requests. `Ordered` is a list in the order of a query: a story's place is given by
how many come before it.

### ArticleForm, Lists and Composer

`ArticleForm` is the page over the server's side of `ArticleRow`, one request at a time, and
over the copy of the article that the tab fetched last. A click may be two requests
(`then`); an answer may be lost, and its request carried out all the same; the page may
be left, and its requests go on. Texts are numbered. `uploadedCover` and what is purged
when are `ArticleForm`'s own. A creation may be refused for its fields: the form asks for a title
and fifty characters, `CreateArticleDto` for more. An optional field that is empty is not sent
(`cleanPayload`), so the row keeps what it had: the cover stands for these, and `kept` is what it was.
The editor of the body can be typed in while the form is busy or locked. Updates, of this page and of
colleagues, carry text and cover only, since no page of the studio sends more.

`Lists` stands for the five pages of the studio that search and turn pages: they are one
program with different columns. `kind` keeps what differs (which have a search, a delay, a
deletion). The cache is by key, with its age and its placeholder; fetches of a key that is no longer
shown go on. A request is carried out (`Carry`) before the page hears of it (`Hear`), and reads fall
between the two. `Invalidate` does what the query library does: a fetch of the shown key is begun
anew if there is an answer that it would replace, and joined if there is none yet.
`overtaken` marks the keys for which an answer made before the page heard was joined, or left to come.
Articles come by their last change, which the model leaves open: any order (`PagesOf`).

`Composer` has the campaign page with its copy and poll, and of the server one row and the
loop as far as the page can tell. `Newsletter` has that in detail.

### Player

Clicks, the heartbeat intervals by number, and an engine with one utterance. `cancel()` answers
the old one with an event that comes after the new one was queued. The engine outlives the
page; it may start paused.

### SignIn

One tab of one person. `where` is the page, `going` what the last navigation inside the site
is for: a later one overrides it. `Guard` is what `GuestGuard`, `StudioLayout` and the password
page do once `me` is known, `Following` what the page itself pushes after an answer. The guard takes the
Google button away once the tab knows the person, and with it what the button would push; if the answer was there
first, its page may come before the guard's effect (`ahead`). `Load` is a
page load: `window.location`, an address, a link in a mail. `me` is the query of `/auth/me` with
its five minutes. `calls` are the requests of the pages, each *granted* or *refused* before its
answer is used; a 401 that no refresh helps loads the login page, wherever the person is.
Assumed: the effects of a render come before the next click; requests of a page that was
unloaded are carried out before that or never; one request of each kind at a time.

## Runs

| Run | Question | Instance | Result |
|---|---|---|---|
| `newsletter_list` | Does a send to a moving list respect it and count right? | 3 addresses, batches of 2, one send, 2 handlers in flight, 2 rows per address | passes |
| `newsletter_sends` | Is a campaign's status true, and does sending end, with two sends of one campaign and a fault? | 1 address, 2 sends, 1 edit, 1 fault, weak fairness | passes |
| `newsletter_resent` | "Only draft campaigns can be sent" | 1 address, 2 sends | **violated** |
| `editorial` | What survives any overlap, and do requests for different articles leave each other alone? | 2 articles, 2 requests, 2 publications, a PATCH: text, or with a status and a hero | passes |
| `editorial_heroes` | "exactly one at a time" | 2 articles, one request for each | **violated** |
| `sessions` | Is the row's session one a browser holds? | 2 tabs, 3 requests, tokens of 3 seconds, nothing lost | passes |
| `sessions_live` | Do requests end, and does nobody wait in vain? | 1 tab, 2 requests, one loss or page load, weak fairness | passes |
| `sessions_reset` | "invalidate any existing sessions" | 1 tab, 2 requests | **violated** |
| `chat` | Is a reader in one thread, told the truth about it, shown all of it, and heard in it? | 2 readers, 2 stories, 3 messages, up to 3 pages and one fault; a history of 1, a page of 2 | passes |
| `server` | Do accounts, staff, images, readers' pages and articles one request at a time keep what they promise? | see Bounds | passes |
| `pages` | Do the pages offer what is allowed, show what is true and send what was typed? | see Bounds | passes |
| `form_cover` | "The cover will be cleared from this article" | as `pages` | **violated** |

### Properties, and why they are not obvious

* `RespectsOptOut`: who is off the list when a send is accepted and does not
  come back gets nothing. Subscribe handlers that decided on an old read may
  write at any time.
* `ProgressIsHonest`: the progress bar is never ahead of the mail, and with one send
  ends exactly at the recipient count, also when the list changes or the last batch
  is short.
* `SentMeansCompleted`: SENT is never shown for a campaign that no loop has
  completed, even when a second loop rewrites the row, edits land in the middle
  or a loop dies.
* `StuckOnlyAfterFault`, `SendingEnds`: requests alone cannot strand a campaign.
* `RowsMakeSense`: what stays true of a row that no PATCH overwrote, under any overlap: live or archived
  means dated, in review means submitted, hero means it was published once.
  The stronger `RowsCoherent` and `AtMostOneFeatured` need requests one at a
  time: they are proved of `ArticleWorkflow`, which `server` shows the handlers to
  implement then (`ImplementsWorkflow`).
* `LegalMoves`, `DatesKept`, `FeaturedIsPublished`: an article whose own requests
  never overlapped, and whose columns no PATCH named, follows the workflow, keeps its date and is live as a hero,
  while requests for other articles do what they like, `feature()` included,
  which writes rows of others.
* `SessionIsHeld`: the stored token is one in a browser's jar when nothing is
  under way, nothing was lost and tabs did not overlap. It is what the
  single-flight refresh is for: its mutant, a refresh per request, breaks it.
* `WaitersHaveARefresh`, `RequestsSettle`: every request that waits for a refresh
  is settled by it, whatever a page load, logout or another tab does.

* `InItsThread`: when all packets are handled, the room of a reader's socket is the story on
  the page, and no other; the leave of a page left and the join of the next are
  separate handlers, with a reconnection anywhere.
* `PresenceIsHonest`: once everything has arrived, every page shows the number of
  readers of its story: joins, leaves, lost and unnoticed sockets each
  broadcast at a different moment, and the last word must be right.
* `ThreadIsWhole`: a settled page shows the newest messages of its thread exactly once,
  though they come from two sources, the history and the broadcasts, and were perhaps
  missed while disconnected; and nothing of a thread left. Broadcasts do not go out in the order in
  which messages were created, so one exception is real: a page that is full may have dropped a
  new message for older ones that came after it (`Overtaken`). That takes more than
  `ShownSize - HistorySize` of them, 30 in the code (`MAX_MESSAGES` 80, `HISTORY_SIZE` 50). The run
  needs three messages in one thread to get there. Messages that were sent out while a join was reading
  (`raced`) are left out, and count as overtaking.
* `PostedWhereTyped`: the server decides the thread of a message when it reads the packet,
  from a field the handlers of other packets set.

* `OwnershipProved`: an address is verified only by who reads it, by Google's word that it is, or by an
  admin, whatever requests overlap or fail; with one named exception, which the code makes: linking
  an account that was there asks for nobody's word.
* `LinksWorkOnce`: the newest link works, once, and no older one, unless two requests of the
  account overlapped or one was cut short; and the one that works was mailed.
* `PasswordAsTold`: nobody's password is changed behind the back of who set it: a Google
  sign-in that links an account, an invitation for a taken address, a registration that loses
  against the unique column must all leave it alone.
* `AdminRemains`: "You cannot change your own role" is what keeps an admin; two admins that
  demote each other at once are the one way around it, and the property says so.
* `SomebodyKnows`: a one-time password is mailed, or shown to a panel that is still there; nobody knows it
  only where the backend has no mail key and said all the same that the mail was sent (`misled`).
* `RowsAndImagesMatch`: which images without rows and rows without images can be left, by what
  failed; a failure of the row alone leaves nothing; a deletion that succeeded is final.
* `FrontPageIsWhole`, `RelatedIsApt`: what queries at different moments make a page of: no story
  twice, none passed over that was live all along, the steady hero kept, "trouble" only if
  nothing was live; related stories by tag before those by section.
* `ImplementsWorkflow`: the article handlers, one request at a time, against `ArticleWorkflow`.
* `RefusedOnlyIfStale`: the buttons of the form and the guards of the server are two programs
  that state one rule; a refusal of a request about an article means that the row changed since the page
  showed it, for the second request of a click too. Creations are not in it: `CreateArticleDto` refuses
  some that the form offers.
* `TypedIsStored`: a save that fails must not let Submit or Publish release what was there
  before; once saved, the row has the text and cover shown, or, of a form without a cover, the cover it had.
* `PurgesItsOwn`: only images that this form uploaded are deleted at Cloudinary, over
  uploads, replacements, saves and late answers.
* `ShowsTheList`: a settled list is the answer to what is chosen, without what the page removed (unless
  that answer was on its way when the page heard, and joined), and says that there is nothing only if so.
* `NothingOlder`, `BehindOnlyIfEarly`: what goes out is not older than what the page knew to be
  stored; a page at rest takes a sent campaign for a draft only if its last read was early.
* `PlayerIsHonest`: one heartbeat at most, none when nothing plays; at rest the buttons show
  what the engine does.
* `EndsUpRight`: guards, answers and clicks navigate over one another, and the person still
  ends up where they wanted to be, or where a guard must send them: nobody rests in the studio with a
  one-time password, in whatever order answer, push and guard come. A page of the site that the Google button pushed may
  come before the guard's effect: which is first is up to the browser, and the property names it. And the tab
  knows the person as the server does.

Where the code departs from a property by design, or by an order nobody waits for, a history
variable marks exactly that (`overlapped`, `patched`, `crossed`, `raced`, `met`, `cut`, `dropped`, `misled`,
`overtaken`, `moved`, `early`, `left`, `stale`, `learnt`, `ahead`). The mark is set by the steps that make
the exception, never by its outcome.

### Findings

1. `send()` can be accepted twice: the campaign stays DRAFT until its loop has made
   two database calls; the second loop mails everybody again (`newsletter_resent`).
2. Two `feature()` requests make two heroes (`editorial_heroes`): each clears
   those it saw.
3. A cover that was removed from the form, and saved, is still the article's (`form_cover`):
   `cover_url || undefined` (`article-form.tsx:116`) is not sent, though the dialog says that it
   "will be cleared from this article" (`:458`).
4. A refresh that had passed its check before a password reset stores a new
   token after it: the session the reset was to end goes on (`sessions_reset`).

### Other departures met while modelling

None of these has a run. Some modules state the words alone, so that a reader can
see them fail: `Newsletter!UnsubscribeLinkKeepsWorking`, `Lists!EmptyMeansNone`, `Composer!ProgressIsShown`, `Player!PlayIsHeard`.

* Newsletter: an address that was deleted and subscribes again gets a new token; the links in
  its old mails are dead (`newsletter.service.ts:45`, `48`, `86`).
* Articles: "Only drafts can be edited" (`studio.service.ts:91`) is checked before an await; a writer's edit that was
  accepted for a draft lands on whatever the article is by then. And a PATCH can set any column, of a writer's own
  draft too: a status, the hero, a date.
* Accounts: linking to Google verifies an address that Google itself calls unverified. Without a mail key
  `sendEmail` returns quietly and `createStaff` reports `emailed`; the password is then neither mailed nor
  shown. `checkUsername` compares without case, `register` with it.
* Composer: Send sends what is stored, not what is typed; a stale copy can be saved over a newer
  text after the page was left with a save in flight; a refetch that fails replaces the form and
  what was typed by "Campaign not found."; a second click on Create, or one after a lost
  answer, makes a second campaign; a read before the loop's first write stops the polling
  (`newsletter-admin.hooks.ts:62`).
* Lists: a page past the end says "No ... match"; a row that was removed is shown again by an answer that was
  on its way, when there was none for that list before.
* Player: a rate chosen between Play and `onstart` is shown and not spoken; Stop or another rate
  while paused leaves the engine paused, and the next Play is not heard.
* Front page: the TV rail shows three of its four; `findAll` pages have no tie-break; when the API fails, Next
  caches the fallback for its 60 s.
* Sign-in: a wrong *current* password is a 401 like any other: refresh, retry, and then the login page
  loads, over the form and its message (`client.ts:129-142`, `auth.service.ts:156`). After a
  registration the guard's `replace('/')` usually overrides `push('/verify-email?sent=1')`; staff with a one-time
  password who sign in with Google may land on the front page; a guest sent from the password page loses its goal,
  and a password set elsewhere meanwhile never sends the page on; a logout that fails, or finds its
  session dead, loads the login page or shows the person signed in again; a first `/auth/me` answer that was overtaken by
  the verification keeps the banner for five minutes; the live username check shows the answer for the name before.

### Bounds

All bounds are constants and their use is in the guards. Three addresses in
batches of two give a full and a short batch, and an address that comes or goes
in the middle. Two sends are as many as can disagree about one row. `MaxRequests`
limits handlers of *different* decisions; equal ones are covered by the sets. Two
requests per article are the smallest overlap, and a third adds no new kind of
write; two publications allow publish, unpublish, publish, and the third of `server` one
of another article besides. For sessions, two requests of one tab share a refresh and a
third, in another tab, competes with them; tokens of three seconds let a token be
rotated in a new second, or in the same one. What rests on proofs (below) holds
without any of these bounds.

`Chat` would be too large with all of its bounds at once. `Budgets` is the set of what
one behaviour may spend: three pages of one reader; two pages with a message, or
with a fault; two messages with a fault; and two readers with three pages, or a
page each with a fault, or a message. Three pages are two changes that can meet in
one tick; one fault gives a second connection; two messages overflow a history
of one.

The parts of `server` and `pages` have budgets of the same kind: constants, whose values are the
plans that `MCServer` and `MCPages` define and the configurations name. *Accounts*: two addresses that suggest one username; eight plans of three to five
requests, with a fault in most: accounts that begin together, an address over several links, a
password over several links and a change, an invitation. *Staff*: three people; three role
changes, or two invitations with two losses, or both with one of each. *Media*: two writers and an editor, two uploads,
two deletions, two failures. *News*: four stories in two sections, two changes during the
request, pages of two: enough to overfill each list and to leave a tag query short. *Editorial*:
two articles, three publications, one request at a time. *ArticleForm*: two articles, and one of: four clicks with a
colleague about; three pages; a lost answer; two uploads. *Lists*: three rows, one on a page; two choices and a change, or a
choice against others' changes, aging and a failure. *Composer*: two texts, four clicks and a reload, or three and
a loss. *Player*: five clicks at two rates. *SignIn*: two requests, two links and an address; or fewer with
a loss, with somebody elsewhere, or with an answer that has got old.

Handlers, addresses, articles, sends, readers, stories and messages are only
compared, so the safety runs use symmetry; the liveness runs do not.
`CHECK_DEADLOCK` is on except in `chat`, `server` and `pages`: readers may all have left, and
a component whose budget is used up may rest. The other runs would report a state in which
nobody can do anything, which the code never reaches: a page can always be loaded.

### Fairness

* `Newsletter!FairSpec`: weak fairness of each loop's next step. The event loop
  runs every callback that is ready, and a post is answered or times out after
  15 s (`email.service.ts`). Nothing is assumed of requests or people.
* `Sessions!FairSpec`: weak fairness of the progress of each request: messages
  arrive, handlers end. The refresh `fetch` has no timeout in `ApiClient`; the
  assumption is that the browser's or the server's own one ends it. Nothing is
  assumed of page loads, expiry, or losses.

## Proofs

Everything below is for every value of the constants: any number of addresses,
campaigns, sends, articles, requests, tabs, browsers, readers, sockets, users, images and rows, every
batch and page size and every bound. The assumptions are the `ASSUME`s of the modules: the sets of
addresses and of readers are finite, `Items` is `1..n`, `BatchSize` and `Limit` are positive numbers,
the bounds are numbers, `NoRequest` is not a request, `None` is not a story, and names are neither
numbers nor `None`. `Bodies` is any set of bodies that the schema allows. Of `FrontPage`: the stories are a finite set of positive numbers and a story's tags are a
finite set; `RecentSize` is more than `ShownSize` (9 and 8), so that a page without its hero is still full;
`Pool` is at least `Limit` (`max(4 * limit, 12)`). The components of `MCServer` and `MCPages` are proved about as parts of those sums,
so that a theorem and the run beside it speak of one specification.

| Theorem | Says |
|---|---|
| `NewsletterProofs`: `TypeCorrect`, `OptOutsRespected`, `SentIsCompleted`, `NeverStrandedByRequests`, `ProgressIsShown`, `SenderRefinesBroadcast` | `TypeOK`, `RespectsOptOut`, `SentMeansCompleted`, `StuckOnlyAfterFault`, `ProgressIsHonest`, `ImplementsBroadcast` |
| `WorkflowProofs`: `WorkflowSafe`, `DatesAreKept` | the atomic workflow has one live hero and coherent columns among the articles that no PATCH overwrote, and keeps dates but where a PATCH names them |
| `EditorialProofs`: `TypeCorrect`, `OverlapsKeepRows` | `TypeOK`, `RowsMakeSense`, for any overlap |
| `EditorialProofs`: `ApartLegalMoves`, `ApartDatesKept`, `ApartHeroIsLive` | `LegalMoves`, `DatesKept`, `FeaturedIsPublished` |
| `EditorialProofs`: `SerialImplementsWorkflow`, `SerialOneHero` | with one handler: `ImplementsWorkflow`, `AtMostOneFeatured` |
| `SessionsProofs`: `TypeCorrect`, `NobodyWaitsInVain`, `SessionsAreHeld` | `TypeOK`, `WaitersHaveARefresh`, `SessionIsHeld` |
| `ChatProofs`: `TypeCorrect`, `OneThreadPerSocket`, `TextsAreAtHome`, `ReadersAreCounted`, `ThreadsAreWhole` | `TypeOK`, `InItsThread`, `PostedWhereTyped`, `PresenceIsHonest`, `ThreadIsWhole` |
| `ServerProofs`, Accounts: `TypeCorrect`, `OwnersAreProved`, `PasswordsAreAsTold`, `LinksAreGoodOnce` | `TypeOK`, `OwnershipProved`, `PasswordAsTold`, `LinksWorkOnce` |
| `ServerProofs`: `ServerTypes` | `TypesOK`, of all five components |
| `ServerProofs`, Media and Staff: `ImagesHaveRows`, `AnAdminRemains`, `PasswordsAreKnown` | `RowsAndImagesMatch`, `AdminRemains`, `SomebodyKnows` |
| `ServerProofs`, FrontPage: `FrontPagesAreWhole`, `RelatedAreApt` | `FrontPageIsWhole`, `RelatedIsApt` |
| `PagesProofs`: `PagesTypes` | `TypesOK`, of all five pages |
| `PagesProofs`, ArticleForm: `FormsPurgeTheirOwn`, `OffersAreTaken`, `SavedIsStored` | `PurgesItsOwn`, `RefusedOnlyIfStale`, `TypedIsStored` |
| `PagesProofs`, the others: `ListsShowTheChoice`, `NothingOlderGoesOut`, `PagesSeeTheSend`, `PlayerShowsTheEngine`, `PeopleEndUpRight` | `ShowsTheList`, `NothingOlder`, `BehindOnlyIfEarly`, `PlayerIsHonest`, `EndsUpRight` |

How they go:

* **Newsletter.** `IInv` says of every loop that `todo` and `batch` are parts of its
  snapshot, that a snapshot has one token per address, and that exactly the
  addresses outside `todo` were mailed, once each (`SnapshotInv`). Without it "done"
  would say nothing about the mail. `OptOutInv` adds that an address in `optedOut`
  is neither CONFIRMED nor in the snapshot. The refinement follows step by step from
  the same invariant: a batch is a subset of `todo`, so nobody in it was mailed.
  `ProgressInv` counts: what a loop calls `sent` is the number of its snapshot's subscribers
  that are outside `todo`, and its row shows that number, or an older one until the loop has saved it.
* **Editorial.** `RowsMakeSense` is not inductive: a handler writes on what it read.
  `HandlerInv` says which of the facts it has read are still true: no operation takes
  back `submitted_at` or `published_at`, and a deleted row takes no write. With one
  handler, `SerialInv` says that everything it has read still is what is there,
  hence each write is the operation of the workflow. The workflow's own invariant (`WInv`) is about the
  articles that no PATCH overwrote; a hero that a PATCH made is cleared by `feature()` like any other. `AInv` is the same for one
  article whose requests did not overlap: the request in flight was accepted for the
  row that is there, because other requests change neither its status nor its date.
* **Sessions.** `CallInv`, `FlightInv` and `WaitInv` tie a waiting request, the
  refresh of its tab and the handler behind it to each other. `PeaceInv` says that
  while tabs do not overlap and nothing is lost at most one request is about to
  change the row or the cookies, so that the row is what a browser has or is
  about to get.
* **Chat.** A socket's way from page to room goes through the packets on the wire, the handlers
  between their awaits and the room it is in. `ThreadInv` reads these as one path that ends at the page
  (`PathInv`), on which the rooms and the socket's data agree (`RoomInv`). `PlacesInv` says that a stored or
  shown message is in the thread it was typed in. `PresenceInv` says of a story about which no handler and
  no lost socket owes a broadcast that the last number on the way to each reader, or shown, is right.
  `WholeInv` looks at what a page will have when its last answer and all that follows it on the wire have
  arrived, or at what it shows and all that is on the wire: of each message that is newest and not still
  to be sent out there is one, unless the page is full by then. It rests on `OnceInv` (a text is on its way
  to the server once, and not any more when the server has it), `KeptInv` (one handler keeps a text, and it
  is once in all the threads) and `JoinsInv` (the last join under way is that of the page on screen).
  `Outnumbered` counts what a full page without the message must show instead. The first form of the
  property, without `Overtaken`, was false from three messages on; the attempt to prove it showed that.
* **Accounts.** Whatever a request leaves behind carries its number. `TokenInv` says that a
  number found in a row, a mail and a request is of one account, hence a link verifies the
  address it was mailed to; `CallsInv` says which request can be at which await.
  `PasswordInv` says that an account without overlaps and failures has the password
  last told, or that of its one request that has written and not yet answered. `LinksInv` follows the
  number of a link from the request that writes it through the row, the mail and the request that
  uses it up. The steps of `Next` are first brought to four shapes (`Shapes`: a request arrives, writes,
  passes on or leaves), and the invariants are shown of those.
* **Media, Staff.** `MediaInv` says at each await of a request what it still knows: which of image and row
  are its own, and that nobody else has them. `StaffInv` adds to the two properties that nobody who asks for
  a role change asks for their own, that who asks still has an account, and that an answer with its
  mail sent is about somebody who has the password.
* **FrontPage.** `FirstOf` says what a query gives, the first `n` of a set in an order; `RanksAreAll` and
  `RanksOrder`, of any finite set and any strict order, say that `Ordered` gives that. `RecentFits`,
  `HeroFits` and `PageFits` are what a query and the page promise about the stories live all along
  and those live at some time. Editors make the former fewer and the latter more, so an answer that came early
  keeps its promise while others come (`LessFits`). If the tags do not fill the list of `related()`, every
  story that shares one is in it, because `Pool` is at least `Limit` (`ByTagsFit`, by the counting
  lemma `NotLonger`); the second query adds others of the section up to the limit (`BySectionFits`).
* **ArticleForm.** `CallInv` and `PageInv` say which requests a page can have out and what it knows of each;
  `SaveInv` and `OutInv` order the numbers of texts: shown, sent with a save, stored, sent out.
  `PurgeInv` and `OfferInv` do the same for images and for the status that the buttons go by.
* **Lists.** `KeyInv`: what is chosen is kept, failed or on its way, under its own key. `DoneInv`: a row that was
  removed is in no answer that is not about to be replaced, or `overtaken`. `GrowInv`: while nothing was moved lists only
  grow, so no page in use is past the end; `PagesFill` (a counting argument) then shows that its
  answer has rows.
* **Composer.** `DraftInv`: no text is newer than the last one typed. `CopyInv`: what page, copy, query and
  loops say of the row's status. `SeenInv`: once a send was taken, a copy that does not say so is about to be
  read anew. `StayInv`: a page that was not left has one request out at a time, and what it knows to be
  stored is stored, or something newer. Looking for it
  showed that `left` must also be set when the page comes up from a copy that is not the row.
* **Player.** `BeatInv`: the heartbeat that runs is the one that the page knows. `SoundInv`: of the events that
  are still to come only the last counts, and it will say what the engine does.
* **SignIn.** `WayInv` says that the page that is going to be shown is the one that was wanted, or where a
  guard sends those who want it, or `ahead`, or that a page to sign in has pushed the goal and its guard is
  yet to have its turn (`Pushing`); `ButtonInv` that only a page that does not know the person has the Google button;
  `GuardInv` that between its effects a page is one from which no guard sends on; `ToldInv` that what the tab knows is right, old, or about to be told.
  None of them is inductive without `AnswerInv`: a granted request tells who the person is,
  and while its page is there it is the page that sent it.

The proofs made parts of the model more exact. Where two arms of a `CASE` could hold at once the prover
cannot tell which one counts, as TLA+ does not say: the arms in `Chat` and `SignIn` exclude one another now.

Only model-checked: the liveness properties (`SendingEnds`, `RequestsSettle`), which the prover does not
reach; and `ImplementsWorkflow` in `server`, whose theorem is
`SerialImplementsWorkflow`, of any number of articles.

## Not modelled, and the plan

The plan: every safety property that a run checks is a theorem now. What could be added is the order of the
rails (`PinnedFirstIs` is its lemma) and the serial workflow as a part of `MCServer`.

Not modelled, and why:

* **Cache** and **LLM**: nothing calls `CacheService`, and `LlmModule` is imported nowhere at this
  commit. A model would have no caller to be faithful to. `VerifiedGuard` guards nothing either.
* **Users**: one read and one write of one row.
* **Email**: calls that succeed or fail, which `Newsletter` and `Accounts` have; the templates are text.
* **Common, Prisma**: the shape of answers; one statement is atomic, which every module assumes.
* **Reader's pages, middleware, ads, analytics, SEO**: rendering of one answer.
* **Scripts and deployment**: run by hand. A deploy is `Restart`, `Crash` or a lost answer where it matters.
* **The synchronisation of `ARCHITECTURE.md`**: not in the source.

Left out of modelled parts: the 30 days of a refresh token; who a chat socket belongs to when a message is
refused, and the rate limit (a refusal may always happen); the list of campaigns, which is
neither filtered nor paged; the live check of a username while it is typed; toasts and the wording of errors.
