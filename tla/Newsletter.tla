------------------------------ MODULE Newsletter ------------------------------
(***************************************************************************)
(* The newsletter of the fulltiime backend: the subscriber list, the       *)
(* campaign rows and the background sender.                                *)
(*                                                                         *)
(* A Node process runs many request handlers at once; each `await` of a    *)
(* handler is a point where the others run.  Every handler here that       *)
(* reads a row, decides, and then writes is therefore two actions: the     *)
(* first reads and decides, and leaves a record of the decided write in    *)
(* `subscribing', `unsubscribing', `editing' or `deleting'; the second is  *)
(* the write, which meets whatever the row has become.  A record stands    *)
(* for any number of handlers that decided the same, and the write of one  *)
(* may fail for any reason, which leaves the rows as they are.             *)
(*                                                                         *)
(* CampaignSenderService.run is fire-and-forget: one entry of `run' per    *)
(* accepted send, advancing one database call or one batch at a time.      *)
(***************************************************************************)
EXTENDS Naturals, FiniteSets

CONSTANTS
    Emails,         \* addresses
    Campaigns,      \* campaign ids (cuid: never reused)
    Sends,          \* accepted sends of one campaign (bounds how many are explored)
    BatchSize,      \* BATCH_SIZE, 5 in the code
    MaxRows,        \* bound: subscriber rows ever created for one address
    MaxEdits,       \* bound: saved edits of one campaign
    MaxFaults,      \* bound: process crashes and database errors
    MaxRequests     \* bound: handlers (of different decisions) in flight together

ASSUME EmailsAssumption == IsFiniteSet(Emails)
ASSUME BatchSizeAssumption == BatchSize \in Nat \ {0}
ASSUME BoundsAssumption == MaxRows \in Nat /\ MaxEdits \in Nat /\ MaxFaults \in Nat
                                                  /\ MaxRequests \in Nat

VARIABLES
    subscriber,     \* newsletter_subscribers, by address
    campaign,       \* newsletter_campaigns, by id
    subscribing,    \* subscribe() handlers between their read and their write
    unsubscribing,  \* unsubscribe() handlers between their read and their write
    editing,        \* updateCampaign() handlers between their check and their write
    deleting,       \* deleteCampaign() handlers between their check and their write
    run,            \* the sender loops
    faults,         \* faults so far
    optedOut        \* history: see RespectsOptOut

vars == <<subscriber, campaign, subscribing, unsubscribing, editing, deleting,
          run, faults, optedOut>>

rowVars == <<subscriber, campaign>>
publicVars == <<subscribing, unsubscribing>>
adminVars == <<editing, deleting>>

-------------------------------------------------------------------------------
(* Data *)

\* A row's unsubscribe_token is a fresh cuid: the address and how many rows the
\* address has had.  It identifies the row as its id does.
Tokens == [email : Emails, row : Nat]

\* ABSENT: no row.  `row' is then the number of the last row, 0 if none.
SubscriberRows == [status : {"ABSENT", "CONFIRMED", "UNSUBSCRIBED"}, row : Nat]

\* NEW: not created yet.  DELETED: created and deleted.  `content' numbers the
\* saved versions of subject and body.
CampaignRows == [status : {"NEW", "DRAFT", "SENDING", "SENT", "DELETED"},
                 content : Nat, recipient_count : Nat, sent_count : Nat]

Exists(c) == campaign[c].status \in {"DRAFT", "SENDING", "SENT"}

TokenOf(e) == [email |-> e, row |-> subscriber[e].row]

Admitted ==
    Cardinality(subscribing) + Cardinality(unsubscribing)
        + Cardinality(editing) + Cardinality(deleting) < MaxRequests

\* What is left in flight when one of the handlers h stands for has written.
Without(handlers, h) == {handlers, handlers \ {h}}

Confirmed == {TokenOf(e) : e \in {x \in Emails : subscriber[x].status = "CONFIRMED"}}

EmailsOf(T) == {t.email : t \in T}

\* The n-th accepted send of a campaign.
Runs == Campaigns \X Sends
CampaignOf(r) == r[1]
RunsOf(c) == {r \in Runs : CampaignOf(r) = c}

\* accepted: run() called, its first read pending.  loaded: campaign row read.
\* counted: subscribers read.  sending: row marked SENDING, in the batch loop.
\* done: marked the row SENT.  gone: found no row and returned.  failed: threw,
\* or died with the process.
RunPhases == {"idle", "accepted", "loaded", "counted", "sending", "done", "gone", "failed"}
Live == {"accepted", "loaded", "counted", "sending"}

\* content: the version read with the row.  subscribers: the snapshot.  todo: not
\* yet in a batch.  batch: handed to the mail provider, answer pending.  unsaved: a
\* batch is over and sent_count has not been written.  mailed: copies handed over,
\* by address.
RunStates == [pc : RunPhases, content : Nat, subscribers : SUBSET Tokens,
              todo : SUBSET Tokens, batch : SUBSET Tokens, unsaved : BOOLEAN,
              sent : Nat, mailed : [Emails -> Nat]]

IdleRun == [pc |-> "idle", content |-> 0, subscribers |-> {}, todo |-> {},
            batch |-> {}, unsaved |-> FALSE, sent |-> 0,
            mailed |-> [e \in Emails |-> 0]]

TypeOK ==
    /\ subscriber \in [Emails -> SubscriberRows]
    /\ campaign \in [Campaigns -> CampaignRows]
    /\ subscribing \subseteq [email : Emails, seen : {"ABSENT", "UNSUBSCRIBED"}]
    /\ unsubscribing \subseteq Tokens
    /\ editing \subseteq Campaigns
    /\ deleting \subseteq Campaigns
    /\ run \in [Runs -> RunStates]
    /\ faults \in Nat
    /\ optedOut \in [Runs -> SUBSET Emails]

\* Any subscriber list; no campaign yet; nothing in flight.
Init ==
    /\ subscriber \in [Emails -> {[status |-> "ABSENT", row |-> 0],
                                  [status |-> "CONFIRMED", row |-> 1],
                                  [status |-> "UNSUBSCRIBED", row |-> 1]}]
    /\ campaign = [c \in Campaigns |-> [status |-> "NEW", content |-> 0,
                                        recipient_count |-> 0, sent_count |-> 0]]
    /\ subscribing = {} /\ unsubscribing = {} /\ editing = {} /\ deleting = {}
    /\ run = [r \in Runs |-> IdleRun]
    /\ faults = 0
    /\ optedOut = [r \in Runs |-> {}]

-------------------------------------------------------------------------------
(* The subscriber list: NewsletterService.subscribe, unsubscribe,           *)
(* deleteSubscriber                                                         *)

\* Mutant: the "already subscribed" answer is missing.
SubscribeReadAny(e) ==
    /\ Admitted
    /\ subscribing' = subscribing \cup {[email |-> e, seen |-> subscriber[e].status]}
    /\ UNCHANGED <<rowVars, unsubscribing, adminVars, run, faults, optedOut>>

\* subscribe() found no CONFIRMED row and goes on to write.  (With a CONFIRMED
\* row it answers "already subscribed" and changes nothing.)
SubscribeRead(e) ==
    /\ Admitted
    /\ subscriber[e].status # "CONFIRMED"
    /\ subscribing' = subscribing \cup {[email |-> e, seen |-> subscriber[e].status]}
    /\ UNCHANGED <<rowVars, unsubscribing, adminVars, run, faults, optedOut>>

Confirm(e) ==
    /\ subscriber' = [subscriber EXCEPT ![e].status = "CONFIRMED"]
    /\ optedOut' = [r \in Runs |-> optedOut[r] \ {e}]

\* No row was seen: create one.  The unique index on email refuses it when
\* another request has made the row meanwhile.
SubscribeCreate(q) ==
    /\ q \in subscribing /\ q.seen = "ABSENT"
    /\ subscribing' \in Without(subscribing, q)
    /\ \/ /\ subscriber[q.email].status = "ABSENT"
          /\ subscriber[q.email].row < MaxRows
          /\ subscriber' = [subscriber EXCEPT ![q.email] =
                [status |-> "CONFIRMED", row |-> subscriber[q.email].row + 1]]
          /\ optedOut' = [r \in Runs |-> optedOut[r] \ {q.email}]
       \/ UNCHANGED <<subscriber, optedOut>>
    /\ UNCHANGED <<campaign, unsubscribing, adminVars, run, faults>>

\* A row was seen: update it by address, if it is still there.
SubscribeUpdate(q) ==
    /\ q \in subscribing /\ q.seen = "UNSUBSCRIBED"
    /\ subscribing' \in Without(subscribing, q)
    /\ \/ subscriber[q.email].status # "ABSENT" /\ Confirm(q.email)
       \/ UNCHANGED <<subscriber, optedOut>>
    /\ UNCHANGED <<campaign, unsubscribing, adminVars, run, faults>>

\* The holder of a link, from a campaign of any age, follows it; a row has the
\* token and is not UNSUBSCRIBED.
UnsubscribeRead(t) ==
    /\ Admitted
    /\ t.row = subscriber[t.email].row
    /\ subscriber[t.email].status = "CONFIRMED"
    /\ unsubscribing' = unsubscribing \cup {t}
    /\ UNCHANGED <<rowVars, subscribing, adminVars, run, faults, optedOut>>

\* The write goes by row id.
UnsubscribeWrite(t) ==
    /\ t \in unsubscribing
    /\ unsubscribing' \in Without(unsubscribing, t)
    /\ \/ /\ subscriber[t.email].status # "ABSENT"
          /\ subscriber[t.email].row = t.row
          /\ subscriber' = [subscriber EXCEPT ![t.email].status = "UNSUBSCRIBED"]
       \/ UNCHANGED subscriber
    /\ UNCHANGED <<campaign, subscribing, adminVars, run, faults, optedOut>>

DeleteSubscriber(e) ==
    /\ subscriber[e].status # "ABSENT"
    /\ subscriber' = [subscriber EXCEPT ![e].status = "ABSENT"]
    /\ UNCHANGED <<campaign, publicVars, adminVars, run, faults, optedOut>>

-------------------------------------------------------------------------------
(* Campaign rows: NewsletterService.createCampaign, updateCampaign,         *)
(* deleteCampaign, send                                                     *)

CreateCampaign(c) ==
    /\ campaign[c].status = "NEW"
    /\ campaign' = [campaign EXCEPT ![c].status = "DRAFT"]
    /\ UNCHANGED <<subscriber, publicVars, adminVars, run, faults, optedOut>>

UpdateCheck(c) ==
    /\ Admitted
    /\ campaign[c].status = "DRAFT" /\ campaign[c].content < MaxEdits
    /\ editing' = editing \cup {c}
    /\ UNCHANGED <<rowVars, publicVars, deleting, run, faults, optedOut>>

\* The update names the row by id only: the status is not checked again.
UpdateWrite(c) ==
    /\ c \in editing
    /\ editing' \in Without(editing, c)
    /\ \/ /\ Exists(c) /\ campaign[c].content < MaxEdits
          /\ campaign' = [campaign EXCEPT ![c].content = @ + 1]
       \/ UNCHANGED campaign
    /\ UNCHANGED <<subscriber, publicVars, deleting, run, faults, optedOut>>

DeleteCheck(c) ==
    /\ Admitted
    /\ Exists(c) /\ campaign[c].status # "SENDING"
    /\ deleting' = deleting \cup {c}
    /\ UNCHANGED <<rowVars, publicVars, editing, run, faults, optedOut>>

DeleteWrite(c) ==
    /\ c \in deleting
    /\ deleting' \in Without(deleting, c)
    /\ \/ Exists(c) /\ campaign' = [campaign EXCEPT ![c].status = "DELETED"]
       \/ UNCHANGED campaign
    /\ UNCHANGED <<subscriber, publicVars, editing, run, faults, optedOut>>

\* send() saw a DRAFT and calls run() without awaiting it; nothing is written.
Send(r) ==
    /\ campaign[CampaignOf(r)].status = "DRAFT"
    /\ run[r].pc = "idle"
    /\ run' = [run EXCEPT ![r].pc = "accepted"]
    /\ optedOut' = [optedOut EXCEPT ![r] =
                      {e \in Emails : subscriber[e].status # "CONFIRMED"}]
    /\ UNCHANGED <<rowVars, publicVars, adminVars, faults>>

-------------------------------------------------------------------------------
(* The sender loop: CampaignSenderService.run                               *)

senderVars == <<subscriber, publicVars, adminVars, faults, optedOut>>

RunLoad(r) ==
    /\ run[r].pc = "accepted"
    /\ \/ /\ Exists(CampaignOf(r))
          /\ run' = [run EXCEPT ![r] = [run[r] EXCEPT
                        !.pc = "loaded", !.content = campaign[CampaignOf(r)].content]]
       \/ ~Exists(CampaignOf(r)) /\ run' = [run EXCEPT ![r].pc = "gone"]
    /\ UNCHANGED <<campaign, senderVars>>

\* Mutant: the query for the snapshot has no status filter.
RunCountEverybody(r) ==
    LET rows == {TokenOf(e) : e \in {x \in Emails : subscriber[x].status # "ABSENT"}} IN
    /\ run[r].pc = "loaded"
    /\ run' = [run EXCEPT ![r] = [run[r] EXCEPT
                    !.pc = "counted", !.subscribers = rows, !.todo = rows]]
    /\ UNCHANGED <<campaign, senderVars>>

RunCount(r) ==
    /\ run[r].pc = "loaded"
    /\ run' = [run EXCEPT ![r] = [run[r] EXCEPT
                    !.pc = "counted", !.subscribers = Confirmed, !.todo = Confirmed]]
    /\ UNCHANGED <<campaign, senderVars>>

\* An update of the campaign row by the loop; it throws when the row is gone.
UpdateRow(r, row, next) ==
    LET c == CampaignOf(r) IN
    \/ /\ Exists(c)
       /\ campaign' = [campaign EXCEPT ![c] = row]
       /\ run' = [run EXCEPT ![r] = next]
    \/ /\ ~Exists(c)
       /\ run' = [run EXCEPT ![r].pc = "failed"]
       /\ UNCHANGED campaign

\* Mutant: recipient_count is counted anew instead of taken from the snapshot.
RunMarkRecounting(r) ==
    /\ run[r].pc = "counted"
    /\ UpdateRow(r, [campaign[CampaignOf(r)] EXCEPT
                        !.status = "SENDING",
                        !.recipient_count = Cardinality(Confirmed),
                        !.sent_count = 0],
                    [run[r] EXCEPT !.pc = "sending"])
    /\ UNCHANGED senderVars

RunMark(r) ==
    /\ run[r].pc = "counted"
    /\ UpdateRow(r, [campaign[CampaignOf(r)] EXCEPT
                        !.status = "SENDING",
                        !.recipient_count = Cardinality(run[r].subscribers),
                        !.sent_count = 0],
                    [run[r] EXCEPT !.pc = "sending"])
    /\ UNCHANGED senderVars

\* subscribers.slice(i, i + BATCH_SIZE): a full batch, or all that is left.  The
\* list comes from the database in no particular order.
NextBatches(r) ==
    {b \in SUBSET run[r].todo : /\ b # {} /\ Cardinality(b) <= BatchSize
                                /\ Cardinality(b) = BatchSize \/ b = run[r].todo}

\* The copies handed over once the batch b is posted.
MailedWith(r, b) ==
    [e \in Emails |-> run[r].mailed[e] + IF e \in EmailsOf(b) THEN 1 ELSE 0]

\* Between two batches of the loop.
AtBatch(r) == run[r].pc = "sending" /\ run[r].batch = {} /\ ~run[r].unsaved

PostBatch(r, b, todo, sent) ==
    /\ run' = [run EXCEPT ![r] = [run[r] EXCEPT
                  !.batch = b, !.todo = todo, !.unsaved = TRUE, !.sent = sent,
                  !.mailed = MailedWith(r, b)]]
    /\ UNCHANGED <<campaign, senderVars>>

\* Mutant: consecutive slices may overlap by one address.
RunBatchOverlapping(r) ==
    /\ AtBatch(r)
    /\ \E b \in NextBatches(r) : \E again \in {{}} \cup {{t} : t \in b} :
        PostBatch(r, b, (run[r].todo \ b) \cup again, run[r].sent + Cardinality(b))

\* Every message of the batch is posted before the first answer is awaited.
RunBatch(r) ==
    /\ AtBatch(r)
    /\ \E b \in NextBatches(r) :
        PostBatch(r, b, run[r].todo \ b, run[r].sent + Cardinality(b))

\* Mutant: a post that fails rejects Promise.all: the loop ends there.
RunSettleRejecting(r, t) ==
    /\ run[r].pc = "sending" /\ t \in run[r].batch
    /\ \/ run' = [run EXCEPT ![r].batch = @ \ {t}]
       \/ run' = [run EXCEPT ![r].pc = "failed"]
    /\ UNCHANGED <<campaign, senderVars>>

\* One post is answered, or fails or times out after 15 s; the loop counts both
\* as processed.
RunSettle(r, t) ==
    /\ run[r].pc = "sending" /\ t \in run[r].batch
    /\ run' = [run EXCEPT ![r].batch = @ \ {t}]
    /\ UNCHANGED <<campaign, senderVars>>

RunSave(r) ==
    /\ run[r].pc = "sending" /\ run[r].batch = {} /\ run[r].unsaved
    /\ UpdateRow(r, [campaign[CampaignOf(r)] EXCEPT !.sent_count = run[r].sent],
                    [run[r] EXCEPT !.unsaved = FALSE])
    /\ UNCHANGED senderVars

\* Mutant: the loop condition stops one batch early.
RunFinishEarly(r) ==
    /\ AtBatch(r) /\ Cardinality(run[r].todo) <= BatchSize
    /\ UpdateRow(r, [campaign[CampaignOf(r)] EXCEPT !.status = "SENT"],
                    [run[r] EXCEPT !.pc = "done"])
    /\ UNCHANGED senderVars

\* Mutant: the loop waits until the row shows every recipient.
RunFinishOnCount(r) ==
    /\ campaign[CampaignOf(r)].sent_count = campaign[CampaignOf(r)].recipient_count
    /\ AtBatch(r) /\ run[r].todo = {}
    /\ UpdateRow(r, [campaign[CampaignOf(r)] EXCEPT !.status = "SENT"],
                    [run[r] EXCEPT !.pc = "done"])
    /\ UNCHANGED senderVars

RunFinish(r) ==
    /\ AtBatch(r) /\ run[r].todo = {}
    /\ UpdateRow(r, [campaign[CampaignOf(r)] EXCEPT !.status = "SENT"],
                    [run[r] EXCEPT !.pc = "done"])
    /\ UNCHANGED senderVars

RunStep(r) ==
    \/ RunLoad(r) \/ RunCount(r) \/ RunMark(r) \/ RunBatch(r)
    \/ \E t \in run[r].batch : RunSettle(r, t)
    \/ RunSave(r) \/ RunFinish(r)

-------------------------------------------------------------------------------
(* Faults *)

\* A database call of the loop throws; send()'s .catch only logs it.  (A post
\* that throws is RunSettle: the loop catches it.)
RunError(r) ==
    /\ faults < MaxFaults /\ faults' = faults + 1
    /\ run[r].pc \in Live /\ run[r].batch = {}
    /\ run' = [run EXCEPT ![r].pc = "failed"]
    /\ UNCHANGED <<rowVars, publicVars, adminVars, optedOut>>

\* The process dies (a deploy replaces the container) and starts again: rows
\* survive, handlers and loops do not, and nothing resumes them.
Restart ==
    /\ faults < MaxFaults /\ faults' = faults + 1
    /\ run' = [r \in Runs |-> IF run[r].pc \in Live
                              THEN [run[r] EXCEPT !.pc = "failed"] ELSE run[r]]
    /\ subscribing' = {} /\ unsubscribing' = {} /\ editing' = {} /\ deleting' = {}
    /\ UNCHANGED <<rowVars, optedOut>>

-------------------------------------------------------------------------------
ListNext ==
    \/ \E e \in Emails :
        SubscribeRead(e) \/ DeleteSubscriber(e) \/ UnsubscribeRead(TokenOf(e))
    \/ \E q \in subscribing : SubscribeCreate(q) \/ SubscribeUpdate(q)
    \/ \E t \in unsubscribing : UnsubscribeWrite(t)

CampaignNext ==
    \E c \in Campaigns :
        \/ CreateCampaign(c)
        \/ UpdateCheck(c) \/ UpdateWrite(c)
        \/ DeleteCheck(c) \/ DeleteWrite(c)

SendNext == \E r \in Runs : Send(r) \/ RunStep(r) \/ RunError(r)

Next == ListNext \/ CampaignNext \/ SendNext \/ Restart

Spec == Init /\ [][Next]_vars

\* The event loop runs every callback that is ready, and each post is answered
\* or times out: a loop that can go on does.
FairSpec == Spec /\ \A r \in Runs : WF_vars(RunStep(r))

-------------------------------------------------------------------------------
(* Properties *)

\* A campaign shown as SENT was sent: some loop went through its whole snapshot,
\* and every address of it was handed to the mail provider once by that loop.
SentMeansCompleted ==
    \A c \in Campaigns : campaign[c].status = "SENT" =>
        \E r \in RunsOf(c) :
            /\ run[r].pc = "done"
            /\ \A e \in Emails :
                run[r].mailed[e] = IF e \in EmailsOf(run[r].subscribers) THEN 1 ELSE 0

\* Who is off the list when a send is accepted, and does not subscribe again
\* after that, gets nothing from it, whatever subscribe and unsubscribe requests
\* were under way.
RespectsOptOut ==
    \A r \in Runs : \A e \in optedOut[r] : run[r].mailed[e] = 0

\* The progress the studio polls is never ahead of the mail: some loop has handed
\* over at least sent_count messages.  While a campaign has been sent only once,
\* sent_count stays within recipient_count and equals it when the campaign is SENT:
\* subscriptions and deletions during the send do not move the goal.
ProgressIsHonest ==
    \A c \in Campaigns : Exists(c) =>
        /\ campaign[c].sent_count > 0 => \E r \in RunsOf(c) :
                campaign[c].sent_count <= Cardinality({e \in Emails : run[r].mailed[e] > 0})
        /\ Cardinality({r \in RunsOf(c) : run[r].pc # "idle"}) = 1 =>
                /\ campaign[c].sent_count <= campaign[c].recipient_count
                /\ campaign[c].status = "SENT"
                        => campaign[c].sent_count = campaign[c].recipient_count

\* A campaign that says SENDING has a loop working on it, unless the process
\* died or the database failed: requests alone cannot strand it.
StuckOnlyAfterFault ==
    \A c \in Campaigns : campaign[c].status = "SENDING" =>
        \/ \E r \in RunsOf(c) : run[r].pc = "sending"
        \/ faults > 0

\* Every campaign leaves SENDING and every accepted send ends, two sends of one
\* campaign included, unless the process died or the database failed.
SendingEnds ==
    /\ \A c \in Campaigns : campaign[c].status = "SENDING"
            ~> campaign[c].status # "SENDING" \/ faults > 0
    /\ \A r \in Runs : run[r].pc = "accepted" ~> run[r].pc \in {"done", "gone", "failed"}

\* Each loop is a send of Broadcast: its audience is the snapshot, it opens when
\* the snapshot is taken and closes when the row is marked SENT.
PhaseOf(pc) ==
    CASE pc \in {"idle", "accepted", "loaded"} -> "waiting"
      [] pc \in {"counted", "sending"} -> "open"
      [] pc = "done" -> "closed"
      [] pc \in {"gone", "failed"} -> "aborted"

sendPhase == [r \in Runs |-> PhaseOf(run[r].pc)]
sendAudience == [r \in Runs |-> EmailsOf(run[r].subscribers)]
sendMailed == [r \in Runs |-> run[r].mailed]

B == INSTANCE Broadcast WITH
        Sends <- Runs,
        phase <- sendPhase, audience <- sendAudience, mailed <- sendMailed

ImplementsBroadcast == B!Spec

-------------------------------------------------------------------------------
(* What the code says of itself and does not keep; see the findings *)

\* 'Only draft campaigns can be sent' (newsletter.service.ts:143): a loop marks a
\* row SENDING only when it is still a draft.
OnlyDraftsAreSent ==
    [][\A r \in Runs : run[r].pc = "counted" /\ run'[r].pc = "sending"
            => campaign[CampaignOf(r)].status = "DRAFT"]_vars

\* The link of a mailed message takes its reader off the list, if the reader is
\* on it: "it has to keep working from every campaign email ever sent"
\* (newsletter.service.ts:45).
UnsubscribeLinkKeepsWorking ==
    \A r \in Runs : \A t \in run[r].subscribers :
        run[r].mailed[t.email] > 0 /\ subscriber[t.email].status = "CONFIRMED"
            => subscriber[t.email].row = t.row

===============================================================================
