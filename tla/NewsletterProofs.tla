--------------------------- MODULE NewsletterProofs ---------------------------
(***************************************************************************)
(* Proofs about Newsletter, for any addresses, campaigns, number of sends, *)
(* batch size and bounds.                                                  *)
(*                                                                         *)
(* IInv is the inductive invariant.  Beside the types it says, of each     *)
(* loop, that its snapshot holds one token for an address, that todo and   *)
(* batch are parts of the snapshot, and that exactly the addresses that    *)
(* have left todo were mailed, once each.  ProgressInv adds what the rows  *)
(* show of the loops: a loop counts what it mails, and the row of one      *)
(* that is alone shows its count.                                          *)
(***************************************************************************)
EXTENDS Newsletter, TLAPS, FiniteSetTheorems

\* The snapshot of one loop and what has become of it.
SnapshotInv(r) ==
    LET S == run[r].subscribers IN
    /\ IsFiniteSet(S)
    /\ run[r].todo \subseteq S /\ run[r].batch \subseteq S
    /\ \A t, u \in S : t.email = u.email => t = u
    /\ run[r].pc \in {"idle", "accepted", "loaded", "gone"} => S = {}
    /\ run[r].pc = "done" => run[r].todo = {}
    /\ \A e \in Emails : run[r].mailed[e] =
            IF e \in EmailsOf(S \ run[r].todo) THEN 1 ELSE 0

\* An address that was off the list when the send was accepted is still off it,
\* and off the snapshot, or has subscribed since.
OptOutInv(r) ==
    \A e \in optedOut[r] :
        /\ subscriber[e].status # "CONFIRMED"
        /\ e \notin EmailsOf(run[r].subscribers)

SentInv(c) ==
    campaign[c].status = "SENT" => \E r \in RunsOf(c) : run[r].pc = "done"

IInv ==
    /\ TypeOK
    /\ \A r \in Runs : SnapshotInv(r)
    /\ \A r \in Runs : OptOutInv(r)
    /\ \A c \in Campaigns : SentInv(c)
    /\ StuckOnlyAfterFault

-------------------------------------------------------------------------------
(* The steps that leave the loops alone *)

LEMMA InitIInv == Init => IInv
<1> SUFFICES ASSUME Init PROVE IInv
  OBVIOUS
<1>1. TypeOK
  BY DEF Init, TypeOK, SubscriberRows, CampaignRows, RunStates, RunPhases, IdleRun, Runs
<1>2. ASSUME NEW r \in Runs PROVE SnapshotInv(r)
  BY FS_EmptySet DEF Init, IdleRun, SnapshotInv, EmailsOf
<1>3. (\A r \in Runs : OptOutInv(r)) /\ (\A c \in Campaigns : SentInv(c)) /\ StuckOnlyAfterFault
  BY DEF Init, OptOutInv, SentInv, StuckOnlyAfterFault
<1> QED
  BY <1>1, <1>2, <1>3 DEF IInv

\* A step that changes neither loops nor campaigns keeps all that IInv says of
\* them.
LEMMA LoopsUntouched ==
  ASSUME IInv, UNCHANGED <<campaign, run, faults>>
  PROVE  /\ \A r \in Runs : SnapshotInv(r)'
         /\ \A c \in Campaigns : SentInv(c)'
         /\ StuckOnlyAfterFault'
BY DEF IInv, SnapshotInv, SentInv, StuckOnlyAfterFault, RunsOf

\* The steps of the subscriber list.
LEMMA ListStep == ASSUME IInv, ListNext PROVE IInv'
<1> USE DEF IInv, TypeOK
<1>t. \A e \in Emails : TokenOf(e) \in Tokens
  BY DEF TokenOf, Tokens, SubscriberRows
<1>1. ASSUME NEW e \in Emails, SubscribeRead(e) PROVE IInv'
  <2>1. TypeOK'
    BY <1>1 DEF SubscribeRead, rowVars, adminVars, SubscriberRows
  <2>2. \A r \in Runs : OptOutInv(r)'
    BY <1>1 DEF SubscribeRead, rowVars, OptOutInv
  <2> QED
    BY <1>1, <2>1, <2>2, LoopsUntouched DEF SubscribeRead, rowVars
<1>2. ASSUME NEW e \in Emails, UnsubscribeRead(TokenOf(e)) PROVE IInv'
  <2>1. TypeOK'
    BY <1>2, <1>t DEF UnsubscribeRead, rowVars, adminVars
  <2>2. \A r \in Runs : OptOutInv(r)'
    BY <1>2 DEF UnsubscribeRead, rowVars, OptOutInv
  <2> QED
    BY <1>2, <2>1, <2>2, LoopsUntouched DEF UnsubscribeRead, rowVars
<1>3. ASSUME NEW e \in Emails, DeleteSubscriber(e) PROVE IInv'
  <2>1. TypeOK'
    BY <1>3 DEF DeleteSubscriber, publicVars, adminVars, SubscriberRows
  <2>2. \A r \in Runs : OptOutInv(r)'
    BY <1>3 DEF DeleteSubscriber, OptOutInv, SubscriberRows
  <2> QED
    BY <1>3, <2>1, <2>2, LoopsUntouched DEF DeleteSubscriber
<1>4. ASSUME NEW q \in subscribing, SubscribeCreate(q) PROVE IInv'
  <2>1. TypeOK'
    BY <1>4 DEF SubscribeCreate, Without, adminVars, SubscriberRows
  <2>2. \A r \in Runs : OptOutInv(r)'
    BY <1>4 DEF SubscribeCreate, OptOutInv, SubscriberRows
  <2> QED
    BY <1>4, <2>1, <2>2, LoopsUntouched DEF SubscribeCreate
<1>5. ASSUME NEW q \in subscribing, SubscribeUpdate(q) PROVE IInv'
  <2>1. TypeOK'
    BY <1>5 DEF SubscribeUpdate, Confirm, Without, adminVars, SubscriberRows
  <2>2. \A r \in Runs : OptOutInv(r)'
    BY <1>5 DEF SubscribeUpdate, Confirm, OptOutInv, SubscriberRows
  <2> QED
    BY <1>5, <2>1, <2>2, LoopsUntouched DEF SubscribeUpdate
<1>6. ASSUME NEW t \in unsubscribing, UnsubscribeWrite(t) PROVE IInv'
  <2>1. TypeOK'
    BY <1>6 DEF UnsubscribeWrite, Without, adminVars, SubscriberRows, Tokens
  <2>2. \A r \in Runs : OptOutInv(r)'
    BY <1>6 DEF UnsubscribeWrite, OptOutInv, SubscriberRows, Tokens
  <2> QED
    BY <1>6, <2>1, <2>2, LoopsUntouched DEF UnsubscribeWrite
<1> QED
  BY <1>1, <1>2, <1>3, <1>4, <1>5, <1>6 DEF ListNext

\* The steps of the campaign rows, other than send().
LEMMA CampaignStep == ASSUME IInv, CampaignNext PROVE IInv'
<1> USE DEF IInv
<1> DEFINE SameLoops == UNCHANGED <<subscriber, run, faults, optedOut>>
<1>1. ASSUME SameLoops PROVE \A r \in Runs : SnapshotInv(r)' /\ OptOutInv(r)'
  BY <1>1 DEF SnapshotInv, OptOutInv
<1>2. ASSUME SameLoops,
             \A d \in Campaigns : campaign'[d].status \in {"SENDING", "SENT"}
                => campaign'[d].status = campaign[d].status
      PROVE  (\A d \in Campaigns : SentInv(d)') /\ StuckOnlyAfterFault'
  BY <1>2 DEF SentInv, StuckOnlyAfterFault, RunsOf
<1>3. ASSUME NEW c \in Campaigns, CreateCampaign(c) PROVE IInv'
  BY <1>3, <1>1, <1>2 DEF CreateCampaign, publicVars, adminVars, TypeOK, CampaignRows
<1>4. ASSUME NEW c \in Campaigns, UpdateCheck(c) PROVE IInv'
  BY <1>4, <1>1, <1>2 DEF UpdateCheck, rowVars, publicVars, TypeOK
<1>5. ASSUME NEW c \in Campaigns, UpdateWrite(c) PROVE IInv'
  BY <1>5, <1>1, <1>2 DEF UpdateWrite, Without, publicVars, TypeOK, CampaignRows
<1>6. ASSUME NEW c \in Campaigns, DeleteCheck(c) PROVE IInv'
  BY <1>6, <1>1, <1>2 DEF DeleteCheck, rowVars, publicVars, TypeOK
<1>7. ASSUME NEW c \in Campaigns, DeleteWrite(c) PROVE IInv'
  BY <1>7, <1>1, <1>2 DEF DeleteWrite, Without, publicVars, TypeOK, CampaignRows
<1> QED
  BY <1>3, <1>4, <1>5, <1>6, <1>7 DEF CampaignNext

-------------------------------------------------------------------------------
(* The steps of the loops *)

LEMMA CampaignOfRun == ASSUME NEW r \in Runs PROVE CampaignOf(r) \in Campaigns
BY DEF Runs, CampaignOf

\* What a step of one loop has to keep: the loops of the others are as they were.
LEMMA OneLoop ==
  ASSUME IInv, NEW r \in Runs, NEW new \in RunStates,
         run' = [run EXCEPT ![r] = new], UNCHANGED <<subscriber, optedOut>>,
         SnapshotInv(r)', OptOutInv(r)'
  PROVE  \A s \in Runs : SnapshotInv(s)' /\ OptOutInv(s)'
<1> SUFFICES ASSUME NEW s \in Runs, s # r PROVE SnapshotInv(s)' /\ OptOutInv(s)'
  OBVIOUS
<1>1. run'[s] = run[s]
  BY DEF IInv, TypeOK
<1>2. SnapshotInv(s) /\ OptOutInv(s)
  BY DEF IInv
<1>3. SnapshotInv(s)'
  BY <1>1, <1>2 DEF SnapshotInv, EmailsOf
<1>4. OptOutInv(s)'
  BY <1>1, <1>2 DEF OptOutInv, EmailsOf
<1> QED
  BY <1>3, <1>4

LEMMA ConfirmedFinite == TypeOK => IsFiniteSet(Confirmed) /\ Confirmed \subseteq Tokens
<1> SUFFICES ASSUME TypeOK PROVE IsFiniteSet(Confirmed) /\ Confirmed \subseteq Tokens
  OBVIOUS
<1> DEFINE f == [e \in Emails |-> TokenOf(e)]
           T == {TokenOf(e) : e \in Emails}
<1>1. f \in Surjection(Emails, T)
  BY DEF Surjection
<1>2. IsFiniteSet(T)
  BY <1>1, EmailsAssumption, FS_Surjection
<1>3. Confirmed \in SUBSET T
  BY DEF Confirmed
<1>4. T \subseteq Tokens
  BY DEF TypeOK, TokenOf, Tokens, SubscriberRows
<1> QED
  BY <1>2, <1>3, <1>4, FS_Subset

\* What a step of one loop keeps of the rows: only the loop that marked a row may
\* leave the batch loop, and it leaves a row that is not SENDING behind.
LEMMA LoopRows ==
  ASSUME IInv, NEW r \in Runs, NEW new \in RunStates,
         run' = [run EXCEPT ![r] = new], run[r].pc # "done", UNCHANGED faults,
         \A d \in Campaigns : d # CampaignOf(r) => campaign'[d] = campaign[d],
         campaign'[CampaignOf(r)].status = "SENT" =>
            new.pc = "done" \/ campaign[CampaignOf(r)].status = "SENT",
         campaign'[CampaignOf(r)].status = "SENDING" =>
            \/ new.pc = "sending"
            \/ campaign[CampaignOf(r)].status = "SENDING" /\ run[r].pc # "sending"
  PROVE  (\A d \in Campaigns : SentInv(d)') /\ StuckOnlyAfterFault'
<1>1. run'[r] = new /\ \A s \in Runs : s # r => run'[s] = run[s]
  BY DEF IInv, TypeOK
<1>2. ASSUME NEW d \in Campaigns PROVE SentInv(d)'
  BY <1>1, <1>2 DEF IInv, SentInv, RunsOf
<1>3. StuckOnlyAfterFault'
  BY <1>1 DEF IInv, StuckOnlyAfterFault, RunsOf
<1> QED
  BY <1>2, <1>3

LEMMA RunLoadStep == ASSUME IInv, NEW r \in Runs, RunLoad(r) PROVE IInv'
<1> DEFINE new == run'[r]
<1> USE DEF IInv, TypeOK
<1>c. CampaignOf(r) \in Campaigns
  BY CampaignOfRun
<1>s. run[r] \in RunStates
  OBVIOUS
<1>1. /\ new \in RunStates
      /\ run' = [run EXCEPT ![r] = new]
      /\ new.pc \in {"loaded", "gone"}
      /\ new.subscribers = run[r].subscribers /\ new.todo = run[r].todo
      /\ new.batch = run[r].batch /\ new.mailed = run[r].mailed
  <2>1. CASE Exists(CampaignOf(r))
    <3> DEFINE next == [run[r] EXCEPT !.pc = "loaded",
                                      !.content = campaign[CampaignOf(r)].content]
    <3>1. run' = [run EXCEPT ![r] = next]
      BY <2>1 DEF RunLoad
    <3>2. campaign[CampaignOf(r)].content \in Nat
      BY <1>c DEF CampaignRows
    <3>3. next \in RunStates
      BY <1>s, <3>2 DEF RunStates, RunPhases
    <3> QED
      BY <1>s, <3>1, <3>3 DEF RunStates
  <2>2. CASE ~Exists(CampaignOf(r))
    BY <2>2, <1>c, <1>s DEF RunLoad, RunStates, RunPhases, CampaignRows
  <2> QED
    BY <2>1, <2>2
<1>2. TypeOK'
  BY <1>1 DEF RunLoad, senderVars, publicVars, adminVars
<1>3. SnapshotInv(r)'
  BY <1>1 DEF RunLoad, SnapshotInv, EmailsOf
<1>4. OptOutInv(r)'
  BY <1>1 DEF RunLoad, senderVars, OptOutInv, EmailsOf
<1> QED
  BY <1>1, <1>2, <1>3, <1>4, OneLoop, LoopRows DEF RunLoad, senderVars

\* The snapshot: Confirmed holds one token for an address and no address that is
\* off the list.
LEMMA RunCountStep == ASSUME IInv, NEW r \in Runs, RunCount(r) PROVE IInv'
<1> USE DEF IInv, TypeOK
<1> DEFINE new == [run[r] EXCEPT !.pc = "counted", !.subscribers = Confirmed,
                                 !.todo = Confirmed]
<1>1. run' = [run EXCEPT ![r] = new]
  BY DEF RunCount
<1>2. IsFiniteSet(Confirmed) /\ Confirmed \subseteq Tokens
  BY ConfirmedFinite
<1>3. new \in RunStates /\ run'[r] = new
  BY <1>1, <1>2 DEF RunStates, RunPhases
<1>4. TypeOK'
  BY <1>1, <1>3 DEF RunCount, senderVars, publicVars, adminVars
<1>5. SnapshotInv(r)'
  <2>1. \A t, u \in Confirmed : t.email = u.email => t = u
    BY DEF Confirmed, TokenOf
  <2>2. \A e \in Emails : run[r].mailed[e] = 0
    BY DEF RunCount, SnapshotInv, EmailsOf
  <2>3. run[r].batch \subseteq Confirmed
    BY DEF RunCount, SnapshotInv
  <2> QED
    BY <1>2, <1>3, <2>1, <2>2, <2>3 DEF SnapshotInv, EmailsOf, RunStates
<1>6. OptOutInv(r)'
  <2>1. \A e \in optedOut[r] : e \notin EmailsOf(Confirmed)
    BY DEF OptOutInv, EmailsOf, Confirmed, TokenOf
  <2> QED
    BY <1>3, <2>1 DEF OptOutInv, RunCount, senderVars, RunStates
<1> QED
  BY <1>1, <1>3, <1>4, <1>5, <1>6, OneLoop, LoopRows DEF RunCount, senderVars, RunStates

\* A batch takes addresses that no earlier batch took.
LEMMA RunBatchStep == ASSUME IInv, NEW r \in Runs, RunBatch(r) PROVE IInv'
<1> USE DEF IInv, TypeOK
<1>1. PICK b \in SUBSET run[r].todo :
        PostBatch(r, b, run[r].todo \ b, run[r].sent + Cardinality(b))
  BY DEF RunBatch, NextBatches
<1> DEFINE S == run[r].subscribers
           todo == run[r].todo
           mailed == MailedWith(r, b)
           new == [run[r] EXCEPT !.batch = b, !.todo = todo \ b, !.unsaved = TRUE,
                                 !.sent = run[r].sent + Cardinality(b), !.mailed = mailed]
<1>2. /\ IsFiniteSet(S) /\ todo \subseteq S /\ run[r].pc = "sending"
      /\ \A t, u \in S : t.email = u.email => t = u
      /\ \A e \in Emails : run[r].mailed[e] = IF e \in EmailsOf(S \ todo) THEN 1 ELSE 0
  BY DEF SnapshotInv, RunBatch, AtBatch
<1>3. Cardinality(b) \in Nat
  BY <1>2, FS_Subset, FS_CardinalityType
<1>4. run[r] \in RunStates
  OBVIOUS
<1>5. mailed \in [Emails -> Nat]
  BY <1>4 DEF RunStates, MailedWith
<1>6. new \in RunStates
  <2>1. b \subseteq Tokens /\ todo \ b \subseteq Tokens
    BY <1>4 DEF RunStates
  <2>2. run[r].sent + Cardinality(b) \in Nat
    BY <1>3, <1>4 DEF RunStates
  <2> QED
    BY <1>4, <1>5, <2>1, <2>2 DEF RunStates
<1>7. run' = [run EXCEPT ![r] = new] /\ run'[r] = new
  <2>1. run' = [run EXCEPT ![r] = new]
    BY <1>1 DEF PostBatch
  <2> QED
    BY <2>1
<1>8. \A e \in Emails : mailed[e] = IF e \in EmailsOf(S \ (todo \ b)) THEN 1 ELSE 0
  <2> SUFFICES ASSUME NEW e \in Emails
               PROVE  mailed[e] = IF e \in EmailsOf(S \ (todo \ b)) THEN 1 ELSE 0
    OBVIOUS
  <2>1. e \in EmailsOf(S \ (todo \ b)) <=> e \in EmailsOf(S \ todo) \/ e \in EmailsOf(b)
    BY <1>2 DEF EmailsOf
  <2>2. ~(e \in EmailsOf(S \ todo) /\ e \in EmailsOf(b))
    BY <1>2 DEF EmailsOf
  <2> QED
    BY <1>2, <2>1, <2>2 DEF MailedWith
<1>9. SnapshotInv(r)'
  BY <1>2, <1>4, <1>7, <1>8 DEF SnapshotInv, RunStates
<1>10. OptOutInv(r)'
  BY <1>1, <1>4, <1>7 DEF OptOutInv, RunStates, PostBatch, senderVars
<1>11. TypeOK'
  BY <1>1, <1>6, <1>7 DEF PostBatch, senderVars, publicVars, adminVars
<1> QED
  <2>1. \A s \in Runs : SnapshotInv(s)' /\ OptOutInv(s)'
    BY <1>1, <1>6, <1>7, <1>9, <1>10, OneLoop DEF PostBatch, senderVars
  <2>2. new.pc = "sending" /\ run[r].pc = "sending"
    BY <1>2, <1>4, <1>6, <1>7 DEF RunBatch, RunStates
  <2>3. (\A d \in Campaigns : SentInv(d)') /\ StuckOnlyAfterFault'
    BY <1>1, <1>2, <1>4, <1>6, <1>7, <2>2, LoopRows DEF PostBatch, senderVars
  <2> QED
    BY <1>11, <2>1, <2>3

LEMMA RunSettleStep ==
  ASSUME IInv, NEW r \in Runs, NEW t \in run[r].batch, RunSettle(r, t) PROVE IInv'
<1> USE DEF IInv, TypeOK
<1> DEFINE new == [run[r] EXCEPT !.batch = run[r].batch \ {t}]
<1>1. run[r] \in RunStates /\ new \in RunStates
  BY DEF RunStates
<1>2. run' = [run EXCEPT ![r] = new] /\ run'[r] = new
  BY <1>1 DEF RunSettle, RunStates
<1>3. SnapshotInv(r)'
  BY <1>1, <1>2 DEF SnapshotInv, RunStates
<1>4. OptOutInv(r)'
  BY <1>1, <1>2 DEF OptOutInv, RunStates, RunSettle, senderVars
<1>5. TypeOK'
  BY <1>1, <1>2 DEF RunSettle, senderVars, publicVars, adminVars
<1> QED
  <2>1. \A s \in Runs : SnapshotInv(s)' /\ OptOutInv(s)'
    BY <1>1, <1>2, <1>3, <1>4, OneLoop DEF RunSettle, senderVars
  <2>2. new.pc = "sending" /\ run[r].pc = "sending"
    BY <1>1, <1>2 DEF RunSettle, RunStates
  <2>3. (\A d \in Campaigns : SentInv(d)') /\ StuckOnlyAfterFault'
    BY <1>1, <1>2, <2>2, LoopRows DEF RunSettle, senderVars
  <2> QED
    BY <1>5, <2>1, <2>3

\* The loop updates its row, or throws because the row is gone.  What is left to
\* show for each use is that the new row and the new loop agree.
LEMMA UpdateRowStep ==
  ASSUME IInv, NEW r \in Runs, NEW row \in CampaignRows, NEW next \in RunStates,
         run[r].pc \in {"counted", "sending"},
         UpdateRow(r, row, next), UNCHANGED senderVars,
         next.subscribers = run[r].subscribers, next.todo = run[r].todo,
         next.batch = run[r].batch, next.mailed = run[r].mailed,
         next.pc \in {"sending", "done"},
         next.pc = "done" => run[r].todo = {},
         row.status = "SENT" => next.pc = "done" \/ campaign[CampaignOf(r)].status = "SENT",
         row.status = "SENDING" => next.pc = "sending"
  PROVE  IInv'
<1> USE DEF IInv, TypeOK
<1> DEFINE c == CampaignOf(r)
           failed == [run[r] EXCEPT !.pc = "failed"]
           new == IF Exists(c) THEN next ELSE failed
<1>1. c \in Campaigns /\ run[r] \in RunStates
  BY CampaignOfRun
<1>2. /\ new \in RunStates
      /\ new.subscribers = run[r].subscribers /\ new.todo = run[r].todo
      /\ new.batch = run[r].batch /\ new.mailed = run[r].mailed
      /\ Exists(c) => new = next
      /\ ~Exists(c) => new.pc = "failed"
  BY <1>1 DEF RunStates, RunPhases
<1>3. run' = [run EXCEPT ![r] = new] /\ run'[r] = new
  BY <1>1 DEF UpdateRow, RunStates
<1>4. campaign' = IF Exists(c) THEN [campaign EXCEPT ![c] = row] ELSE campaign
  BY DEF UpdateRow
<1>5. TypeOK'
  BY <1>2, <1>3, <1>4 DEF senderVars, publicVars, adminVars
<1> HIDE DEF new
<1>6. SnapshotInv(r)'
  BY <1>2, <1>3 DEF SnapshotInv
<1>7. OptOutInv(r)'
  BY <1>2, <1>3 DEF OptOutInv, senderVars
<1>8. \A s \in Runs : SnapshotInv(s)' /\ OptOutInv(s)'
  BY <1>2, <1>3, <1>6, <1>7, OneLoop DEF senderVars
<1>9. /\ \A d \in Campaigns : d # c => campaign'[d] = campaign[d]
      /\ campaign'[c].status = "SENT" => new.pc = "done" \/ campaign[c].status = "SENT"
      /\ campaign'[c].status = "SENDING" => new.pc = "sending"
  BY <1>1, <1>2, <1>4 DEF Exists
<1>10. (\A d \in Campaigns : SentInv(d)') /\ StuckOnlyAfterFault'
  <2>1. UNCHANGED faults /\ run[r].pc # "done"
    BY DEF senderVars
  <2> HIDE DEF IInv, TypeOK
  <2> QED
    BY <1>2, <1>3, <1>9, <2>1, LoopRows
<1> QED
  BY <1>5, <1>8, <1>10

LEMMA RunMarkStep == ASSUME IInv, NEW r \in Runs, RunMark(r) PROVE IInv'
<1> DEFINE row == [campaign[CampaignOf(r)] EXCEPT
                        !.status = "SENDING",
                        !.recipient_count = Cardinality(run[r].subscribers),
                        !.sent_count = 0]
           next == [run[r] EXCEPT !.pc = "sending"]
<1>1. Cardinality(run[r].subscribers) \in Nat
  BY FS_CardinalityType DEF IInv, SnapshotInv
<1>2. campaign[CampaignOf(r)] \in CampaignRows /\ run[r] \in RunStates
  BY CampaignOfRun DEF IInv, TypeOK
<1>3. row \in CampaignRows /\ row.status = "SENDING"
  BY <1>1, <1>2 DEF CampaignRows
<1>4. /\ next \in RunStates /\ next.pc = "sending"
      /\ next.subscribers = run[r].subscribers /\ next.todo = run[r].todo
      /\ next.batch = run[r].batch /\ next.mailed = run[r].mailed
  BY <1>2 DEF RunStates, RunPhases
<1>5. UpdateRow(r, row, next) /\ run[r].pc = "counted" /\ UNCHANGED senderVars
  BY DEF RunMark
<1> HIDE DEF row, next
<1> QED
  BY <1>3, <1>4, <1>5, UpdateRowStep

LEMMA RunSaveStep == ASSUME IInv, NEW r \in Runs, RunSave(r) PROVE IInv'
<1> DEFINE row == [campaign[CampaignOf(r)] EXCEPT !.sent_count = run[r].sent]
           next == [run[r] EXCEPT !.unsaved = FALSE]
<1>1. campaign[CampaignOf(r)] \in CampaignRows /\ run[r] \in RunStates
  BY CampaignOfRun DEF IInv, TypeOK
<1>2. row \in CampaignRows /\ row.status = campaign[CampaignOf(r)].status
  BY <1>1 DEF CampaignRows, RunStates
<1>3. /\ next \in RunStates /\ next.pc = run[r].pc
      /\ next.subscribers = run[r].subscribers /\ next.todo = run[r].todo
      /\ next.batch = run[r].batch /\ next.mailed = run[r].mailed
  BY <1>1 DEF RunStates
<1>4. UpdateRow(r, row, next) /\ run[r].pc = "sending" /\ UNCHANGED senderVars
  BY DEF RunSave
<1> HIDE DEF row, next
<1> QED
  BY <1>2, <1>3, <1>4, UpdateRowStep

LEMMA RunFinishStep == ASSUME IInv, NEW r \in Runs, RunFinish(r) PROVE IInv'
<1> DEFINE row == [campaign[CampaignOf(r)] EXCEPT !.status = "SENT"]
           next == [run[r] EXCEPT !.pc = "done"]
<1>1. campaign[CampaignOf(r)] \in CampaignRows /\ run[r] \in RunStates
  BY CampaignOfRun DEF IInv, TypeOK
<1>2. row \in CampaignRows /\ row.status = "SENT"
  BY <1>1 DEF CampaignRows
<1>3. /\ next \in RunStates /\ next.pc = "done"
      /\ next.subscribers = run[r].subscribers /\ next.todo = run[r].todo
      /\ next.batch = run[r].batch /\ next.mailed = run[r].mailed
  BY <1>1 DEF RunStates, RunPhases
<1>4. /\ UpdateRow(r, row, next) /\ UNCHANGED senderVars
      /\ run[r].pc = "sending" /\ run[r].todo = {}
  BY DEF RunFinish, AtBatch
<1> HIDE DEF row, next
<1> QED
  BY <1>2, <1>3, <1>4, UpdateRowStep

-------------------------------------------------------------------------------
(* Accepting a send, and the faults *)

LEMMA SendStep == ASSUME IInv, NEW r \in Runs, Send(r) PROVE IInv'
<1> USE DEF IInv, TypeOK
<1> DEFINE new == [run[r] EXCEPT !.pc = "accepted"]
<1>1. run[r] \in RunStates /\ new \in RunStates
  BY DEF RunStates, RunPhases
<1>2. run' = [run EXCEPT ![r] = new] /\ run'[r] = new
  BY <1>1 DEF Send, RunStates
<1>3. TypeOK'
  BY <1>1, <1>2 DEF Send, rowVars, publicVars, adminVars
<1>4. ASSUME NEW s \in Runs PROVE SnapshotInv(s)' /\ OptOutInv(s)'
  <2>1. CASE s = r
    <3>a. /\ run'[r].subscribers = run[r].subscribers /\ run'[r].todo = run[r].todo
          /\ run'[r].batch = run[r].batch /\ run'[r].mailed = run[r].mailed
          /\ run'[r].pc = "accepted" /\ run[r].pc = "idle"
      BY <1>1, <1>2 DEF Send, RunStates
    <3>b. SnapshotInv(r)
      OBVIOUS
    <3>1. SnapshotInv(r)'
      BY ONLY <3>a, <3>b DEF SnapshotInv
    <3>2. run'[r].subscribers = {}
      BY ONLY <3>a, <3>b DEF SnapshotInv
    <3>3. OptOutInv(r)'
      BY <3>2 DEF OptOutInv, Send, rowVars, EmailsOf
    <3> QED
      BY <2>1, <3>1, <3>3
  <2>2. CASE s # r
    <3>1. run'[s] = run[s] /\ optedOut'[s] = optedOut[s] /\ UNCHANGED subscriber
      BY <2>2, <1>2 DEF Send, rowVars
    <3> QED
      BY <3>1 DEF SnapshotInv, OptOutInv
  <2> QED
    BY <2>1, <2>2
<1>5. (\A d \in Campaigns : SentInv(d)') /\ StuckOnlyAfterFault'
  BY <1>1, <1>2, LoopRows DEF Send, rowVars, RunStates
<1> QED
  BY <1>3, <1>4, <1>5

\* Any set of loops under way may fail together.
LEMMA LoopsFail ==
  ASSUME IInv, NEW D \in SUBSET Runs, \A r \in D : run[r].pc \in Live,
         run' = [r \in Runs |-> IF r \in D THEN [run[r] EXCEPT !.pc = "failed"] ELSE run[r]],
         faults' = faults + 1, UNCHANGED <<rowVars, optedOut>>,
         subscribing' \subseteq subscribing, unsubscribing' \subseteq unsubscribing,
         editing' \subseteq editing, deleting' \subseteq deleting
  PROVE  IInv'
<1> USE DEF IInv, TypeOK
<1>1. ASSUME NEW r \in Runs
      PROVE  /\ run'[r] \in RunStates
             /\ run'[r].subscribers = run[r].subscribers /\ run'[r].todo = run[r].todo
             /\ run'[r].batch = run[r].batch /\ run'[r].mailed = run[r].mailed
             /\ run'[r].pc \in {run[r].pc, "failed"}
             /\ run[r].pc = "done" => run'[r].pc = "done"
  <2>1. run[r] \in RunStates /\ [run[r] EXCEPT !.pc = "failed"] \in RunStates
    BY DEF RunStates, RunPhases
  <2> QED
    BY <2>1 DEF RunStates, Live
<1>2. TypeOK'
  BY <1>1 DEF rowVars
<1>3. ASSUME NEW r \in Runs PROVE SnapshotInv(r)' /\ OptOutInv(r)'
  <2>1. SnapshotInv(r)'
    <3>1. SnapshotInv(r)
      OBVIOUS
    <3> QED
      BY ONLY <1>1, <3>1 DEF SnapshotInv
  <2>2. OptOutInv(r)'
    BY <1>1 DEF OptOutInv, rowVars
  <2> QED
    BY <2>1, <2>2
<1>4. \A d \in Campaigns : SentInv(d)'
  BY <1>1 DEF SentInv, RunsOf, rowVars
<1>5. StuckOnlyAfterFault'
  BY DEF StuckOnlyAfterFault
<1> QED
  BY <1>2, <1>3, <1>4, <1>5

LEMMA FaultStep == ASSUME IInv
                   PROVE  /\ \A r \in Runs : RunError(r) => IInv'
                          /\ Restart => IInv'
<1>1. ASSUME NEW r \in Runs, RunError(r) PROVE IInv'
  <2>1. run' = [s \in Runs |-> IF s \in {r} THEN [run[s] EXCEPT !.pc = "failed"] ELSE run[s]]
    BY <1>1 DEF RunError, IInv, TypeOK
  <2> QED
    BY <1>1, <2>1, LoopsFail DEF RunError, publicVars, adminVars
<1>2. ASSUME Restart PROVE IInv'
  <2> DEFINE D == {r \in Runs : run[r].pc \in Live}
  <2>1. run' = [r \in Runs |-> IF r \in D THEN [run[r] EXCEPT !.pc = "failed"] ELSE run[r]]
    BY <1>2 DEF Restart
  <2> QED
    BY <1>2, <2>1, LoopsFail DEF Restart
<1> QED
  BY <1>1, <1>2

-------------------------------------------------------------------------------
(* The theorems *)

LEMMA StepIInv == IInv /\ [Next]_vars => IInv'
<1> SUFFICES ASSUME IInv, [Next]_vars PROVE IInv'
  OBVIOUS
<1>1. CASE ListNext
  BY <1>1, ListStep
<1>2. CASE CampaignNext
  BY <1>2, CampaignStep
<1>3. CASE SendNext
  BY <1>3, SendStep, RunLoadStep, RunCountStep, RunMarkStep, RunBatchStep, RunSettleStep,
     RunSaveStep, RunFinishStep, FaultStep DEF SendNext, RunStep
<1>4. CASE Restart
  BY <1>4, FaultStep
<1>5. CASE UNCHANGED vars
  BY <1>5, LoopsUntouched DEF vars, IInv, TypeOK, OptOutInv
<1> QED
  BY <1>1, <1>2, <1>3, <1>4, <1>5 DEF Next

\* The inductive invariant holds in every reachable state.
THEOREM Invariance == Spec => []IInv
BY InitIInv, StepIInv, PTL DEF Spec

\* Every variable keeps its type.
THEOREM TypeCorrect == Spec => []TypeOK
<1>1. IInv => TypeOK
  BY DEF IInv
<1> QED
  BY <1>1, Invariance, PTL

\* A send mails nobody who was off the list when it was accepted and has not
\* subscribed again.
THEOREM OptOutsRespected == Spec => []RespectsOptOut
<1>1. IInv => RespectsOptOut
  BY DEF IInv, TypeOK, RespectsOptOut, OptOutInv, SnapshotInv, EmailsOf
<1> QED
  BY <1>1, Invariance, PTL

\* A campaign marked SENT was mailed to its whole snapshot, once.
THEOREM SentIsCompleted == Spec => []SentMeansCompleted
<1>1. IInv => SentMeansCompleted
  BY DEF IInv, SentMeansCompleted, SentInv, SnapshotInv, RunsOf, EmailsOf
<1> QED
  BY <1>1, Invariance, PTL

\* Without a fault a SENDING row has its loop.
THEOREM NeverStrandedByRequests == Spec => []StuckOnlyAfterFault
<1>1. IInv => StuckOnlyAfterFault
  BY DEF IInv
<1> QED
  BY <1>1, Invariance, PTL

-------------------------------------------------------------------------------
(* Progress *)

Busy == {r \in Runs : run[r].pc # "idle"}

\* What a loop has counted is what has left its todo.
CountInv(r) ==
    /\ run[r].sent = Cardinality(run[r].subscribers \ run[r].todo)
    /\ run[r].pc = "counted" => run[r].todo = run[r].subscribers

Alone(r) == \A s \in RunsOf(CampaignOf(r)) : s # r => run[s].pc = "idle"

\* The row of a campaign that was sent by loop r only.
RowInv(r) ==
    LET row == campaign[CampaignOf(r)] IN
    /\ row.sent_count <= row.recipient_count
    /\ row.status = "SENT" => run[r].pc = "done"
    /\ run[r].pc \in {"idle", "accepted", "loaded", "counted", "gone"} => row.recipient_count = 0
    /\ run[r].pc = "sending" =>
            /\ row.recipient_count = Cardinality(run[r].subscribers)
            /\ row.sent_count <= run[r].sent
            /\ ~run[r].unsaved => row.sent_count = run[r].sent
    /\ run[r].pc = "done" => row.sent_count = row.recipient_count

\* Somebody counted what the row of campaign c shows.
ShownInv(c) ==
    campaign[c].sent_count > 0 => \E r \in RunsOf(c) : campaign[c].sent_count <= run[r].sent

ProgressInv ==
    /\ IsFiniteSet(Busy)
    /\ \A r \in Runs : CountInv(r)
    /\ \A r \in Runs : Alone(r) => RowInv(r)
    /\ \A c \in Campaigns : ShownInv(c)

\* A loop has handed over as many messages as it has counted.
LEMMA CopiesAreCounted ==
  ASSUME TypeOK, NEW r \in Runs, SnapshotInv(r), CountInv(r)
  PROVE  Cardinality({e \in Emails : run[r].mailed[e] > 0}) = run[r].sent
<1> DEFINE S == run[r].subscribers
           T == S \ run[r].todo
           f == [t \in T |-> t.email]
<1>1. run[r] \in RunStates /\ T \subseteq Tokens
  BY DEF TypeOK, RunStates
<1>2. {e \in Emails : run[r].mailed[e] > 0} = EmailsOf(T)
  BY <1>1 DEF SnapshotInv, EmailsOf, Tokens
<1>3. f \in Bijection(T, EmailsOf(T))
  <2>1. f \in Injection(T, EmailsOf(T))
    BY DEF SnapshotInv, EmailsOf, Injection, IsInjective
  <2>2. f \in Surjection(T, EmailsOf(T))
    BY DEF EmailsOf, Surjection
  <2> QED
    BY <2>1, <2>2 DEF Bijection
<1>4. IsFiniteSet(T)
  BY FS_Subset DEF SnapshotInv
<1>5. Cardinality(EmailsOf(T)) = Cardinality(T)
  <2>1. ExistsBijection(T, EmailsOf(T))
    BY <1>3 DEF ExistsBijection
  <2> HIDE DEF T
  <2> QED
    BY <1>4, <2>1, FS_Bijection
<1> QED
  BY <1>2, <1>5 DEF CountInv

LEMMA ProgressInvSays ==
  ASSUME IInv, ProgressInv PROVE ProgressIsHonest
<1> SUFFICES ASSUME NEW c \in Campaigns, Exists(c)
             PROVE  /\ campaign[c].sent_count > 0 => \E r \in RunsOf(c) :
                            campaign[c].sent_count <= Cardinality({e \in Emails : run[r].mailed[e] > 0})
                    /\ Cardinality({r \in RunsOf(c) : run[r].pc # "idle"}) = 1 =>
                            /\ campaign[c].sent_count <= campaign[c].recipient_count
                            /\ campaign[c].status = "SENT"
                                    => campaign[c].sent_count = campaign[c].recipient_count
  BY DEF ProgressIsHonest
<1>1. ASSUME campaign[c].sent_count > 0
      PROVE  \E r \in RunsOf(c) :
                campaign[c].sent_count <= Cardinality({e \in Emails : run[r].mailed[e] > 0})
  <2>1. PICK r \in RunsOf(c) : campaign[c].sent_count <= run[r].sent
    BY <1>1 DEF ProgressInv, ShownInv
  <2>2. r \in Runs
    BY DEF RunsOf
  <2>3. Cardinality({e \in Emails : run[r].mailed[e] > 0}) = run[r].sent
    BY <2>2, CopiesAreCounted DEF IInv, ProgressInv
  <2> QED
    BY <2>1, <2>3
<1>2. ASSUME Cardinality({r \in RunsOf(c) : run[r].pc # "idle"}) = 1
      PROVE  \E r \in Runs : c = CampaignOf(r) /\ RowInv(r)
  <2> DEFINE busy == {r \in RunsOf(c) : run[r].pc # "idle"}
  <2>1. busy \in SUBSET Busy
    BY DEF Busy, RunsOf
  <2>2. IsFiniteSet(busy)
    BY <2>1, FS_Subset DEF ProgressInv
  <2>3. PICK r : busy = {r}
    BY <1>2, <2>2, FS_Singleton
  <2>4. r \in Runs /\ CampaignOf(r) = c /\ Alone(r)
    BY <2>3 DEF RunsOf, Alone
  <2> QED
    BY <2>4 DEF ProgressInv
<1> QED
  BY <1>1, <1>2 DEF RowInv

LEMMA ProgressInit ==
  ASSUME Init PROVE ProgressInv
<1>1. Busy = {}
  BY DEF Init, Busy, IdleRun
<1>2. \A r \in Runs : CountInv(r)
  BY FS_EmptySet DEF Init, CountInv, IdleRun
<1>3. \A r \in Runs : RowInv(r)
  BY CampaignOfRun DEF Init, RowInv, IdleRun
<1>4. \A c \in Campaigns : ShownInv(c)
  BY DEF Init, ShownInv
<1> QED
  BY <1>1, <1>2, <1>3, <1>4, FS_EmptySet DEF ProgressInv

\* A step that leaves the loops alone, and counts and SENT in the rows.
LEMMA ProgressKept ==
  ASSUME ProgressInv, run' = run,
         \A d \in Campaigns : /\ campaign'[d].sent_count = campaign[d].sent_count
                              /\ campaign'[d].recipient_count = campaign[d].recipient_count
                              /\ campaign'[d].status = "SENT" => campaign[d].status = "SENT"
  PROVE  ProgressInv'
<1>1. Busy' = Busy /\ \A r \in Runs : CountInv(r)' /\ (Alone(r)' <=> Alone(r))
  BY DEF Busy, CountInv, Alone, ProgressInv, RunsOf
<1>2. ASSUME NEW r \in Runs, Alone(r) PROVE RowInv(r)'
  BY <1>2, CampaignOfRun DEF RowInv, ProgressInv
<1>3. \A c \in Campaigns : ShownInv(c)'
  BY DEF ShownInv, ProgressInv, RunsOf
<1> QED
  BY <1>1, <1>2, <1>3 DEF ProgressInv

\* A step of loop r is to keep what is said of r and of its row.
LEMMA OneLoopCounts ==
  ASSUME IInv, ProgressInv, NEW r \in Runs, NEW new \in RunStates,
         run' = [run EXCEPT ![r] = new], new.pc # "idle", run[r].sent <= new.sent,
         \A d \in Campaigns : d # CampaignOf(r) => campaign'[d] = campaign[d],
         campaign'[CampaignOf(r)].sent_count \in
            {0, new.sent, campaign[CampaignOf(r)].sent_count},
         CountInv(r)', Alone(r) => RowInv(r)'
  PROVE  ProgressInv'
<1>0. /\ CampaignOf(r) \in Campaigns /\ run \in [Runs -> RunStates]
      /\ campaign \in [Campaigns -> CampaignRows]
  BY CampaignOfRun DEF IInv, TypeOK
<1>1. run'[r] = new /\ \A s \in Runs : s # r => run'[s] = run[s]
  BY <1>0
<1>2. IsFiniteSet(Busy')
  <2>1. Busy' \in SUBSET (Busy \cup {r})
    BY <1>1 DEF Busy
  <2>2. IsFiniteSet(Busy \cup {r})
    BY FS_AddElement DEF ProgressInv
  <2> QED
    BY <2>1, <2>2, FS_Subset
<1>3. \A s \in Runs : CountInv(s)'
  BY <1>1 DEF CountInv, ProgressInv
<1>4. ASSUME NEW s \in Runs, Alone(s)' PROVE RowInv(s)'
  <2>1. CASE s = r
    BY <1>1, <1>4, <2>1 DEF Alone, RunsOf
  <2>2. CASE s # r /\ CampaignOf(s) = CampaignOf(r)
    <3>1. r \in RunsOf(CampaignOf(s))
      BY <2>2 DEF RunsOf
    <3> QED
      BY <1>1, <1>4, <2>2, <3>1 DEF Alone
  <2>3. CASE CampaignOf(s) # CampaignOf(r)
    <3>1. s # r /\ CampaignOf(s) \in Campaigns
      BY <2>3, CampaignOfRun
    <3>2. Alone(s)
      BY <1>1, <1>4, <2>3 DEF Alone, RunsOf
    <3>3. RowInv(s)
      BY <3>2 DEF ProgressInv
    <3>4. campaign'[CampaignOf(s)] = campaign[CampaignOf(s)] /\ run'[s] = run[s]
      BY <1>1, <2>3, <3>1
    <3> QED
      BY <3>3, <3>4 DEF RowInv
  <2> QED
    BY <2>1, <2>2, <2>3
<1>5. ASSUME NEW c \in Campaigns PROVE ShownInv(c)'
  <2> SUFFICES ASSUME campaign'[c].sent_count > 0
               PROVE  \E s \in RunsOf(c) : campaign'[c].sent_count <= run'[s].sent
    BY DEF ShownInv, RunsOf
  <2>1. CASE campaign'[c].sent_count = campaign[c].sent_count
    <3>1. PICK s \in RunsOf(c) : campaign[c].sent_count <= run[s].sent
      BY <2>1 DEF ProgressInv, ShownInv
    <3>2. s \in Runs /\ campaign[c].sent_count \in Nat /\ run[s].sent \in Nat /\ new.sent \in Nat
          /\ run[r].sent \in Nat
      BY <1>0 DEF RunsOf, CampaignRows, RunStates
    <3>3. run[s].sent <= run'[s].sent /\ run'[s].sent \in Nat
      BY <1>1, <3>2
    <3>4. campaign'[c].sent_count <= run'[s].sent
      BY <2>1, <3>1, <3>2, <3>3
    <3> QED
      BY <3>4
  <2>2. CASE c = CampaignOf(r) /\ campaign'[c].sent_count = new.sent
    <3>1. r \in RunsOf(c) /\ new.sent \in Nat
      BY <2>2 DEF RunsOf, RunStates
    <3> QED
      BY <1>1, <2>2, <3>1
  <2> QED
    BY <2>1, <2>2
<1> QED
  BY <1>2, <1>3, <1>4, <1>5 DEF ProgressInv

\* Any set of loops under way may fail together.
LEMMA FailuresCount ==
  ASSUME IInv, ProgressInv, NEW D \in SUBSET Runs, \A r \in D : run[r].pc \in Live,
         run' = [r \in Runs |-> IF r \in D THEN [run[r] EXCEPT !.pc = "failed"] ELSE run[r]],
         campaign' = campaign
  PROVE  ProgressInv'
<1>1. ASSUME NEW r \in Runs
      PROVE  /\ run'[r].subscribers = run[r].subscribers /\ run'[r].todo = run[r].todo
             /\ run'[r].sent = run[r].sent /\ run'[r].unsaved = run[r].unsaved
             /\ run'[r].pc = run[r].pc \/ (run'[r].pc = "failed" /\ run[r].pc \in Live)
  <2>1. run[r] \in RunStates
    BY DEF IInv, TypeOK
  <2> QED
    BY <2>1 DEF RunStates
<1>2. Busy' = Busy
  BY <1>1 DEF Busy, Live
<1>3. ASSUME NEW r \in Runs PROVE CountInv(r)'
  <2>1. CountInv(r)
    BY DEF ProgressInv
  <2> QED
    BY <1>1, <2>1 DEF CountInv
<1>4. ASSUME NEW r \in Runs, Alone(r)' PROVE RowInv(r)'
  <2>1. Alone(r)
    BY <1>1, <1>4 DEF Alone, RunsOf, Live
  <2>2. RowInv(r)
    BY <2>1 DEF ProgressInv
  <2> QED
    BY <1>1, <2>2 DEF RowInv, Live
<1>5. \A c \in Campaigns : ShownInv(c)'
  BY <1>1 DEF ShownInv, ProgressInv, RunsOf
<1> QED
  BY <1>2, <1>3, <1>4, <1>5 DEF ProgressInv

\* The loop updates its row, or throws.
LEMMA UpdateRowCounts ==
  ASSUME IInv, ProgressInv, NEW r \in Runs, NEW row \in CampaignRows, NEW next \in RunStates,
         run[r].pc \in {"counted", "sending"}, UpdateRow(r, row, next),
         next.subscribers = run[r].subscribers, next.todo = run[r].todo, next.sent = run[r].sent,
         next.pc \in {"sending", "done"},
         row.sent_count \in {0, next.sent, campaign[CampaignOf(r)].sent_count},
         RowInv(r) =>
            /\ row.sent_count <= row.recipient_count
            /\ row.status = "SENT" => next.pc = "done"
            /\ next.pc = "sending" =>
                    /\ row.recipient_count = Cardinality(next.subscribers)
                    /\ row.sent_count <= next.sent
                    /\ ~next.unsaved => row.sent_count = next.sent
            /\ next.pc = "done" => row.sent_count = row.recipient_count
  PROVE  ProgressInv'
<1> DEFINE c == CampaignOf(r)
           failed == [run[r] EXCEPT !.pc = "failed"]
           new == IF Exists(c) THEN next ELSE failed
           now == IF Exists(c) THEN row ELSE campaign[c]
<1>1. c \in Campaigns /\ run[r] \in RunStates /\ campaign[c] \in CampaignRows
  BY CampaignOfRun DEF IInv, TypeOK
<1>2. /\ new \in RunStates /\ new.sent = run[r].sent
      /\ new.subscribers = run[r].subscribers /\ new.todo = run[r].todo
      /\ Exists(c) => new = next
      /\ ~Exists(c) => new.pc = "failed"
  BY <1>1 DEF RunStates, RunPhases
<1>3. run' = [run EXCEPT ![r] = new] /\ run'[r] = new
  BY <1>1 DEF UpdateRow, RunStates, IInv, TypeOK
<1>4. /\ campaign'[c] = now
      /\ \A d \in Campaigns : d # c => campaign'[d] = campaign[d]
  BY <1>1 DEF UpdateRow, IInv, TypeOK
<1> HIDE DEF new, failed
<1>5. new.pc \in {"sending", "done", "failed"}
  BY <1>2
<1>6. campaign'[c].sent_count \in {0, new.sent, campaign[c].sent_count}
  BY <1>2, <1>4
<1>7. CountInv(r)'
  <2>1. CountInv(r)
    BY DEF ProgressInv
  <2> QED
    BY <1>2, <1>3, <1>5, <2>1 DEF CountInv
<1>8. ASSUME Alone(r) PROVE RowInv(r)'
  <2>1. RowInv(r)
    BY <1>8 DEF ProgressInv
  <2>2. CASE Exists(c)
    BY <1>2, <1>3, <1>4, <2>1, <2>2 DEF RowInv
  <2>3. CASE ~Exists(c)
    BY <1>2, <1>3, <1>4, <2>1, <2>3 DEF RowInv, Exists
  <2> QED
    BY <2>2, <2>3
<1>9. run[r].sent <= new.sent
  BY <1>1, <1>2 DEF RunStates
<1> QED
  BY <1>2, <1>3, <1>4, <1>5, <1>6, <1>7, <1>8, <1>9, OneLoopCounts

LEMMA RunMarkCounts == ASSUME IInv, ProgressInv, NEW r \in Runs, RunMark(r) PROVE ProgressInv'
<1> DEFINE row == [campaign[CampaignOf(r)] EXCEPT
                        !.status = "SENDING",
                        !.recipient_count = Cardinality(run[r].subscribers),
                        !.sent_count = 0]
           next == [run[r] EXCEPT !.pc = "sending"]
<1>1. Cardinality(run[r].subscribers) \in Nat
  BY FS_CardinalityType DEF IInv, SnapshotInv
<1>2. campaign[CampaignOf(r)] \in CampaignRows /\ run[r] \in RunStates
  BY CampaignOfRun DEF IInv, TypeOK
<1>3. /\ row \in CampaignRows /\ row.status = "SENDING" /\ row.sent_count = 0
      /\ row.recipient_count = Cardinality(run[r].subscribers)
  BY <1>1, <1>2 DEF CampaignRows
<1>4. /\ next \in RunStates /\ next.pc = "sending" /\ next.sent = run[r].sent
      /\ next.subscribers = run[r].subscribers /\ next.todo = run[r].todo
  BY <1>2 DEF RunStates, RunPhases
<1>5. UpdateRow(r, row, next) /\ run[r].pc = "counted"
  BY DEF RunMark
<1>6. run[r].sent = 0
  <2>1. CountInv(r)
    BY DEF ProgressInv
  <2> QED
    BY <1>5, <2>1, FS_EmptySet DEF CountInv
<1> HIDE DEF row, next
<1> QED
  BY <1>1, <1>3, <1>4, <1>5, <1>6, UpdateRowCounts

LEMMA RunSaveCounts == ASSUME IInv, ProgressInv, NEW r \in Runs, RunSave(r) PROVE ProgressInv'
<1> DEFINE row == [campaign[CampaignOf(r)] EXCEPT !.sent_count = run[r].sent]
           next == [run[r] EXCEPT !.unsaved = FALSE]
<1>1. campaign[CampaignOf(r)] \in CampaignRows /\ run[r] \in RunStates
  BY CampaignOfRun DEF IInv, TypeOK
<1>2. /\ row \in CampaignRows /\ row.status = campaign[CampaignOf(r)].status
      /\ row.sent_count = run[r].sent
      /\ row.recipient_count = campaign[CampaignOf(r)].recipient_count
  BY <1>1 DEF CampaignRows, RunStates
<1>3. /\ next \in RunStates /\ next.pc = run[r].pc /\ next.sent = run[r].sent
      /\ next.subscribers = run[r].subscribers /\ next.todo = run[r].todo
  BY <1>1 DEF RunStates
<1>4. UpdateRow(r, row, next) /\ run[r].pc = "sending"
  BY DEF RunSave
<1>5. run[r].sent <= Cardinality(run[r].subscribers) /\ run[r].sent \in Nat
  <2>1. IsFiniteSet(run[r].subscribers)
        /\ run[r].subscribers \ run[r].todo \in SUBSET run[r].subscribers
    BY DEF IInv, SnapshotInv
  <2>2. Cardinality(run[r].subscribers \ run[r].todo) <= Cardinality(run[r].subscribers)
    BY <2>1, FS_Subset
  <2>3. CountInv(r)
    BY DEF ProgressInv
  <2> QED
    BY <1>1, <2>2, <2>3 DEF CountInv, RunStates
<1> HIDE DEF row, next
<1>6. RowInv(r) =>
            /\ row.sent_count <= row.recipient_count
            /\ row.status # "SENT"
            /\ row.recipient_count = Cardinality(next.subscribers)
            /\ row.sent_count <= next.sent
            /\ row.sent_count = next.sent
  BY <1>2, <1>3, <1>4, <1>5 DEF RowInv
<1> QED
  BY <1>2, <1>3, <1>4, <1>6, UpdateRowCounts

LEMMA RunFinishCounts == ASSUME IInv, ProgressInv, NEW r \in Runs, RunFinish(r) PROVE ProgressInv'
<1> DEFINE row == [campaign[CampaignOf(r)] EXCEPT !.status = "SENT"]
           next == [run[r] EXCEPT !.pc = "done"]
<1>1. campaign[CampaignOf(r)] \in CampaignRows /\ run[r] \in RunStates
  BY CampaignOfRun DEF IInv, TypeOK
<1>2. /\ row \in CampaignRows /\ row.status = "SENT"
      /\ row.sent_count = campaign[CampaignOf(r)].sent_count
      /\ row.recipient_count = campaign[CampaignOf(r)].recipient_count
  BY <1>1 DEF CampaignRows
<1>3. /\ next \in RunStates /\ next.pc = "done" /\ next.sent = run[r].sent
      /\ next.subscribers = run[r].subscribers /\ next.todo = run[r].todo
  BY <1>1 DEF RunStates, RunPhases
<1>4. /\ UpdateRow(r, row, next)
      /\ run[r].pc = "sending" /\ run[r].todo = {} /\ ~run[r].unsaved
  BY DEF RunFinish, AtBatch
<1>5. run[r].sent = Cardinality(run[r].subscribers)
  <2>1. run[r].subscribers \ {} = run[r].subscribers
    OBVIOUS
  <2> QED
    BY <1>4, <2>1 DEF ProgressInv, CountInv
<1> HIDE DEF row, next
<1>6. RowInv(r) => row.sent_count = row.recipient_count /\ row.sent_count <= row.recipient_count
  BY <1>1, <1>2, <1>4, <1>5 DEF RowInv
<1> QED
  BY <1>2, <1>3, <1>4, <1>6, UpdateRowCounts

LEMMA RunReadsCount ==
  ASSUME IInv, ProgressInv, NEW r \in Runs,
         Send(r) \/ RunLoad(r) \/ RunCount(r) \/ (\E t \in run[r].batch : RunSettle(r, t))
  PROVE  ProgressInv'
<1> DEFINE new == run'[r]
<1>0. run[r] \in RunStates /\ run \in [Runs -> RunStates]
  BY DEF IInv, TypeOK
<1>t. IInv'
  BY SendStep, RunLoadStep, RunCountStep, RunSettleStep
<1>1. new \in RunStates
  BY <1>t DEF IInv, TypeOK
<1>2. CountInv(r) /\ SnapshotInv(r)
  BY DEF ProgressInv, IInv
<1>3. /\ campaign' = campaign /\ run' = [run EXCEPT ![r] = new]
      /\ new.sent = run[r].sent /\ new.unsaved = run[r].unsaved
      /\ \/ /\ new.subscribers = run[r].subscribers /\ new.todo = run[r].todo
            /\ new.pc \in {"accepted", "loaded", "gone"}
            /\ run[r].pc \in {"idle", "accepted"}
         \/ /\ new.subscribers = new.todo
            /\ new.pc = "counted" /\ run[r].pc = "loaded"
         \/ /\ new.subscribers = run[r].subscribers /\ new.todo = run[r].todo
            /\ new.pc = "sending" /\ run[r].pc = "sending"
  <2>1. CASE Send(r)
    BY <1>0, <2>1 DEF Send, rowVars, RunStates
  <2>2. CASE RunLoad(r)
    <3> DEFINE next == [run[r] EXCEPT !.pc = "loaded",
                                      !.content = campaign[CampaignOf(r)].content]
               gone == [run[r] EXCEPT !.pc = "gone"]
    <3>1. /\ run' = [run EXCEPT ![r] = next] \/ run' = [run EXCEPT ![r] = gone]
          /\ campaign' = campaign /\ run[r].pc = "accepted"
      BY <2>2 DEF RunLoad
    <3>2. /\ next.sent = run[r].sent /\ next.unsaved = run[r].unsaved /\ next.pc = "loaded"
          /\ next.subscribers = run[r].subscribers /\ next.todo = run[r].todo
      BY <1>0 DEF RunStates
    <3>3. /\ gone.sent = run[r].sent /\ gone.unsaved = run[r].unsaved /\ gone.pc = "gone"
          /\ gone.subscribers = run[r].subscribers /\ gone.todo = run[r].todo
      BY <1>0 DEF RunStates
    <3> HIDE DEF next, gone
    <3> QED
      BY <1>0, <3>1, <3>2, <3>3
  <2>3. CASE RunCount(r)
    <3> DEFINE next == [run[r] EXCEPT !.pc = "counted", !.subscribers = Confirmed,
                                      !.todo = Confirmed]
    <3>1. run' = [run EXCEPT ![r] = next] /\ campaign' = campaign /\ run[r].pc = "loaded"
      BY <2>3 DEF RunCount
    <3>2. /\ next.sent = run[r].sent /\ next.unsaved = run[r].unsaved /\ next.pc = "counted"
          /\ next.subscribers = next.todo
      BY <1>0 DEF RunStates
    <3> HIDE DEF next
    <3> QED
      BY <1>0, <3>1, <3>2
  <2>4. ASSUME NEW t \in run[r].batch, RunSettle(r, t)
        PROVE  /\ campaign' = campaign /\ run' = [run EXCEPT ![r] = new]
               /\ new.sent = run[r].sent /\ new.unsaved = run[r].unsaved
               /\ new.subscribers = run[r].subscribers /\ new.todo = run[r].todo
               /\ new.pc = "sending" /\ run[r].pc = "sending"
    BY <1>0, <2>4 DEF RunSettle, RunStates
  <2> QED
    BY <2>1, <2>2, <2>3, <2>4
<1> HIDE DEF new
<1>e. run'[r] = new
  BY DEF new
<1>4. new.pc # "idle" /\ run[r].sent <= new.sent
  BY <1>0, <1>3 DEF RunStates
<1>5. CountInv(r)'
  <2>1. CASE new.subscribers = run[r].subscribers /\ new.todo = run[r].todo
             /\ new.pc # "counted"
    BY <1>2, <1>3, <1>e, <2>1 DEF CountInv
  <2>2. CASE new.subscribers = new.todo /\ run[r].pc = "loaded"
    <3>1. run[r].subscribers = {} /\ new.subscribers \ new.todo = {}
      BY <1>2, <2>2 DEF SnapshotInv
    <3>2. run[r].subscribers \ run[r].todo = {}
      BY <3>1
    <3> QED
      BY <1>2, <1>3, <1>e, <2>2, <3>1, <3>2 DEF CountInv
  <2> QED
    BY <1>3, <2>1, <2>2
<1>6. ASSUME Alone(r) PROVE RowInv(r)'
  <2>1. RowInv(r)
    BY <1>6 DEF ProgressInv
  <2> QED
    BY <1>3, <1>e, <2>1 DEF RowInv
<1> QED
  BY <1>1, <1>3, <1>4, <1>5, <1>6, OneLoopCounts

LEMMA RunBatchCounts == ASSUME IInv, ProgressInv, NEW r \in Runs, RunBatch(r) PROVE ProgressInv'
<1>0. run[r] \in RunStates /\ run \in [Runs -> RunStates] /\ SnapshotInv(r) /\ CountInv(r)
  BY DEF IInv, TypeOK, ProgressInv
<1>1. PICK b \in SUBSET run[r].todo :
        PostBatch(r, b, run[r].todo \ b, run[r].sent + Cardinality(b))
  BY DEF RunBatch, NextBatches
<1> DEFINE new == [run[r] EXCEPT !.batch = b, !.todo = run[r].todo \ b, !.unsaved = TRUE,
                        !.sent = run[r].sent + Cardinality(b), !.mailed = MailedWith(r, b)]
<1>2. run' = [run EXCEPT ![r] = new] /\ campaign' = campaign /\ run[r].pc = "sending"
  BY <1>1 DEF PostBatch, RunBatch, AtBatch
<1>3. /\ new.pc = run[r].pc /\ new.subscribers = run[r].subscribers
      /\ new.todo = run[r].todo \ b /\ new.sent = run[r].sent + Cardinality(b) /\ new.unsaved
  BY <1>0 DEF RunStates
<1> HIDE DEF new
<1>e. run'[r] = new
  BY <1>0, <1>2
<1>4. new \in RunStates
  BY <1>e, RunBatchStep DEF IInv, TypeOK
<1>5. IsFiniteSet(run[r].subscribers) /\ run[r].todo \in SUBSET run[r].subscribers
  BY <1>0 DEF SnapshotInv
<1>6. Cardinality(b) \in Nat /\ run[r].sent \in Nat
  BY <1>0, <1>5, FS_Subset, FS_CardinalityType DEF RunStates
<1>7. CountInv(r)'
  <2> DEFINE S == run[r].subscribers
             T == run[r].todo
  <2>1. Cardinality(S \ (T \ b)) = Cardinality(S \ T) + Cardinality(b)
    <3>1. IsFiniteSet(S) /\ T \subseteq S /\ b \subseteq T
      BY <1>5
    <3> HIDE DEF S, T
    <3>2. IsFiniteSet(b) /\ IsFiniteSet(S \ T)
      BY <3>1, FS_Subset
    <3>3. S \ (T \ b) = (S \ T) \cup b /\ (S \ T) \cap b = {}
      BY <3>1
    <3>4. /\ Cardinality(S \ T) \in Nat /\ Cardinality({}) = 0
          /\ Cardinality((S \ T) \cup b) = Cardinality(S \ T) + Cardinality(b) - Cardinality({})
      BY <3>2, <3>3, FS_Union, FS_CardinalityType, FS_EmptySet
    <3>5. Cardinality((S \ T) \cup b) = Cardinality(S \ T) + Cardinality(b)
      BY <1>6, <3>4
    <3> QED
      BY <3>3, <3>5
  <2>2. run'[r].subscribers = S /\ run'[r].todo = T \ b
    BY <1>3, <1>e
  <2>3. run'[r].sent = Cardinality(S \ T) + Cardinality(b)
    BY <1>0, <1>3, <1>e DEF CountInv
  <2> QED
    BY <1>2, <1>3, <1>e, <2>1, <2>2, <2>3 DEF CountInv
<1>8. ASSUME Alone(r) PROVE RowInv(r)'
  <2>1. RowInv(r) /\ campaign[CampaignOf(r)].sent_count \in Nat
    BY <1>8, CampaignOfRun DEF ProgressInv, IInv, TypeOK, CampaignRows
  <2> QED
    BY <1>2, <1>3, <1>6, <1>e, <2>1 DEF RowInv
<1>9. run[r].sent <= new.sent /\ new.pc # "idle"
  BY <1>2, <1>3, <1>6
<1> QED
  BY <1>2, <1>4, <1>7, <1>8, <1>9, OneLoopCounts

LEMMA ProgressStep == ASSUME IInv, ProgressInv, [Next]_vars PROVE ProgressInv'
<1>1. CASE ListNext \/ UNCHANGED vars
  <2>1. run' = run /\ campaign' = campaign
    BY <1>1 DEF ListNext, SubscribeRead, DeleteSubscriber, UnsubscribeRead,
         SubscribeCreate, SubscribeUpdate, UnsubscribeWrite, rowVars, vars
  <2> QED
    BY <2>1, ProgressKept
<1>2. ASSUME NEW c \in Campaigns,
             CreateCampaign(c) \/ UpdateCheck(c) \/ UpdateWrite(c) \/ DeleteCheck(c) \/ DeleteWrite(c)
      PROVE  ProgressInv'
  <2>1. campaign \in [Campaigns -> CampaignRows]
    BY DEF IInv, TypeOK
  <2>2. run' = run
    BY <1>2 DEF CreateCampaign, UpdateCheck, UpdateWrite, DeleteCheck, DeleteWrite
  <2>3. \A d \in Campaigns : /\ campaign'[d].sent_count = campaign[d].sent_count
                             /\ campaign'[d].recipient_count = campaign[d].recipient_count
                             /\ campaign'[d].status = "SENT" => campaign[d].status = "SENT"
    BY <1>2, <2>1 DEF CreateCampaign, UpdateCheck, UpdateWrite, DeleteCheck, DeleteWrite,
         rowVars, CampaignRows
  <2> QED
    BY <2>2, <2>3, ProgressKept
<1>3. ASSUME NEW r \in Runs, Send(r) \/ RunStep(r) PROVE ProgressInv'
  BY <1>3, RunReadsCount, RunMarkCounts, RunBatchCounts, RunSaveCounts, RunFinishCounts DEF RunStep
<1>4. ASSUME NEW r \in Runs, RunError(r) PROVE ProgressInv'
  <2>1. run' = [s \in Runs |-> IF s \in {r} THEN [run[s] EXCEPT !.pc = "failed"] ELSE run[s]]
    BY <1>4 DEF RunError, IInv, TypeOK
  <2> QED
    BY <1>4, <2>1, FailuresCount DEF RunError, rowVars
<1>5. CASE Restart
  <2> DEFINE D == {r \in Runs : run[r].pc \in Live}
  <2>1. run' = [r \in Runs |-> IF r \in D THEN [run[r] EXCEPT !.pc = "failed"] ELSE run[r]]
    BY <1>5 DEF Restart
  <2> QED
    BY <1>5, <2>1, FailuresCount DEF Restart, rowVars
<1> QED
  BY <1>1, <1>2, <1>3, <1>4, <1>5 DEF Next, CampaignNext, SendNext

\* The progress of a campaign is never ahead of the mail handed over, and with one send it
\* stays within recipient_count and ends there.
THEOREM ProgressIsShown == Spec => []ProgressIsHonest
<1>1. Init => ProgressInv
  BY ProgressInit
<1>2. IInv /\ ProgressInv /\ [Next]_vars => ProgressInv'
  BY ProgressStep
<1>3. IInv /\ ProgressInv => ProgressIsHonest
  BY ProgressInvSays
<1> QED
  BY <1>1, <1>2, <1>3, Invariance, PTL DEF Spec

-------------------------------------------------------------------------------
(* The sender implements Broadcast *)

\* Two ways in which a step of Newsletter shows in Broadcast: not at all, or as
\* the end of some sends.
LEMMA ShowsNothing ==
  ASSUME \A s \in Runs : /\ PhaseOf(run'[s].pc) = PhaseOf(run[s].pc)
                         /\ run'[s].subscribers = run[s].subscribers
                         /\ run'[s].mailed = run[s].mailed
  PROVE  UNCHANGED B!bvars
BY DEF B!bvars, sendPhase, sendAudience, sendMailed

LEMMA ShowsAbort ==
  ASSUME NEW D \in SUBSET Runs,
         \A s \in Runs : /\ run'[s].subscribers = run[s].subscribers
                         /\ run'[s].mailed = run[s].mailed,
         \A s \in Runs \ D : run'[s].pc = run[s].pc,
         \A s \in D : run[s].pc \in Live /\ run'[s].pc \in {"gone", "failed"}
  PROVE  B!Abort
<1>1. \A s \in D : /\ PhaseOf(run[s].pc) \in {"waiting", "open"}
                   /\ PhaseOf(run'[s].pc) = "aborted"
  BY DEF PhaseOf, Live
<1>2. \A s \in Runs \ D : PhaseOf(run'[s].pc) = PhaseOf(run[s].pc)
  OBVIOUS
<1> QED
  BY <1>1, <1>2 DEF B!Abort, sendPhase, sendAudience, sendMailed

\* A step of one loop changes the variables of Broadcast for that send only.
LEMMA ShowsOne ==
  ASSUME NEW r \in Runs, \A s \in Runs \ {r} : run'[s] = run[s]
  PROVE  /\ sendPhase' = [sendPhase EXCEPT ![r] = PhaseOf(run'[r].pc)]
         /\ sendAudience' = [sendAudience EXCEPT ![r] = EmailsOf(run'[r].subscribers)]
         /\ sendMailed' = [sendMailed EXCEPT ![r] = run'[r].mailed]
         /\ sendPhase[r] = PhaseOf(run[r].pc)
         /\ sendAudience[r] = EmailsOf(run[r].subscribers)
         /\ sendMailed[r] = run[r].mailed
         /\ run'[r].subscribers = run[r].subscribers => UNCHANGED sendAudience
         /\ run'[r].mailed = run[r].mailed => UNCHANGED sendMailed
         /\ run'[r].pc = run[r].pc => UNCHANGED sendPhase
BY DEF sendPhase, sendAudience, sendMailed

LEMMA InitRefines == Init => B!Init
BY DEF Init, IdleRun, PhaseOf, EmailsOf, B!Init, sendPhase, sendAudience, sendMailed

\* Updating the row shows as the loop's own step, or as its end when the row is
\* gone.
LEMMA UpdateRowShows ==
  ASSUME TypeOK, NEW r \in Runs, NEW row, NEW next, run[r].pc \in {"counted", "sending"},
         UpdateRow(r, row, next)
  PROVE  run' = [run EXCEPT ![r] = next] \/ B!Abort
<1>1. CASE Exists(CampaignOf(r))
  BY <1>1 DEF UpdateRow
<1>2. CASE ~Exists(CampaignOf(r))
  <2>1. run' = [run EXCEPT ![r].pc = "failed"]
    BY <1>2 DEF UpdateRow
  <2>2. /\ run'[r].pc = "failed" /\ run'[r].subscribers = run[r].subscribers
        /\ run'[r].mailed = run[r].mailed
        /\ \A s \in Runs \ {r} : run'[s] = run[s]
    BY <2>1 DEF TypeOK, RunStates
  <2>3. B!Abort
    BY <2>2, ShowsAbort, {r} \in SUBSET Runs DEF Live
  <2> QED
    BY <2>3
<1> QED
  BY <1>1, <1>2

LEMMA RunStepRefines ==
  ASSUME IInv, NEW r \in Runs, RunStep(r) PROVE B!Next \/ UNCHANGED B!bvars
<1> USE DEF IInv, TypeOK
<1> DEFINE Same(s) == run'[s] = run[s]
<1>r. run[r] \in RunStates
  OBVIOUS
<1>1. CASE RunLoad(r)
  <2>1. /\ run'[r].subscribers = run[r].subscribers /\ run'[r].mailed = run[r].mailed
        /\ run'[r].pc \in {"loaded", "gone"} /\ run[r].pc = "accepted"
        /\ \A s \in Runs \ {r} : run'[s] = run[s]
    <3> DEFINE loaded == [run[r] EXCEPT !.pc = "loaded",
                                        !.content = campaign[CampaignOf(r)].content]
    <3>1. /\ run[r].pc = "accepted"
          /\ run' = [run EXCEPT ![r] = loaded] \/ run' = [run EXCEPT ![r].pc = "gone"]
      BY <1>1 DEF RunLoad
    <3>2. /\ loaded.pc = "loaded" /\ loaded.mailed = run[r].mailed
          /\ loaded.subscribers = run[r].subscribers
      BY <1>r DEF RunStates
    <3> HIDE DEF loaded
    <3> QED
      BY <1>r, <3>1, <3>2 DEF RunStates
  <2>2. CASE run'[r].pc = "loaded"
    BY <2>1, <2>2, ShowsNothing DEF PhaseOf
  <2>3. CASE run'[r].pc = "gone"
    <3>1. B!Abort
      BY <2>1, <2>3, ShowsAbort, {r} \in SUBSET Runs DEF Live
    <3> QED
      BY <3>1 DEF B!Next
  <2> QED
    BY <2>1, <2>2, <2>3
<1>2. CASE RunCount(r)
  <2> DEFINE new == [run[r] EXCEPT !.pc = "counted", !.subscribers = Confirmed,
                                   !.todo = Confirmed]
  <2>1. /\ run' = [run EXCEPT ![r] = new] /\ run[r].pc = "loaded"
        /\ new.pc = "counted" /\ new.subscribers = Confirmed /\ new.mailed = run[r].mailed
    BY <1>2, <1>r DEF RunCount, RunStates
  <2>2. EmailsOf(Confirmed) \in SUBSET Emails
    BY DEF EmailsOf, Confirmed, TokenOf
  <2> HIDE DEF new
  <2>3. run'[r] = new /\ \A s \in Runs \ {r} : run'[s] = run[s]
    BY <2>1
  <2>4. PhaseOf("loaded") = "waiting" /\ PhaseOf("counted") = "open"
    BY DEF PhaseOf
  <2>5. B!Open(r)
    <3>1. /\ sendPhase[r] = "waiting" /\ sendPhase' = [sendPhase EXCEPT ![r] = "open"]
          /\ sendAudience' = [sendAudience EXCEPT ![r] = EmailsOf(Confirmed)]
          /\ UNCHANGED sendMailed
      BY <2>1, <2>3, <2>4, ShowsOne
    <3> QED
      BY <2>2, <3>1 DEF B!Open
  <2> QED
    BY <2>5 DEF B!Next
<1>3. CASE RunMark(r)
  <2> DEFINE next == [run[r] EXCEPT !.pc = "sending"]
  <2>1. run[r].pc = "counted" /\ (run' = [run EXCEPT ![r] = next] \/ B!Abort)
    BY <1>3, UpdateRowShows DEF RunMark
  <2>2. CASE run' = [run EXCEPT ![r] = next]
    <3>1. /\ next.pc = "sending" /\ next.subscribers = run[r].subscribers
          /\ next.mailed = run[r].mailed
      BY <1>r DEF RunStates
    <3> HIDE DEF next
    <3> QED
      BY <2>1, <2>2, <3>1, ShowsNothing DEF PhaseOf
  <2> QED
    BY <2>1, <2>2 DEF B!Next
<1>4. CASE RunBatch(r)
  <2>1. PICK b \in SUBSET run[r].todo :
          PostBatch(r, b, run[r].todo \ b, run[r].sent + Cardinality(b))
    BY <1>4 DEF RunBatch, NextBatches
  <2> DEFINE new == [run[r] EXCEPT
                  !.batch = b, !.todo = run[r].todo \ b, !.unsaved = TRUE,
                  !.sent = run[r].sent + Cardinality(b), !.mailed = MailedWith(r, b)]
  <2>2. run' = [run EXCEPT ![r] = new]
    BY <2>1 DEF PostBatch
  <2>3. /\ run[r].pc = "sending" /\ new.pc = "sending"
        /\ new.subscribers = run[r].subscribers /\ new.mailed = MailedWith(r, b)
    BY <1>4, <1>r DEF RunBatch, AtBatch, RunStates
  <2>4. EmailsOf(b) \in SUBSET EmailsOf(run[r].subscribers)
    BY DEF SnapshotInv, EmailsOf
  <2>5. \A e \in EmailsOf(b) : e \in Emails /\ run[r].mailed[e] = 0
    <3>1. EmailsOf(b) \subseteq Emails
      BY <1>r DEF EmailsOf, RunStates, Tokens
    <3>2. \A e \in EmailsOf(b) : e \notin EmailsOf(run[r].subscribers \ run[r].todo)
      BY DEF EmailsOf, SnapshotInv
    <3> QED
      BY <3>1, <3>2 DEF SnapshotInv
  <2>6. MailedWith(r, b) = [e \in Emails |-> IF e \in EmailsOf(b) THEN 1 ELSE run[r].mailed[e]]
    BY <1>r, <2>5 DEF MailedWith, RunStates
  <2> HIDE DEF new
  <2>7. run'[r] = new /\ \A s \in Runs \ {r} : run'[s] = run[s]
    BY <2>2
  <2>8. PhaseOf("sending") = "open"
    BY DEF PhaseOf
  <2>9. /\ sendPhase[r] = "open" /\ UNCHANGED <<sendPhase, sendAudience>>
        /\ sendAudience[r] = EmailsOf(run[r].subscribers) /\ sendMailed[r] = run[r].mailed
        /\ sendMailed' = [sendMailed EXCEPT ![r] = MailedWith(r, b)]
    BY <2>3, <2>7, <2>8, ShowsOne
  <2>10. B!Mail(r)
    <3>1. \E X \in SUBSET sendAudience[r] :
            /\ \A e \in X : sendMailed[r][e] = 0
            /\ sendMailed' = [sendMailed EXCEPT ![r] =
                    [e \in Emails |-> IF e \in X THEN 1 ELSE sendMailed[r][e]]]
      <4>1. EmailsOf(b) \in SUBSET sendAudience[r]
        BY <2>4, <2>9
      <4> WITNESS EmailsOf(b) \in SUBSET sendAudience[r]
      <4> QED
        BY <2>5, <2>6, <2>9
    <3> QED
      BY <2>9, <3>1 DEF B!Mail
  <2> QED
    BY <2>10 DEF B!Next
<1>5. ASSUME NEW t \in run[r].batch, RunSettle(r, t) PROVE UNCHANGED B!bvars
  <2>1. /\ run'[r].pc = run[r].pc /\ run'[r].subscribers = run[r].subscribers
        /\ run'[r].mailed = run[r].mailed
        /\ \A s \in Runs \ {r} : run'[s] = run[s]
    BY <1>5, <1>r DEF RunSettle, RunStates
  <2> QED
    BY <2>1, ShowsNothing
<1>6. CASE RunSave(r)
  <2> DEFINE next == [run[r] EXCEPT !.unsaved = FALSE]
  <2>1. run[r].pc = "sending" /\ (run' = [run EXCEPT ![r] = next] \/ B!Abort)
    BY <1>6, UpdateRowShows DEF RunSave
  <2>2. CASE run' = [run EXCEPT ![r] = next]
    <3>1. /\ next.pc = run[r].pc /\ next.subscribers = run[r].subscribers
          /\ next.mailed = run[r].mailed
      BY <1>r DEF RunStates
    <3> HIDE DEF next
    <3> QED
      BY <2>1, <2>2, <3>1, ShowsNothing
  <2> QED
    BY <2>1, <2>2 DEF B!Next
<1>7. CASE RunFinish(r)
  <2> DEFINE next == [run[r] EXCEPT !.pc = "done"]
  <2>1. /\ run[r].pc = "sending" /\ run[r].todo = {}
        /\ run' = [run EXCEPT ![r] = next] \/ B!Abort
    BY <1>7, UpdateRowShows DEF RunFinish, AtBatch
  <2>2. CASE run' = [run EXCEPT ![r] = next]
    <3>1. /\ next.pc = "done" /\ next.subscribers = run[r].subscribers
          /\ next.mailed = run[r].mailed
      BY <1>r DEF RunStates
    <3>2. \A e \in EmailsOf(run[r].subscribers) : e \in Emails /\ run[r].mailed[e] = 1
      BY <1>r, <2>1 DEF SnapshotInv, EmailsOf, RunStates, Tokens
    <3> HIDE DEF next
    <3>a. run'[r] = next /\ \A s \in Runs \ {r} : run'[s] = run[s]
      BY <2>2
    <3>b. PhaseOf("sending") = "open" /\ PhaseOf("done") = "closed"
      BY DEF PhaseOf
    <3>3. B!Close(r)
      BY <2>1, <3>1, <3>2, <3>a, <3>b, ShowsOne DEF B!Close
    <3> QED
      BY <3>3 DEF B!Next
  <2> QED
    BY <2>1, <2>2 DEF B!Next
<1> QED
  BY <1>1, <1>2, <1>3, <1>4, <1>5, <1>6, <1>7 DEF RunStep

LEMMA StepRefines == ASSUME IInv, [Next]_vars PROVE B!Next \/ UNCHANGED B!bvars
<1>1. CASE UNCHANGED run
  BY <1>1, ShowsNothing
<1>2. ASSUME NEW r \in Runs, Send(r) PROVE UNCHANGED B!bvars
  <2>1. /\ run[r].pc = "idle" /\ run'[r].pc = "accepted"
        /\ run'[r].subscribers = run[r].subscribers /\ run'[r].mailed = run[r].mailed
        /\ \A s \in Runs \ {r} : run'[s] = run[s]
    BY <1>2 DEF IInv, TypeOK, Send, RunStates
  <2> QED
    BY <2>1, ShowsNothing DEF PhaseOf
<1>3. ASSUME NEW r \in Runs, RunError(r) PROVE B!Abort
  <2>1. /\ run[r].pc \in Live /\ run'[r].pc = "failed"
        /\ run'[r].subscribers = run[r].subscribers /\ run'[r].mailed = run[r].mailed
        /\ \A s \in Runs \ {r} : run'[s] = run[s]
    BY <1>3 DEF IInv, TypeOK, RunError, RunStates
  <2> QED
    BY <2>1, ShowsAbort, {r} \in SUBSET Runs
<1>4. CASE Restart
  <2> DEFINE D == {r \in Runs : run[r].pc \in Live}
  <2>1. \A s \in Runs : /\ run'[s].subscribers = run[s].subscribers
                        /\ run'[s].mailed = run[s].mailed
                        /\ s \in D => run'[s].pc = "failed"
                        /\ s \notin D => run'[s].pc = run[s].pc
    BY <1>4 DEF IInv, TypeOK, Restart, RunStates
  <2>2. B!Abort
    BY <2>1, ShowsAbort
  <2> QED
    BY <2>2 DEF B!Next
<1>5. CASE ListNext
  BY <1>1, <1>5 DEF ListNext, SubscribeRead, DeleteSubscriber, UnsubscribeRead,
     SubscribeCreate, SubscribeUpdate, UnsubscribeWrite
<1>6. CASE CampaignNext
  BY <1>1, <1>6 DEF CampaignNext, CreateCampaign, UpdateCheck, UpdateWrite,
     DeleteCheck, DeleteWrite
<1>7. CASE SendNext
  BY <1>2, <1>3, <1>7, RunStepRefines DEF SendNext, B!Next
<1> QED
  BY <1>1, <1>4, <1>5, <1>6, <1>7 DEF Next, vars

\* The sender keeps the promise of Broadcast, in any interleaving of any number
\* of sends with everything else.
THEOREM SenderRefinesBroadcast == Spec => ImplementsBroadcast
BY Invariance, InitRefines, StepRefines, PTL DEF Spec, ImplementsBroadcast, B!Spec

===============================================================================
