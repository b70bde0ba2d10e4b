------------------------------ MODULE PagesProofs ------------------------------
(***************************************************************************)
(* Proofs about the pages of MCPages, for any articles, images, rows,      *)
(* rates and budgets: the player shows what its engine does; nothing older *)
(* goes out of the campaign composer than what it knew of; the article     *)
(* form purges its own images, offers what the server takes, and sends out *)
(* what was typed; the lists show what was chosen; and whoever signs in    *)
(* ends up where they wanted to be.                                        *)
(***************************************************************************)
EXTENDS MCPages, ArticleRowProofs, FiniteSetTheorems, SequenceTheorems, TLAPS

(***************************************************************************)
(* The player                                                              *)
(***************************************************************************)
LastEvent == events[Len(events)]

\* One heartbeat at most, and none but that of a player that plays; the events of an
\* engine that does not speak end with the last one of its utterance.
BeatInv ==
    /\ intervals \subseteq {heartbeat} \ {0}
    /\ mounted => (intervals # {} <=> playing /\ ~paused)
    /\ ~mounted => ~playing /\ engine.at = "idle" /\ (intervals # {} => events # <<>>)
    /\ paused => playing
    /\ engine.at # "speaking" /\ events # <<>> => LastEvent = "over"

\* What the player shows and what the engine does, while no click comes between.
SoundInv ==
    mounted /\ ~raced =>
        /\ engine.at # "idle" => engine.rate = rate
        /\ events = <<>> => (playing <=> engine.at = "speaking")
        /\ engine.at = "speaking" =>
               IF events = <<>> THEN paused = engine.paused ELSE LastEvent = "start" /\ ~engine.paused

PlayerInv == P!TypeOK /\ BeatInv /\ SoundInv

LEMMA PlayerCounts == \A S : P!Cardinality(S) = Cardinality(S)
  BY DEF P!Cardinality, Cardinality

LEMMA FirstInterval == P!Unused({}) \in Nat \ {0}
<1>1. P!Cardinality({}) = 0  BY PlayerCounts, FS_EmptySet
<1>2. \E n \in 1..P!Cardinality({}) + 1 : n \notin {}  BY <1>1
<1>3. P!Unused({}) \in 1..P!Cardinality({}) + 1  BY <1>2 DEF P!Unused
<1>4. QED  BY <1>1, <1>3

LEMMA LastOfAppend ==
  ASSUME NEW S, NEW s \in Seq(S), NEW x \in S
  PROVE  /\ Append(s, x) \in Seq(S) /\ Append(s, x) # <<>>
         /\ Append(s, x)[Len(Append(s, x))] = x
OBVIOUS

LEMMA LastOfTail ==
  ASSUME NEW S, NEW s \in Seq(S), s # <<>>
  PROVE  /\ Tail(s) \in Seq(S) /\ Head(s) \in S
         /\ Tail(s) # <<>> => Tail(s)[Len(Tail(s))] = s[Len(s)]
         /\ Tail(s) = <<>> => s[Len(s)] = Head(s)
<1>1. Tail(s) \in Seq(S) /\ Head(s) = s[1] /\ Head(s) \in S /\ Len(Tail(s)) = Len(s) - 1  OBVIOUS
<1>2. \A i \in 1..Len(s) - 1 : Tail(s)[i] = s[i + 1]  OBVIOUS
<1>3. Len(s) \in Nat /\ Len(s) >= 1  OBVIOUS
<1>4. Tail(s) # <<>> => Len(Tail(s)) >= 1  BY <1>1
<1>5. Tail(s) # <<>> => Tail(s)[Len(Tail(s))] = s[Len(s)]  BY <1>1, <1>2, <1>3, <1>4
<1>6. Tail(s) = <<>> => Len(s) = 1
  <2>1. Tail(s) = <<>> => Len(Tail(s)) = 0  BY <1>1, EmptySeq
  <2>2. QED  BY <1>1, <1>3, <2>1
<1>7. QED  BY <1>1, <1>5, <1>6

\* What is left of a click: each is told of, and the rest is as the engine is told.
LEMMA PlayerTypes ==
  ASSUME P!TypeOK
  PROVE  /\ engine.at \in {"idle", "queued", "speaking"} /\ engine.rate \in Rates \cup {0}
         /\ engine.paused \in BOOLEAN
         /\ events \in Seq({"start", "over"})
BY DEF P!TypeOK, P!Engines

\* cancel() leaves the last event of an utterance at the end.
LEMMA Cancelling ==
  ASSUME P!TypeOK, BeatInv
  PROVE  /\ P!Cancelled \in Seq({"start", "over"})
         /\ P!Cancelled # <<>> => P!Cancelled[Len(P!Cancelled)] = "over"
         /\ P!Cancelled = <<>> => engine.at = "idle" /\ events = <<>>
<1>1. CASE engine.at = "idle"
  BY <1>1, PlayerTypes DEF P!Cancelled, BeatInv, LastEvent
<1>2. CASE engine.at # "idle"
  <2>1. P!Cancelled = Append(events, "over")  BY <1>2 DEF P!Cancelled
  <2>2. QED  BY <1>2, <2>1, PlayerTypes, LastOfAppend
<1>3. QED  BY <1>1, <1>2

LEMMA PlayStep ==
  ASSUME PlayerInv, P!Play
  PROVE  PlayerInv'
<1>1. /\ mounted /\ ~playing /\ events' = P!Cancelled
      /\ engine' = [engine EXCEPT !.at = "queued", !.rate = rate]
      /\ UNCHANGED <<mounted, playing, paused, rate, heartbeat, intervals>>
      /\ raced' = (raced \/ events # <<>> \/ engine.at = "queued")
  BY DEF P!Play, P!Click, P!Speak, P!page, P!beat
<1>2. engine' \in P!Engines /\ engine'.at = "queued" /\ engine'.rate = rate
  BY <1>1 DEF PlayerInv, P!TypeOK, P!Engines
<1>3. P!TypeOK'  BY <1>1, <1>2, Cancelling DEF PlayerInv, P!TypeOK
<1>4. BeatInv'  BY <1>1, <1>2, Cancelling DEF PlayerInv, BeatInv, LastEvent
<1>5. SoundInv'  BY <1>1, <1>2, Cancelling DEF PlayerInv, SoundInv, LastEvent
<1>6. QED  BY <1>3, <1>4, <1>5 DEF PlayerInv

LEMMA ResumeStep ==
  ASSUME PlayerInv, P!Resume
  PROVE  PlayerInv'
<1>1. /\ mounted /\ playing /\ paused /\ ~paused'
      /\ engine' = [engine EXCEPT !.paused = FALSE]
      /\ heartbeat' = P!Unused(intervals) /\ intervals' = intervals \cup {P!Unused(intervals)}
      /\ UNCHANGED <<mounted, playing, rate, events>>
      /\ paused' = FALSE /\ raced' = (raced \/ events # <<>> \/ engine.at = "queued")
  BY DEF P!Resume, P!Click, P!Beat
<1>2. engine' \in P!Engines /\ engine'.at = engine.at /\ engine'.rate = engine.rate /\ ~engine'.paused
  BY <1>1 DEF PlayerInv, P!TypeOK, P!Engines
<1>3. intervals = {}  BY <1>1 DEF PlayerInv, BeatInv
<1>4. heartbeat' \in Nat \ {0} /\ intervals' = {heartbeat'}  BY <1>1, <1>3, FirstInterval
<1>5. P!TypeOK'  BY <1>1, <1>2, <1>4 DEF PlayerInv, P!TypeOK
<1>6. BeatInv'  BY <1>1, <1>2, <1>4 DEF PlayerInv, BeatInv, LastEvent
<1>7. SoundInv'
  <2>1. paused' = FALSE /\ engine'.paused = FALSE
    BY <1>1 DEF PlayerInv, P!TypeOK, P!Engines
  <2>2. QED  BY <1>1, <1>2, <2>1 DEF PlayerInv, SoundInv, LastEvent
<1>8. QED  BY <1>5, <1>6, <1>7 DEF PlayerInv

LEMMA PauseStep ==
  ASSUME PlayerInv, P!Pause
  PROVE  PlayerInv'
<1>1. /\ mounted /\ playing /\ ~paused /\ paused' = TRUE
      /\ engine' = [engine EXCEPT !.paused = TRUE]
      /\ heartbeat' = 0 /\ intervals' = intervals \ {heartbeat}
      /\ UNCHANGED <<mounted, playing, rate, events>>
      /\ raced' = (raced \/ events # <<>> \/ engine.at = "queued")
  BY DEF P!Pause, P!Click, P!StopHeartbeat
<1>2. engine' \in P!Engines /\ engine'.at = engine.at /\ engine'.rate = engine.rate /\ engine'.paused
  BY <1>1 DEF PlayerInv, P!TypeOK, P!Engines
<1>3. intervals' = {}  BY <1>1 DEF PlayerInv, BeatInv
<1>4. P!TypeOK'  BY <1>1, <1>2, <1>3 DEF PlayerInv, P!TypeOK
<1>5. BeatInv'  BY <1>1, <1>2, <1>3 DEF PlayerInv, BeatInv, LastEvent
<1>6. SoundInv'  BY <1>1, <1>2 DEF PlayerInv, SoundInv, LastEvent
<1>7. QED  BY <1>4, <1>5, <1>6 DEF PlayerInv

\* Stop, and Leave.
LEMMA SilenceStep ==
  ASSUME PlayerInv, P!Stop \/ P!Leave
  PROVE  PlayerInv'
<1>1. /\ engine' = [engine EXCEPT !.at = "idle", !.rate = 0] /\ events' = P!Cancelled
      /\ heartbeat' \in {0, heartbeat} /\ intervals' = intervals \ {heartbeat}
      /\ (mounted' = mounted \/ mounted' = FALSE) /\ ~playing' /\ playing' = FALSE /\ paused' = FALSE
      /\ UNCHANGED rate
      /\ mounted' => playing /\ raced' = (raced \/ events # <<>> \/ engine.at = "queued")
  BY DEF P!Stop, P!Leave, P!Click, P!StopHeartbeat
<1>2. engine' \in P!Engines /\ engine'.at = "idle"
  BY <1>1 DEF PlayerInv, P!TypeOK, P!Engines
<1>3. intervals' = {}  BY <1>1 DEF PlayerInv, BeatInv
<1>4. P!TypeOK'
  <2>1. mounted' \in BOOLEAN /\ heartbeat' \in Nat
    <3>1. mounted \in BOOLEAN /\ heartbeat \in Nat  BY DEF PlayerInv, P!TypeOK
    <3>2. heartbeat' \in Nat  BY <1>1, <3>1
    <3>3. mounted' \in BOOLEAN  BY <1>1, <3>1, Zenon
    <3>4. QED  BY <3>2, <3>3
  <2>2. events' \in Seq({"start", "over"}) /\ rate' \in Rates
    BY <1>1, Cancelling DEF PlayerInv, P!TypeOK
  <2>3. QED  BY <1>1, <1>2, <1>3, <2>1, <2>2 DEF P!TypeOK
<1>5. BeatInv'  BY <1>1, <1>2, <1>3, Cancelling DEF PlayerInv, BeatInv, LastEvent
<1>6. SoundInv'  BY <1>1, <1>2 DEF PlayerInv, SoundInv
<1>7. QED  BY <1>4, <1>5, <1>6 DEF PlayerInv

LEMMA ChangeRateStep ==
  ASSUME PlayerInv, NEW r \in Rates, P!ChangeRate(r)
  PROVE  PlayerInv'
<1>1. /\ mounted /\ rate' = r /\ UNCHANGED <<mounted, playing, paused, heartbeat, intervals>>
      /\ raced' = (raced \/ events # <<>> \/ engine.at = "queued")
  BY DEF P!ChangeRate, P!Click, P!beat
<1>2. CASE playing
  <2>1. events' = P!Cancelled /\ engine' = [engine EXCEPT !.at = "queued", !.rate = r]
    BY <1>2 DEF P!ChangeRate, P!Speak
  <2>2. engine' \in P!Engines /\ engine'.at = "queued" /\ engine'.rate = rate'
    BY <1>1, <2>1 DEF PlayerInv, P!TypeOK, P!Engines
  <2>3. P!TypeOK'  BY <1>1, <2>1, <2>2, Cancelling DEF PlayerInv, P!TypeOK
  <2>4. BeatInv'  BY <1>1, <2>1, <2>2, Cancelling DEF PlayerInv, BeatInv, LastEvent
  <2>5. SoundInv'  BY <1>1, <1>2, <2>1, <2>2, Cancelling DEF PlayerInv, SoundInv, LastEvent
  <2>6. QED  BY <2>3, <2>4, <2>5 DEF PlayerInv
<1>3. CASE ~playing
  <2>1. UNCHANGED <<events, engine>>  BY <1>3 DEF P!ChangeRate
  <2>2. P!TypeOK'  BY <1>1, <2>1 DEF PlayerInv, P!TypeOK
  <2>3. BeatInv'  BY <1>1, <2>1 DEF PlayerInv, BeatInv, LastEvent
  <2>4. SoundInv'  BY <1>1, <1>3, <2>1, PlayerTypes DEF PlayerInv, SoundInv, LastEvent
  <2>5. QED  BY <2>2, <2>3, <2>4 DEF PlayerInv
<1>4. QED  BY <1>2, <1>3

LEMMA EngineStep ==
  ASSUME PlayerInv, P!Begin \/ P!Finish
  PROVE  PlayerInv'
<1>1. /\ ~engine.paused /\ engine.at # "idle"
      /\ UNCHANGED <<mounted, playing, paused, rate, heartbeat, intervals, raced>>
  BY DEF P!Begin, P!Finish, P!page, P!beat
<1>2. \/ /\ events' = Append(events, "start") /\ engine' = [engine EXCEPT !.at = "speaking"]
      \/ /\ events' = Append(events, "over") /\ engine' = [engine EXCEPT !.at = "idle", !.rate = 0]
  BY DEF P!Begin, P!Finish
<1>3. /\ engine' \in P!Engines
      /\ \/ engine'.at = "speaking" /\ engine'.rate = engine.rate /\ ~engine'.paused
            /\ events' = Append(events, "start")
         \/ engine'.at = "idle" /\ events' = Append(events, "over")
  BY <1>1, <1>2 DEF PlayerInv, P!TypeOK, P!Engines
<1>4. /\ events' \in Seq({"start", "over"}) /\ events' # <<>>
      /\ engine'.at = "speaking" => LastEvent' = "start"
      /\ engine'.at = "idle" => LastEvent' = "over"
  BY <1>3, PlayerTypes, LastOfAppend DEF PlayerInv, LastEvent
<1>5. P!TypeOK'  BY <1>1, <1>3, <1>4 DEF PlayerInv, P!TypeOK
<1>6. BeatInv'  BY <1>1, <1>3, <1>4 DEF PlayerInv, BeatInv
<1>7. SoundInv'  BY <1>1, <1>3, <1>4 DEF PlayerInv, SoundInv
<1>8. QED  BY <1>5, <1>6, <1>7 DEF PlayerInv

LEMMA StartedStep ==
  ASSUME PlayerInv, P!Started
  PROVE  PlayerInv'
<1>1. /\ events # <<>> /\ Head(events) = "start" /\ events' = Tail(events)
      /\ UNCHANGED <<mounted, rate, engine, raced>>
      /\ heartbeat' = P!Unused(intervals \ {heartbeat})
      /\ intervals' = (intervals \ {heartbeat}) \cup {P!Unused(intervals \ {heartbeat})}
      /\ mounted => playing' = TRUE /\ paused' = FALSE
      /\ ~mounted => playing' = playing /\ paused' = paused
  BY DEF P!Started, P!Beat
<1>2. intervals \ {heartbeat} = {}  BY DEF PlayerInv, BeatInv
<1>3. heartbeat' \in Nat \ {0} /\ intervals' = {heartbeat'}  BY <1>1, <1>2, FirstInterval
<1>4. /\ events' \in Seq({"start", "over"})
      /\ events' # <<>> => LastEvent' = LastEvent
      /\ events' = <<>> => LastEvent = "start"
  BY <1>1, PlayerTypes, LastOfTail DEF PlayerInv, LastEvent
<1>5. P!TypeOK'  BY <1>1, <1>3, <1>4 DEF PlayerInv, P!TypeOK
<1>6. BeatInv'
  <2>1. intervals' \subseteq {heartbeat'} \ {0} /\ intervals' # {}  BY <1>3
  <2>2. CASE mounted
    BY <1>1, <1>4, <2>1, <2>2 DEF PlayerInv, BeatInv
  <2>3. CASE ~mounted
    <3>1. events' # <<>>  BY <1>1, <1>4, <2>3 DEF PlayerInv, BeatInv
    <3>2. ~mounted' /\ ~playing' /\ ~paused'  BY <1>1, <2>3 DEF PlayerInv, BeatInv
    <3>3. LastEvent' = "over" /\ engine'.at = "idle"  BY <1>1, <1>4, <2>3, <3>1 DEF PlayerInv, BeatInv
    <3>4. QED  BY <2>1, <3>1, <3>2, <3>3 DEF BeatInv
  <2>4. QED  BY <2>2, <2>3
<1>7. SoundInv'  BY <1>1, <1>4, PlayerTypes DEF PlayerInv, SoundInv, BeatInv
<1>8. QED  BY <1>5, <1>6, <1>7 DEF PlayerInv

LEMMA OverStep ==
  ASSUME PlayerInv, P!Over
  PROVE  PlayerInv'
<1>1. /\ events # <<>> /\ Head(events) = "over" /\ events' = Tail(events)
      /\ UNCHANGED <<mounted, rate, engine, raced>>
      /\ heartbeat' = 0 /\ intervals' = intervals \ {heartbeat} /\ playing' = FALSE /\ paused' = FALSE
  BY DEF P!Over, P!StopHeartbeat
<1>2. intervals' = {}  BY <1>1 DEF PlayerInv, BeatInv
<1>3. /\ events' \in Seq({"start", "over"})
      /\ events' # <<>> => LastEvent' = LastEvent
      /\ events' = <<>> => LastEvent = "over"
  BY <1>1, PlayerTypes, LastOfTail DEF PlayerInv, LastEvent
<1>4. P!TypeOK'  BY <1>1, <1>2, <1>3 DEF PlayerInv, P!TypeOK
<1>5. BeatInv'  BY <1>1, <1>2, <1>3 DEF PlayerInv, BeatInv
<1>6. SoundInv'  BY <1>1, <1>3, PlayerTypes DEF PlayerInv, SoundInv
<1>7. QED  BY <1>4, <1>5, <1>6 DEF PlayerInv

LEMMA TickStep ==
  ASSUME PlayerInv, P!Tick
  PROVE  PlayerInv'
<1>1. /\ intervals # {} /\ engine' = [engine EXCEPT !.paused = FALSE]
      /\ UNCHANGED <<mounted, playing, paused, rate, heartbeat, intervals, events, raced>>
  BY DEF P!Tick, P!page, P!beat
<1>2. engine' \in P!Engines /\ engine'.at = engine.at /\ engine'.rate = engine.rate /\ ~engine'.paused
  BY <1>1 DEF PlayerInv, P!TypeOK, P!Engines
<1>3. P!TypeOK'  BY <1>1, <1>2 DEF PlayerInv, P!TypeOK
<1>4. BeatInv'  BY <1>1, <1>2 DEF PlayerInv, BeatInv, LastEvent
<1>5. mounted => paused = FALSE  BY <1>1 DEF PlayerInv, BeatInv, P!TypeOK
<1>6. engine'.paused = FALSE  BY <1>1 DEF PlayerInv, P!TypeOK, P!Engines
<1>7. SoundInv'
  <2>1. mounted /\ ~raced => (engine.at = "speaking" /\ events = <<>> => paused = engine'.paused)
    BY <1>5, <1>6
  <2>2. QED  BY <1>1, <1>2, <2>1 DEF PlayerInv, SoundInv, LastEvent
<1>8. QED  BY <1>3, <1>4, <1>7 DEF PlayerInv

LEMMA PlayerStarts ==
  ASSUME P!Init
  PROVE  PlayerInv
<1>1. /\ mounted = TRUE /\ playing = FALSE /\ paused = FALSE /\ rate \in Rates
      /\ heartbeat = 0 /\ intervals = {} /\ events = <<>>
      /\ engine.at = "idle" /\ engine \in P!Engines
  BY DEF P!Init, P!Engines
<1>2. P!TypeOK
  <2>1. <<>> \in Seq({"start", "over"}) /\ {} \subseteq Nat \ {0} /\ 0 \in Nat  OBVIOUS
  <2>2. QED  BY <1>1, <2>1 DEF P!TypeOK
<1>3. BeatInv  BY <1>1 DEF BeatInv
<1>4. SoundInv  BY <1>1 DEF SoundInv
<1>5. QED  BY <1>2, <1>3, <1>4 DEF PlayerInv

LEMMA PlayerStep ==
  ASSUME PlayerInv, P!Next
  PROVE  PlayerInv'
<1>1. \/ P!Play \/ P!Resume \/ P!Pause \/ (P!Stop \/ P!Leave)
      \/ \E r \in Rates : P!ChangeRate(r)
      \/ (P!Begin \/ P!Finish) \/ P!Started \/ P!Over \/ P!Tick
  BY DEF P!Next
<1>2. QED
  BY <1>1, PlayStep, ResumeStep, PauseStep, SilenceStep, ChangeRateStep, EngineStep, StartedStep,
     OverStep, TickStep

LEMMA PlayerHonest ==
  ASSUME PlayerInv
  PROVE  P!PlayerIsHonest
<1>1. intervals = {} \/ intervals = {heartbeat}  BY DEF PlayerInv, BeatInv
<1>2. P!Cardinality(intervals) <= 1
  <2>1. P!Cardinality({}) = 0  BY PlayerCounts, FS_EmptySet
  <2>2. P!Cardinality({heartbeat}) = 1  BY PlayerCounts, FS_Singleton
  <2>3. QED  BY <1>1, <2>1, <2>2
<1>3. P!Settled => intervals = IF playing /\ ~paused THEN {heartbeat} ELSE {}
  BY <1>1, PlayerTypes DEF PlayerInv, BeatInv, P!Settled, P!TypeOK
<1>4. P!Settled /\ mounted /\ ~raced =>
        /\ playing = (engine.at = "speaking")
        /\ playing => paused = engine.paused /\ rate = engine.rate
  BY PlayerTypes DEF PlayerInv, SoundInv, P!Settled, P!TypeOK
<1>5. QED  BY <1>2, <1>3, <1>4 DEF P!PlayerIsHonest

LEMMA PlayerAlways == PagesSpec => []PlayerInv
<1>1. PagesInit => PlayerInv
  BY PlayerStarts DEF PagesInit, NoPlayer
<1>2. PlayerInv /\ [PagesNext]_<<part, vars, listVars, composerVars, playerVars, signInVars>> => PlayerInv'
  <2>1. ASSUME PlayerInv, UNCHANGED playerVars PROVE PlayerInv'
    BY <2>1 DEF playerVars, PlayerInv, P!TypeOK, BeatInv, SoundInv, LastEvent
  <2>2. QED  BY <2>1, PlayerStep DEF PagesNext
<1>3. QED  BY <1>1, <1>2, PTL DEF PagesSpec

\* The player shows what the engine does: one heartbeat while it plays and none otherwise.
THEOREM PlayerShowsTheEngine == PagesSpec => []PlayerIsHonest
<1>1. PlayerInv => PlayerIsHonest  BY PlayerHonest DEF PlayerIsHonest
<1>2. QED  BY <1>1, PlayerAlways, PTL

(***************************************************************************)
(* The composer                                                            *)
(***************************************************************************)
Underway == {"SENDING", "SENT"}
Saving == {"create", "update"}

\* No text is newer than the last one that was typed.
DraftInv ==
    /\ campaign.text <= drafts /\ composer.typed <= drafts
    /\ campaignCopy.row.text <= drafts /\ fetch.row.text <= drafts
    /\ \A q \in composerSent : q.text <= drafts

\* What the page, its copy, its query and the loops say of the row's status.
CopyInv ==
    /\ campaign.status = "NEW" => composer.mode = "new" /\ loops = {}
    /\ campaignCopy.row.status \in Underway => campaign.status \in Underway
    /\ fetch.row.status \in Underway => campaign.status \in Underway
    /\ campaignCopy.at = "none" <=> campaignCopy.row.status = "NEW"
    /\ fetch.at = "read" <=> fetch.row.status # "NEW"
    /\ campaignCopy.at = "none" => campaignCopy.row.text = 0
    /\ composer.modal => composer.mode = "edit"
    /\ composer.mode = "edit" => campaignCopy.at # "none"
    /\ composer.mode = "new" => campaignCopy.at = "none" /\ fetch.at = "no" /\ ~composer.modal
    /\ \A l \in loops : l.at = "sending" => campaign.status \in Underway

\* Once a send was taken, a copy that does not say so is about to be read anew.
SeenInv ==
    ~early =>
        /\ \A q \in composerSent :
               q.op = "send" /\ q.then # "gone" => campaignCopy.at # "none" /\ composer.mode # "new"
        /\ campaign.status \in Underway \/ loops # {} =>
               /\ fetch.at = "read" => fetch.row.status \in Underway
               /\ campaignCopy.row.status = "DRAFT" => fetch.at # "no"

\* On a page that was not left there is one request at a time, and it is the page's.
OneRequest ==
    /\ \A q \in composerSent : /\ q.visit = composer.visit /\ q.then # "gone"
                               /\ q.op = "create" => composer.mode = "new"
    /\ \A q, r \in composerSent : q = r
    /\ composer.modal => composerSent = {}

\* What the page knows to be stored is stored, or something newer; what it is about to
\* save is newer than what is stored.
TextsInv ==
    /\ composer.known <= campaign.text
    /\ composer.mode \in {"new", "edit"} => campaign.text <= composer.typed
    /\ \A q \in composerSent : q.op \in Saving => /\ campaign.text <= q.text /\ q.at = q.text
                                                /\ (q.text <= composer.typed \/ campaign.status \in Underway)
    /\ \A q \in composerSent : q.op \notin Saving => q.at <= campaign.text
    /\ \A l \in loops : l.at = "begun" => l.known <= campaign.text
    /\ \A l \in loops : l.at = "sending" => l.known <= l.text

\* What a page without a form is about to show is what is stored.
FetchInv ==
    composer.mode \in {"loading", "missing"} =>
        /\ fetch.at = "read" => fetch.row.text = campaign.text
        /\ fetch.at # "no" => \A q \in composerSent : q.op = "update" => campaign.status # "DRAFT"

NewEnough == \A m \in mailed \cup tested : m[2] >= m[1]

StayInv == OneRequest /\ TextsInv /\ FetchInv /\ NewEnough

ComposerInv == C!TypeOK /\ DraftInv /\ CopyInv /\ SeenInv /\ (~left => StayInv)

LEMMA ComposerTypes ==
  ASSUME ComposerInv
  PROVE  /\ campaign.status \in {"NEW", "DRAFT", "SENDING", "SENT"} /\ campaign.text \in Nat
         /\ campaignCopy.row.text \in Nat /\ fetch.row.text \in Nat
         /\ campaignCopy.row.status \in {"NEW", "DRAFT", "SENDING", "SENT"}
         /\ fetch.row.status \in {"NEW", "DRAFT", "SENDING", "SENT"}
         /\ campaignCopy.at \in {"none", "fresh", "stale"} /\ fetch.at \in {"no", "asked", "read"}
         /\ composer.mode \in {"new", "loading", "edit", "missing"} /\ composer.visit \in Nat
         /\ composer.typed \in Nat /\ composer.known \in Nat
         /\ composer.modal \in BOOLEAN /\ composer.next \in BOOLEAN
         /\ \A q \in composerSent : /\ q.op \in {"create", "update", "test", "send"}
                                    /\ q.then \in {"none", "test", "gone"}
                                    /\ q.text \in Nat /\ q.at \in Nat /\ q.visit \in Nat
         /\ \A l \in loops : l.at \in {"begun", "sending"} /\ l.text \in Nat /\ l.known \in Nat
         /\ drafts \in Nat
<1>1. C!TypeOK  BY DEF ComposerInv
<1>2. /\ campaign \in C!Rows /\ campaignCopy.row \in C!Rows /\ fetch.row \in C!Rows
      /\ campaignCopy.at \in {"none", "fresh", "stale"} /\ fetch.at \in {"no", "asked", "read"}
      /\ composer \in C!Pages /\ composerSent \subseteq C!Requests /\ loops \subseteq C!Loops
      /\ drafts \in Nat
  BY <1>1 DEF C!TypeOK
<1>3. \A r \in C!Rows : r.status \in {"NEW", "DRAFT", "SENDING", "SENT"} /\ r.text \in Nat
  BY DEF C!Rows, C!Statuses
<1>4. \A q \in composerSent : /\ q.op \in {"create", "update", "test", "send"}
                             /\ q.then \in {"none", "test", "gone"}
                             /\ q.text \in Nat /\ q.at \in Nat /\ q.visit \in Nat
  BY <1>2 DEF C!Requests
<1>5. \A l \in loops : l.at \in {"begun", "sending"} /\ l.text \in Nat /\ l.known \in Nat
  BY <1>2 DEF C!Loops
<1>6. /\ composer.mode \in {"new", "loading", "edit", "missing"} /\ composer.visit \in Nat
      /\ composer.typed \in Nat /\ composer.known \in Nat
      /\ composer.modal \in BOOLEAN /\ composer.next \in BOOLEAN
  BY <1>2 DEF C!Pages
<1>7. QED  BY <1>2, <1>3, <1>4, <1>5, <1>6

LEMMA NoneInFlight ==
  ASSUME OneRequest, ~C!Busy
  PROVE  composerSent = {}
BY DEF OneRequest, C!Busy, C!InFlight

LEMMA DraftTyped ==
  ASSUME ComposerInv, C!Type
  PROVE  ComposerInv'
<1>1. /\ composer.mode \in {"new", "edit"} /\ ~composer.modal /\ drafts' = drafts + 1
      /\ composer' = [composer EXCEPT !.typed = drafts + 1]
      /\ UNCHANGED <<campaign, loops, composerSent, campaignCopy, fetch, mailed, tested, early, left>>
  BY DEF C!Type, C!history
<1>2. /\ composer' \in C!Pages /\ composer'.typed = drafts + 1
      /\ composer'.mode = composer.mode /\ composer'.visit = composer.visit
      /\ composer'.known = composer.known /\ composer'.modal = composer.modal
  BY <1>1, ComposerTypes DEF C!Pages, ComposerInv, C!TypeOK
<1>3. C!TypeOK'  BY <1>1, <1>2, ComposerTypes DEF ComposerInv, C!TypeOK
<1>4. DraftInv'  BY <1>1, <1>2, ComposerTypes DEF ComposerInv, DraftInv
<1>5. CopyInv'  BY <1>1, <1>2, ComposerTypes DEF ComposerInv, CopyInv, Underway
<1>6. SeenInv'  BY <1>1, <1>2, ComposerTypes DEF ComposerInv, SeenInv, CopyInv, Underway
<1>7. ASSUME ~left' PROVE StayInv'
  <2>1. OneRequest /\ TextsInv /\ FetchInv /\ NewEnough  BY <1>1, <1>2, <1>7 DEF ComposerInv, StayInv
  <2>2. OneRequest'  BY <1>1, <1>2, <1>7, <2>1, ComposerTypes DEF OneRequest, CopyInv, ComposerInv
  <2>3. TextsInv'
    <3>1. campaign.text <= drafts + 1 /\ \A q \in composerSent : q.text <= drafts + 1
      BY ComposerTypes DEF ComposerInv, DraftInv
    <3>2. QED  BY <1>1, <1>2, <2>1, <3>1 DEF TextsInv
  <2>4. FetchInv'  BY <1>1, <1>2, <1>7, <2>1, ComposerTypes DEF FetchInv, OneRequest, CopyInv, ComposerInv
  <2>5. NewEnough'  BY <1>1, <1>2, <1>7, <2>1, ComposerTypes DEF NewEnough, TextsInv
  <2>6. QED  BY <2>2, <2>3, <2>4, <2>5 DEF StayInv
<1>8. QED  BY <1>3, <1>4, <1>5, <1>6, <1>7 DEF ComposerInv

LEMMA DraftSaved ==
  ASSUME ComposerInv, NEW then \in {"none", "test"}, C!Save(then)
  PROVE  ComposerInv'
<1> DEFINE n == C!Request(IF composer.mode = "new" THEN "create" ELSE "update", then, composer.typed)
<1>1. /\ composer.mode \in {"new", "edit"} /\ ~composer.modal /\ ~C!Busy
      /\ composerSent' = composerSent \cup {n}
      /\ UNCHANGED <<campaign, loops, composer, campaignCopy, fetch, drafts, mailed, tested, early, left>>
  BY DEF C!Save, C!Open, C!history
<1>2. /\ n \in C!Requests /\ n.op \in Saving /\ n.then # "gone" /\ n.text = composer.typed
      /\ n.at = composer.typed /\ n.visit = composer.visit
      /\ n.op = "create" => composer.mode = "new"
      /\ n.op = "update" => composer.mode = "edit"
  BY <1>1, ComposerTypes DEF C!Request, C!Requests, Saving
<1> HIDE DEF n
<1>5. C!TypeOK'  BY <1>1, <1>2, ComposerTypes DEF ComposerInv, C!TypeOK
<1>6. DraftInv'  BY <1>1, <1>2, ComposerTypes DEF ComposerInv, DraftInv
<1>7. CopyInv'  BY <1>1, <1>2, ComposerTypes DEF ComposerInv, CopyInv, Underway
<1>8. SeenInv'  BY <1>1, <1>2, ComposerTypes DEF ComposerInv, SeenInv, Saving
<1>9. ASSUME ~left' PROVE StayInv'
  <2>1. OneRequest /\ TextsInv /\ FetchInv /\ NewEnough  BY <1>1, <1>2, <1>9 DEF ComposerInv, StayInv
  <2>2. OneRequest'  BY <1>1, <1>2, <2>1, NoneInFlight DEF OneRequest
  <2>3. TextsInv'  BY <1>1, <1>2, <2>1, NoneInFlight, ComposerTypes DEF TextsInv, Saving
  <2>4. FetchInv'  BY <1>1, <1>2, <1>9, <2>1, ComposerTypes DEF FetchInv, OneRequest, CopyInv, ComposerInv
  <2>5. NewEnough'  BY <1>1, <1>2, <1>9, <2>1, ComposerTypes DEF NewEnough, TextsInv
  <2>6. QED  BY <2>2, <2>3, <2>4, <2>5 DEF StayInv
<1>10. QED  BY <1>5, <1>6, <1>7, <1>8, <1>9 DEF ComposerInv

LEMMA SendAsked ==
  ASSUME ComposerInv, C!AskSend
  PROVE  ComposerInv'
<1>1. /\ composer' = [composer EXCEPT !.modal = TRUE]
      /\ composer.mode = "edit" /\ ~C!Busy
      /\ UNCHANGED <<campaign, loops, composerSent, campaignCopy, fetch, drafts, mailed, tested, early, left>>
  BY DEF C!AskSend, C!Open, C!history
<1>2. /\ composer' \in C!Pages /\ composer'.modal = TRUE
      /\ composer'.mode = composer.mode /\ composer'.visit = composer.visit
      /\ composer'.known = composer.known /\ composer'.typed = composer.typed
  BY <1>1, ComposerTypes DEF C!Pages, ComposerInv, C!TypeOK
<1>3. C!TypeOK'  BY <1>1, <1>2, ComposerTypes DEF ComposerInv, C!TypeOK
<1>4. DraftInv'  BY <1>1, <1>2, ComposerTypes DEF ComposerInv, DraftInv
<1>5. CopyInv'  BY <1>1, <1>2, ComposerTypes DEF ComposerInv, CopyInv, Underway
<1>6. SeenInv'  BY <1>1, <1>2, ComposerTypes DEF ComposerInv, SeenInv, CopyInv, Underway
<1>7. ASSUME ~left' PROVE StayInv'
  <2>1. OneRequest /\ TextsInv /\ FetchInv /\ NewEnough  BY <1>1, <1>2, <1>7 DEF ComposerInv, StayInv
  <2>2. OneRequest'  BY <1>1, <1>2, <2>1, NoneInFlight DEF OneRequest
  <2>3. TextsInv'  BY <1>1, <1>2, <1>7, <2>1, ComposerTypes DEF TextsInv, OneRequest, Saving, CopyInv, ComposerInv, Underway
  <2>4. FetchInv'  BY <1>1, <1>2, <1>7, <2>1, ComposerTypes DEF FetchInv, OneRequest, CopyInv, ComposerInv
  <2>5. NewEnough'  BY <1>1, <1>2, <1>7, <2>1, ComposerTypes DEF NewEnough, TextsInv
  <2>6. QED  BY <2>2, <2>3, <2>4, <2>5 DEF StayInv
<1>8. QED  BY <1>3, <1>4, <1>5, <1>6, <1>7 DEF ComposerInv

LEMMA ModalClosed ==
  ASSUME ComposerInv, C!CloseModal
  PROVE  ComposerInv'
<1>1. /\ composer' = [composer EXCEPT !.modal = FALSE]
      /\ composer.modal
      /\ UNCHANGED <<campaign, loops, composerSent, campaignCopy, fetch, drafts, mailed, tested, early, left>>
  BY DEF C!CloseModal, C!Open, C!history
<1>2. /\ composer' \in C!Pages /\ composer'.modal = FALSE
      /\ composer'.mode = composer.mode /\ composer'.visit = composer.visit
      /\ composer'.known = composer.known /\ composer'.typed = composer.typed
  BY <1>1, ComposerTypes DEF C!Pages, ComposerInv, C!TypeOK
<1>3. C!TypeOK'  BY <1>1, <1>2, ComposerTypes DEF ComposerInv, C!TypeOK
<1>4. DraftInv'  BY <1>1, <1>2, ComposerTypes DEF ComposerInv, DraftInv
<1>5. CopyInv'  BY <1>1, <1>2, ComposerTypes DEF ComposerInv, CopyInv, Underway
<1>6. SeenInv'  BY <1>1, <1>2, ComposerTypes DEF ComposerInv, SeenInv, CopyInv, Underway
<1>7. ASSUME ~left' PROVE StayInv'
  <2>1. OneRequest /\ TextsInv /\ FetchInv /\ NewEnough  BY <1>1, <1>2, <1>7 DEF ComposerInv, StayInv
  <2>2. OneRequest'  BY <1>1, <1>2, <2>1, NoneInFlight DEF OneRequest
  <2>3. TextsInv'  BY <1>1, <1>2, <1>7, <2>1, ComposerTypes DEF TextsInv, OneRequest, Saving, CopyInv, ComposerInv, Underway
  <2>4. FetchInv'  BY <1>1, <1>2, <1>7, <2>1, ComposerTypes DEF FetchInv, OneRequest, CopyInv, ComposerInv
  <2>5. NewEnough'  BY <1>1, <1>2, <1>7, <2>1, ComposerTypes DEF NewEnough, TextsInv
  <2>6. QED  BY <2>2, <2>3, <2>4, <2>5 DEF StayInv
<1>8. QED  BY <1>3, <1>4, <1>5, <1>6, <1>7 DEF ComposerInv

LEMMA SendConfirmed ==
  ASSUME ComposerInv, C!ConfirmSend
  PROVE  ComposerInv'
<1> DEFINE n == C!Request("send", "none", IF C!Busy THEN composer.typed ELSE composer.known)
<1>1. /\ composer.modal /\ composer' = [composer EXCEPT !.modal = FALSE]
      /\ composerSent' = composerSent \cup {n}
      /\ UNCHANGED <<campaign, loops, campaignCopy, fetch, drafts, mailed, tested, early, left>>
  BY DEF C!ConfirmSend, C!history
<1>2. /\ composer' \in C!Pages /\ ~composer'.modal
      /\ composer'.mode = composer.mode /\ composer'.visit = composer.visit
      /\ composer'.known = composer.known /\ composer'.typed = composer.typed
  BY <1>1, ComposerTypes DEF C!Pages, ComposerInv, C!TypeOK
<1>3. /\ n \in C!Requests /\ n.op = "send" /\ n.then = "none" /\ n.text = composer.typed
      /\ n.visit = composer.visit /\ (C!Busy \/ n.at = composer.known)
  BY <1>1, ComposerTypes DEF C!Request, C!Requests
<1> HIDE DEF n
<1>6. C!TypeOK'  BY <1>1, <1>2, <1>3, ComposerTypes DEF ComposerInv, C!TypeOK
<1>7. DraftInv'  BY <1>1, <1>2, <1>3, ComposerTypes DEF ComposerInv, DraftInv
<1>8. CopyInv'  BY <1>1, <1>2, <1>3, ComposerTypes DEF ComposerInv, CopyInv, Underway
<1>9. SeenInv'  BY <1>1, <1>2, <1>3, ComposerTypes DEF ComposerInv, SeenInv, CopyInv, Underway
<1>10. ASSUME ~left' PROVE StayInv'
  <2>1. OneRequest /\ TextsInv /\ FetchInv /\ NewEnough  BY <1>1, <1>2, <1>3, <1>10 DEF ComposerInv, StayInv
  <2>2. OneRequest'  BY <1>1, <1>2, <1>3, <2>1 DEF OneRequest
  <2>3. TextsInv'
    <3>1. composerSent = {} /\ ~C!Busy  BY <1>1, <2>1 DEF OneRequest, C!Busy, C!InFlight
    <3>2. composerSent' = {n} /\ n.at = composer.known  BY <1>1, <1>3, <3>1
    <3>3. QED  BY <1>1, <1>2, <1>3, <2>1, <3>2, ComposerTypes DEF TextsInv, Saving
  <2>4. FetchInv'  BY <1>1, <1>2, <1>3, <1>10, <2>1, ComposerTypes DEF FetchInv, OneRequest, CopyInv, ComposerInv
  <2>5. NewEnough'  BY <1>1, <1>2, <1>3, <1>10, <2>1, ComposerTypes DEF NewEnough, TextsInv
  <2>6. QED  BY <2>2, <2>3, <2>4, <2>5 DEF StayInv
<1>11. QED  BY <1>6, <1>7, <1>8, <1>9, <1>10 DEF ComposerInv

LEMMA PageVisited ==
  ASSUME ComposerInv, C!Visit
  PROVE  ComposerInv'
<1>1. /\ campaign.status # "NEW"
      /\ composer' = C!Page(IF campaignCopy.at = "none" THEN "loading" ELSE "edit",
                             composer.visit + 1, campaignCopy.row)
      /\ fetch' = IF fetch.at = "no" /\ campaignCopy.at # "fresh" THEN C!Asked ELSE fetch
      /\ left' = (left \/ composerSent # {} \/ campaignCopy.at = "stale"
                   \/ (campaignCopy.at # "none" /\ campaignCopy.row.text # campaign.text))
      /\ UNCHANGED <<campaign, loops, composerSent, campaignCopy, drafts, mailed, tested, early>>
  BY DEF C!Visit
<1>2. /\ composer' \in C!Pages /\ composer'.mode = IF campaignCopy.at = "none" THEN "loading" ELSE "edit"
      /\ composer'.typed = campaignCopy.row.text /\ composer'.known = campaignCopy.row.text
      /\ ~composer'.modal
  BY <1>1, ComposerTypes DEF C!Page, C!Pages
<1>3. /\ fetch' \in [at : {"no", "asked", "read"}, row : C!Rows]
      /\ \/ fetch' = fetch
         \/ fetch'.at = "asked" /\ fetch'.row.status = "NEW" /\ fetch'.row.text = 0
      /\ fetch.at # "no" => fetch'.at # "no" /\ fetch' = fetch
  BY <1>1, ComposerTypes DEF C!Asked, C!NewRow, C!Rows, ComposerInv, C!TypeOK
<1>4. C!TypeOK'  BY <1>1, <1>2, <1>3, ComposerTypes DEF ComposerInv, C!TypeOK
<1>5. DraftInv'  BY <1>1, <1>2, <1>3, ComposerTypes DEF ComposerInv, DraftInv
<1>6. CopyInv'  BY <1>1, <1>2, <1>3, ComposerTypes DEF ComposerInv, CopyInv, Underway
<1>7. SeenInv'  BY <1>1, <1>2, <1>3, ComposerTypes DEF ComposerInv, SeenInv, CopyInv, Underway
<1>8. ASSUME ~left' PROVE StayInv'
  <2>1. OneRequest /\ TextsInv /\ FetchInv /\ NewEnough  BY <1>1, <1>2, <1>3, <1>8 DEF ComposerInv, StayInv
  <2>2. OneRequest'  BY <1>1, <1>2, <1>3, <1>8, <2>1, ComposerTypes DEF OneRequest, CopyInv, ComposerInv
  <2>3. TextsInv'
    <3>1. composerSent = {} /\ (campaignCopy.at = "none" \/ campaignCopy.row.text = campaign.text)
      BY <1>1, <1>8
    <3>2. composer'.mode = "edit" => campaignCopy.row.text = campaign.text  BY <1>1, <1>2, <1>8
    <3>3. campaignCopy.row.text <= campaign.text  BY <3>1, ComposerTypes DEF ComposerInv, CopyInv
    <3>4. QED  BY <1>1, <1>2, <2>1, <3>1, <3>2, <3>3, ComposerTypes DEF TextsInv
  <2>4. FetchInv'  BY <1>1, <1>2, <1>3, <1>8, <2>1, ComposerTypes DEF FetchInv, OneRequest, CopyInv, ComposerInv
  <2>5. NewEnough'  BY <1>1, <1>2, <1>3, <1>8, <2>1, ComposerTypes DEF NewEnough, TextsInv
  <2>6. QED  BY <2>2, <2>3, <2>4, <2>5 DEF StayInv
<1>9. QED  BY <1>4, <1>5, <1>6, <1>7, <1>8 DEF ComposerInv

LEMMA PageReloaded ==
  ASSUME ComposerInv, C!Reload
  PROVE  ComposerInv'
<1>1. /\ campaign.status # "NEW" /\ composer' = C!Page("loading", composer.visit + 1, C!NewRow)
      /\ campaignCopy' = C!NoCopy /\ fetch' = C!Asked
      /\ composerSent' = {[q EXCEPT !.then = "gone"] : q \in composerSent}
      /\ left' = (left \/ composerSent # {})
      /\ UNCHANGED <<campaign, loops, drafts, mailed, tested, early>>
  BY DEF C!Reload
<1>2. /\ composer' \in C!Pages /\ composer'.mode = "loading"
      /\ composer'.typed = 0 /\ composer'.known = 0 /\ ~composer'.modal
  BY <1>1, ComposerTypes DEF C!Page, C!Pages, C!NewRow
<1>3. /\ fetch' \in [at : {"no", "asked", "read"}, row : C!Rows]
      /\ fetch'.at = "asked" /\ fetch'.row.status = "NEW" /\ fetch'.row.text = 0
      /\ campaignCopy' \in [at : {"none", "fresh", "stale"}, row : C!Rows]
      /\ campaignCopy'.at = "none" /\ campaignCopy'.row.status = "NEW" /\ campaignCopy'.row.text = 0
  BY <1>1 DEF C!Asked, C!NoCopy, C!NewRow, C!Rows
<1>4. composerSent' \subseteq C!Requests
  <2>1. \A q \in composerSent : [q EXCEPT !.then = "gone"] \in C!Requests
    BY DEF ComposerInv, C!TypeOK, C!Requests
  <2>2. QED  BY <1>1, <2>1
<1>5. \A q \in composerSent' : q.then = "gone" /\ q.text <= drafts
  <2>1. \A q \in composerSent : [q EXCEPT !.then = "gone"].then = "gone"
                              /\ [q EXCEPT !.then = "gone"].text = q.text
    BY DEF ComposerInv, C!TypeOK, C!Requests
  <2>2. ASSUME NEW q \in composerSent' PROVE q.then = "gone" /\ q.text <= drafts
    <3>1. PICK p \in composerSent : q = [p EXCEPT !.then = "gone"]  BY <1>1
    <3>2. QED  BY <2>1, <3>1 DEF ComposerInv, DraftInv
  <2>3. QED  BY <2>2
<1>6. composerSent = {} => composerSent' = {}  BY <1>1
<1>7. C!TypeOK'  BY <1>1, <1>2, <1>3, <1>4, <1>5, <1>6, ComposerTypes DEF ComposerInv, C!TypeOK
<1>8. DraftInv'  BY <1>1, <1>2, <1>3, <1>4, <1>5, <1>6, ComposerTypes DEF ComposerInv, DraftInv
<1>9. CopyInv'  BY <1>1, <1>2, <1>3, <1>4, <1>5, <1>6, ComposerTypes DEF ComposerInv, CopyInv, Underway
<1>10. SeenInv'  BY <1>1, <1>2, <1>3, <1>4, <1>5, <1>6, ComposerTypes DEF ComposerInv, SeenInv, CopyInv, Underway
<1>11. ASSUME ~left' PROVE StayInv'
  <2>1. OneRequest /\ TextsInv /\ FetchInv /\ NewEnough  BY <1>1, <1>2, <1>3, <1>4, <1>5, <1>6, <1>11 DEF ComposerInv, StayInv
  <2>2. OneRequest'  BY <1>1, <1>2, <1>3, <1>4, <1>5, <1>6, <1>11, <2>1, ComposerTypes DEF OneRequest, CopyInv, ComposerInv
  <2>3. TextsInv'
    <3>1. composerSent' = {}  BY <1>1, <1>6, <1>11
    <3>2. QED  BY <1>1, <1>2, <2>1, <3>1, ComposerTypes DEF TextsInv
  <2>4. FetchInv'  BY <1>1, <1>2, <1>3, <1>4, <1>5, <1>6, <1>11, <2>1, ComposerTypes DEF FetchInv, OneRequest, CopyInv, ComposerInv
  <2>5. NewEnough'  BY <1>1, <1>2, <1>3, <1>4, <1>5, <1>6, <1>11, <2>1, ComposerTypes DEF NewEnough, TextsInv
  <2>6. QED  BY <2>2, <2>3, <2>4, <2>5 DEF StayInv
<1>12. QED  BY <1>7, <1>8, <1>9, <1>10, <1>11 DEF ComposerInv

LEMMA CampaignRead ==
  ASSUME ComposerInv, C!Read
  PROVE  ComposerInv'
<1>1. /\ fetch.at = "asked" /\ fetch' = [at |-> "read", row |-> campaign]
      /\ early' = (early \/ \E l \in loops : l.at = "begun")
      /\ UNCHANGED <<campaign, loops, composer, composerSent, campaignCopy, drafts, mailed, tested, left>>
  BY DEF C!Read
<1>2. fetch' \in [at : {"no", "asked", "read"}, row : C!Rows] /\ fetch'.at = "read" /\ fetch'.row = campaign
  BY <1>1 DEF ComposerInv, C!TypeOK
<1>3. C!TypeOK'  BY <1>1, <1>2, ComposerTypes DEF ComposerInv, C!TypeOK
<1>4. DraftInv'  BY <1>1, <1>2, ComposerTypes DEF ComposerInv, DraftInv
<1>5. CopyInv'  BY <1>1, <1>2, ComposerTypes DEF ComposerInv, CopyInv, Underway
<1>6. SeenInv'  BY <1>1, <1>2, ComposerTypes DEF ComposerInv, SeenInv, CopyInv, Underway
<1>7. ASSUME ~left' PROVE StayInv'
  <2>1. OneRequest /\ TextsInv /\ FetchInv /\ NewEnough  BY <1>1, <1>2, <1>7 DEF ComposerInv, StayInv
  <2>2. OneRequest'  BY <1>1, <1>2, <1>7, <2>1, ComposerTypes DEF OneRequest, CopyInv, ComposerInv
  <2>3. TextsInv'  BY <1>1, <1>2, <1>7, <2>1, ComposerTypes DEF TextsInv, OneRequest, Saving, CopyInv, ComposerInv, Underway
  <2>4. FetchInv'  BY <1>1, <1>2, <1>7, <2>1, ComposerTypes DEF FetchInv, OneRequest, CopyInv, ComposerInv
  <2>5. NewEnough'  BY <1>1, <1>2, <1>7, <2>1, ComposerTypes DEF NewEnough, TextsInv
  <2>6. QED  BY <2>2, <2>3, <2>4, <2>5 DEF StayInv
<1>8. QED  BY <1>3, <1>4, <1>5, <1>6, <1>7 DEF ComposerInv

LEMMA CampaignArrives ==
  ASSUME ComposerInv, C!Arrive
  PROVE  ComposerInv'
<1>1. /\ fetch.at = "read" /\ fetch' = C!Idle /\ campaignCopy' = [at |-> "fresh", row |-> fetch.row]
      /\ composer' = IF composer.mode \in {"loading", "missing"}
                     THEN C!Page("edit", composer.visit, fetch.row) ELSE composer
      /\ UNCHANGED <<campaign, loops, composerSent, drafts, mailed, tested, early, left>>
  BY DEF C!Arrive, C!history
<1>2. /\ fetch' \in [at : {"no", "asked", "read"}, row : C!Rows] /\ fetch'.at = "no"
      /\ fetch'.row.status = "NEW" /\ fetch'.row.text = 0
      /\ campaignCopy' \in [at : {"none", "fresh", "stale"}, row : C!Rows]
      /\ campaignCopy'.at = "fresh" /\ campaignCopy'.row = fetch.row
  BY <1>1 DEF C!Idle, C!NewRow, C!Rows, ComposerInv, C!TypeOK
<1>3. /\ composer' \in C!Pages /\ composer'.visit = composer.visit
      /\ \/ composer' = composer /\ composer.mode = "edit"
         \/ /\ composer.mode \in {"loading", "missing"} /\ composer'.mode = "edit" /\ ~composer'.modal
            /\ composer'.typed = fetch.row.text /\ composer'.known = fetch.row.text
  BY <1>1, ComposerTypes DEF C!Page, C!Pages, ComposerInv, C!TypeOK, CopyInv
<1>4. C!TypeOK'  BY <1>1, <1>2, <1>3, ComposerTypes DEF ComposerInv, C!TypeOK
<1>5. DraftInv'  BY <1>1, <1>2, <1>3, ComposerTypes DEF ComposerInv, DraftInv
<1>6. CopyInv'  BY <1>1, <1>2, <1>3, ComposerTypes DEF ComposerInv, CopyInv, Underway
<1>7. SeenInv'  BY <1>1, <1>2, <1>3, ComposerTypes DEF ComposerInv, SeenInv, CopyInv, Underway
<1>8. ASSUME ~left' PROVE StayInv'
  <2>1. OneRequest /\ TextsInv /\ FetchInv /\ NewEnough  BY <1>1, <1>2, <1>3, <1>8 DEF ComposerInv, StayInv
  <2>2. OneRequest'  BY <1>1, <1>2, <1>3, <1>8, <2>1, ComposerTypes DEF OneRequest, CopyInv, ComposerInv
  <2>3. TextsInv'
    <3>1. CASE composer' = composer
      BY <1>1, <1>2, <2>1, <3>1, ComposerTypes DEF TextsInv
    <3>2. CASE composer' # composer
      <4>1. fetch.row.text = campaign.text  BY <1>1, <1>3, <2>1, <3>2 DEF FetchInv
      <4>2. \A q \in composerSent : q.op \in Saving => campaign.status \in Underway
        BY <1>1, <1>3, <2>1, <3>2, ComposerTypes
        DEF FetchInv, OneRequest, CopyInv, ComposerInv, Saving, Underway
      <4>3. QED  BY <1>1, <1>2, <1>3, <2>1, <3>2, <4>1, <4>2, ComposerTypes DEF TextsInv
    <3>3. QED  BY <3>1, <3>2
  <2>4. FetchInv'  BY <1>1, <1>2, <1>3, <1>8, <2>1, ComposerTypes DEF FetchInv, OneRequest, CopyInv, ComposerInv
  <2>5. NewEnough'  BY <1>1, <1>2, <1>3, <1>8, <2>1, ComposerTypes DEF NewEnough, TextsInv
  <2>6. QED  BY <2>2, <2>3, <2>4, <2>5 DEF StayInv
<1>9. QED  BY <1>4, <1>5, <1>6, <1>7, <1>8 DEF ComposerInv

LEMMA CampaignUnread ==
  ASSUME ComposerInv, C!FetchFails
  PROVE  ComposerInv'
<1>1. /\ fetch.at # "no" /\ fetch' = C!Idle
      /\ composer' = IF composer.mode = "new" THEN composer
                     ELSE [composer EXCEPT !.mode = "missing", !.modal = FALSE]
      /\ early' = TRUE
      /\ UNCHANGED <<campaign, loops, composerSent, campaignCopy, drafts, mailed, tested, left>>
  BY DEF C!FetchFails
<1>2. /\ fetch' \in [at : {"no", "asked", "read"}, row : C!Rows] /\ fetch'.at = "no"
      /\ fetch'.row.status = "NEW" /\ fetch'.row.text = 0
  BY <1>1 DEF C!Idle, C!NewRow, C!Rows
<1>3. composer.mode # "new"  BY <1>1 DEF ComposerInv, CopyInv
<1>4. /\ composer' \in C!Pages /\ composer'.mode = "missing" /\ ~composer'.modal
      /\ composer'.visit = composer.visit /\ composer'.typed = composer.typed /\ composer'.known = composer.known
  BY <1>1, <1>3 DEF C!Pages, ComposerInv, C!TypeOK
<1>5. C!TypeOK'  BY <1>1, <1>2, <1>3, <1>4, ComposerTypes DEF ComposerInv, C!TypeOK
<1>6. DraftInv'  BY <1>1, <1>2, <1>3, <1>4, ComposerTypes DEF ComposerInv, DraftInv
<1>7. CopyInv'  BY <1>1, <1>2, <1>3, <1>4, ComposerTypes DEF ComposerInv, CopyInv, Underway
<1>8. SeenInv'  BY <1>1, <1>2, <1>3, <1>4, ComposerTypes DEF ComposerInv, SeenInv, CopyInv, Underway
<1>9. ASSUME ~left' PROVE StayInv'
  <2>1. OneRequest /\ TextsInv /\ FetchInv /\ NewEnough  BY <1>1, <1>2, <1>3, <1>4, <1>9 DEF ComposerInv, StayInv
  <2>2. OneRequest'  BY <1>1, <1>2, <1>3, <1>4, <1>9, <2>1, ComposerTypes DEF OneRequest, CopyInv, ComposerInv
  <2>3. TextsInv'  BY <1>1, <1>2, <1>3, <1>4, <1>9, <2>1, ComposerTypes DEF TextsInv, OneRequest, Saving, CopyInv, ComposerInv, Underway
  <2>4. FetchInv'  BY <1>1, <1>2, <1>3, <1>4, <1>9, <2>1, ComposerTypes DEF FetchInv, OneRequest, CopyInv, ComposerInv
  <2>5. NewEnough'  BY <1>1, <1>2, <1>3, <1>4, <1>9, <2>1, ComposerTypes DEF NewEnough, TextsInv
  <2>6. QED  BY <2>2, <2>3, <2>4, <2>5 DEF StayInv
<1>10. QED  BY <1>5, <1>6, <1>7, <1>8, <1>9 DEF ComposerInv

LEMMA CampaignPolled ==
  ASSUME ComposerInv, C!Poll
  PROVE  ComposerInv'
<1>1. /\ composer.mode # "new" /\ campaignCopy.row.status = "SENDING" /\ fetch.at = "no" /\ fetch' = C!Asked
      /\ UNCHANGED <<campaign, loops, composer, composerSent, campaignCopy, drafts, mailed, tested, early, left>>
  BY DEF C!Poll, C!history
<1>2. /\ fetch' \in [at : {"no", "asked", "read"}, row : C!Rows] /\ fetch'.at = "asked"
      /\ fetch'.row.status = "NEW" /\ fetch'.row.text = 0
  BY <1>1 DEF C!Asked, C!NewRow, C!Rows
<1>3. C!TypeOK'  BY <1>1, <1>2, ComposerTypes DEF ComposerInv, C!TypeOK
<1>4. DraftInv'  BY <1>1, <1>2, ComposerTypes DEF ComposerInv, DraftInv
<1>5. CopyInv'  BY <1>1, <1>2, ComposerTypes DEF ComposerInv, CopyInv, Underway
<1>6. SeenInv'  BY <1>1, <1>2, ComposerTypes DEF ComposerInv, SeenInv, CopyInv, Underway
<1>7. ASSUME ~left' PROVE StayInv'
  <2>1. OneRequest /\ TextsInv /\ FetchInv /\ NewEnough  BY <1>1, <1>2, <1>7 DEF ComposerInv, StayInv
  <2>2. OneRequest'  BY <1>1, <1>2, <1>7, <2>1, ComposerTypes DEF OneRequest, CopyInv, ComposerInv
  <2>3. TextsInv'  BY <1>1, <1>2, <1>7, <2>1, ComposerTypes DEF TextsInv, OneRequest, Saving, CopyInv, ComposerInv, Underway
  <2>4. FetchInv'  BY <1>1, <1>2, <2>1 DEF FetchInv, CopyInv, ComposerInv, Underway
  <2>5. NewEnough'  BY <1>1, <1>2, <1>7, <2>1, ComposerTypes DEF NewEnough, TextsInv
  <2>6. QED  BY <2>2, <2>3, <2>4, <2>5 DEF StayInv
<1>8. QED  BY <1>3, <1>4, <1>5, <1>6, <1>7 DEF ComposerInv

LEMMA CopyAged ==
  ASSUME ComposerInv, C!Age
  PROVE  ComposerInv'
<1>1. /\ campaignCopy.at = "fresh" /\ campaignCopy' = [campaignCopy EXCEPT !.at = "stale"]
      /\ UNCHANGED <<campaign, loops, composer, composerSent, fetch, drafts, mailed, tested, early, left>>
  BY DEF C!Age, C!history
<1>2. /\ campaignCopy' \in [at : {"none", "fresh", "stale"}, row : C!Rows]
      /\ campaignCopy'.at = "stale" /\ campaignCopy'.row = campaignCopy.row
  BY <1>1 DEF ComposerInv, C!TypeOK
<1>3. C!TypeOK'  BY <1>1, <1>2, ComposerTypes DEF ComposerInv, C!TypeOK
<1>4. DraftInv'  BY <1>1, <1>2, ComposerTypes DEF ComposerInv, DraftInv
<1>5. CopyInv'  BY <1>1, <1>2, ComposerTypes DEF ComposerInv, CopyInv, Underway
<1>6. SeenInv'  BY <1>1, <1>2, ComposerTypes DEF ComposerInv, SeenInv, CopyInv, Underway
<1>7. ASSUME ~left' PROVE StayInv'
  <2>1. OneRequest /\ TextsInv /\ FetchInv /\ NewEnough  BY <1>1, <1>2, <1>7 DEF ComposerInv, StayInv
  <2>2. OneRequest'  BY <1>1, <1>2, <1>7, <2>1, ComposerTypes DEF OneRequest, CopyInv, ComposerInv
  <2>3. TextsInv'  BY <1>1, <1>2, <1>7, <2>1, ComposerTypes DEF TextsInv, OneRequest, Saving, CopyInv, ComposerInv, Underway
  <2>4. FetchInv'  BY <1>1, <1>2, <1>7, <2>1, ComposerTypes DEF FetchInv, OneRequest, CopyInv, ComposerInv
  <2>5. NewEnough'  BY <1>1, <1>2, <1>7, <2>1, ComposerTypes DEF NewEnough, TextsInv
  <2>6. QED  BY <2>2, <2>3, <2>4, <2>5 DEF StayInv
<1>8. QED  BY <1>3, <1>4, <1>5, <1>6, <1>7 DEF ComposerInv

LEMMA RequestRefused ==
  ASSUME ComposerInv, NEW q \in composerSent, C!Refuse(q)
  PROVE  ComposerInv'
<1>1. /\ composerSent' = composerSent \ {q}
      /\ UNCHANGED <<campaign, loops, composer, campaignCopy, fetch, drafts, mailed, tested, early, left>>
  BY DEF C!Refuse, C!history
<1>2. C!TypeOK'  BY <1>1, ComposerTypes DEF ComposerInv, C!TypeOK
<1>3. DraftInv'  BY <1>1, ComposerTypes DEF ComposerInv, DraftInv
<1>4. CopyInv'  BY <1>1, ComposerTypes DEF ComposerInv, CopyInv, Underway
<1>5. SeenInv'  BY <1>1, ComposerTypes DEF ComposerInv, SeenInv, CopyInv, Underway
<1>6. ASSUME ~left' PROVE StayInv'
  <2>1. OneRequest /\ TextsInv /\ FetchInv /\ NewEnough  BY <1>1, <1>6 DEF ComposerInv, StayInv
  <2>2. OneRequest'  BY <1>1, <1>6, <2>1, ComposerTypes DEF OneRequest, CopyInv, ComposerInv
  <2>3. TextsInv'  BY <1>1, <1>6, <2>1, ComposerTypes DEF TextsInv, OneRequest, Saving, CopyInv, ComposerInv, Underway
  <2>4. FetchInv'  BY <1>1, <1>6, <2>1, ComposerTypes DEF FetchInv, OneRequest, CopyInv, ComposerInv
  <2>5. NewEnough'  BY <1>1, <1>6, <2>1, ComposerTypes DEF NewEnough, TextsInv
  <2>6. QED  BY <2>2, <2>3, <2>4, <2>5 DEF StayInv
<1>7. QED  BY <1>2, <1>3, <1>4, <1>5, <1>6 DEF ComposerInv

LEMMA LoopMarks ==
  ASSUME ComposerInv, NEW l \in loops, C!Mark(l)
  PROVE  ComposerInv'
<1> DEFINE n == [l EXCEPT !.at = "sending", !.text = campaign.text]
<1>1. /\ l.at = "begun" /\ loops' = (loops \ {l}) \cup {n} /\ campaign' = [campaign EXCEPT !.status = "SENDING"]
      /\ UNCHANGED <<composer, composerSent, campaignCopy, fetch, drafts, mailed, tested, early, left>>
  BY DEF C!Mark, C!history
<1>2. /\ n \in C!Loops /\ n.at = "sending" /\ n.text = campaign.text /\ n.known = l.known
      /\ campaign' \in C!Rows /\ campaign'.status = "SENDING" /\ campaign'.text = campaign.text
  BY <1>1 DEF ComposerInv, C!TypeOK, C!Loops, C!Rows, C!Statuses
<1> HIDE DEF n
<1>5. C!TypeOK'  BY <1>1, <1>2, ComposerTypes DEF ComposerInv, C!TypeOK
<1>6. DraftInv'  BY <1>1, <1>2, ComposerTypes DEF ComposerInv, DraftInv
<1>7. CopyInv'  BY <1>1, <1>2, ComposerTypes DEF ComposerInv, CopyInv, Underway
<1>8. SeenInv'  BY <1>1, <1>2, ComposerTypes DEF ComposerInv, SeenInv, CopyInv, Underway
<1>9. ASSUME ~left' PROVE StayInv'
  <2>1. OneRequest /\ TextsInv /\ FetchInv /\ NewEnough  BY <1>1, <1>2, <1>9 DEF ComposerInv, StayInv
  <2>2. OneRequest'  BY <1>1, <1>2, <1>9, <2>1, ComposerTypes DEF OneRequest, CopyInv, ComposerInv
  <2>3. TextsInv'  BY <1>1, <1>2, <1>9, <2>1, ComposerTypes DEF TextsInv, OneRequest, Saving, CopyInv, ComposerInv, Underway
  <2>4. FetchInv'  BY <1>1, <1>2, <1>9, <2>1, ComposerTypes DEF FetchInv, OneRequest, CopyInv, ComposerInv
  <2>5. NewEnough'  BY <1>1, <1>2, <1>9, <2>1, ComposerTypes DEF NewEnough, TextsInv
  <2>6. QED  BY <2>2, <2>3, <2>4, <2>5 DEF StayInv
<1>10. QED  BY <1>5, <1>6, <1>7, <1>8, <1>9 DEF ComposerInv

LEMMA LoopFinishes ==
  ASSUME ComposerInv, NEW l \in loops, C!Finish(l)
  PROVE  ComposerInv'
<1>1. /\ l.at = "sending" /\ loops' = loops \ {l} /\ campaign' = [campaign EXCEPT !.status = "SENT"]
      /\ mailed' = mailed \cup {<<l.known, l.text>>}
      /\ UNCHANGED <<composer, composerSent, campaignCopy, fetch, drafts, tested, early, left>>
  BY DEF C!Finish
<1>2. campaign' \in C!Rows /\ campaign'.status = "SENT" /\ campaign'.text = campaign.text
  BY <1>1 DEF ComposerInv, C!TypeOK, C!Rows, C!Statuses
<1>3. C!TypeOK'  BY <1>1, <1>2, ComposerTypes DEF ComposerInv, C!TypeOK
<1>4. DraftInv'  BY <1>1, <1>2, ComposerTypes DEF ComposerInv, DraftInv
<1>5. CopyInv'  BY <1>1, <1>2, ComposerTypes DEF ComposerInv, CopyInv, Underway
<1>6. SeenInv'  BY <1>1, <1>2, ComposerTypes DEF ComposerInv, SeenInv, CopyInv, Underway
<1>7. ASSUME ~left' PROVE StayInv'
  <2>1. OneRequest /\ TextsInv /\ FetchInv /\ NewEnough  BY <1>1, <1>2, <1>7 DEF ComposerInv, StayInv
  <2>2. OneRequest'  BY <1>1, <1>2, <1>7, <2>1, ComposerTypes DEF OneRequest, CopyInv, ComposerInv
  <2>3. TextsInv'  BY <1>1, <1>2, <1>7, <2>1, ComposerTypes DEF TextsInv, OneRequest, Saving, CopyInv, ComposerInv, Underway
  <2>4. FetchInv'  BY <1>1, <1>2, <1>7, <2>1, ComposerTypes DEF FetchInv, OneRequest, CopyInv, ComposerInv
  <2>5. NewEnough'  BY <1>1, <1>2, <1>7, <2>1, ComposerTypes DEF NewEnough, TextsInv
  <2>6. QED  BY <2>2, <2>3, <2>4, <2>5 DEF StayInv
<1>8. QED  BY <1>3, <1>4, <1>5, <1>6, <1>7 DEF ComposerInv

LEMMA LoopsEnd ==
  ASSUME ComposerInv, C!Crash
  PROVE  ComposerInv'
<1>1. /\ loops' = {}
      /\ UNCHANGED <<campaign, composer, composerSent, campaignCopy, fetch, drafts, mailed, tested, early, left>>
  BY DEF C!Crash, C!history
<1>2. C!TypeOK'  BY <1>1, ComposerTypes DEF ComposerInv, C!TypeOK
<1>3. DraftInv'  BY <1>1, ComposerTypes DEF ComposerInv, DraftInv
<1>4. CopyInv'  BY <1>1, ComposerTypes DEF ComposerInv, CopyInv, Underway
<1>5. SeenInv'  BY <1>1, ComposerTypes DEF ComposerInv, SeenInv, CopyInv, Underway
<1>6. ASSUME ~left' PROVE StayInv'
  <2>1. OneRequest /\ TextsInv /\ FetchInv /\ NewEnough  BY <1>1, <1>6 DEF ComposerInv, StayInv
  <2>2. OneRequest'  BY <1>1, <1>6, <2>1, ComposerTypes DEF OneRequest, CopyInv, ComposerInv
  <2>3. TextsInv'  BY <1>1, <1>6, <2>1, ComposerTypes DEF TextsInv, OneRequest, Saving, CopyInv, ComposerInv, Underway
  <2>4. FetchInv'  BY <1>1, <1>6, <2>1, ComposerTypes DEF FetchInv, OneRequest, CopyInv, ComposerInv
  <2>5. NewEnough'  BY <1>1, <1>6, <2>1, ComposerTypes DEF NewEnough, TextsInv
  <2>6. QED  BY <2>2, <2>3, <2>4, <2>5 DEF StayInv
<1>7. QED  BY <1>2, <1>3, <1>4, <1>5, <1>6 DEF ComposerInv

\* What is saved is stored, and what a send begins.
LEMMA AcceptStores ==
  ASSUME ComposerInv, NEW q \in composerSent, C!Accept(q)
  PROVE  /\ C!Allowed(q) /\ UNCHANGED <<drafts, mailed, left>>
         /\ q.op \in Saving => /\ campaign' \in C!Rows /\ campaign'.status = "DRAFT" /\ campaign'.text = q.text
                               /\ loops' = loops /\ tested' = tested
         /\ q.op \notin Saving => campaign' = campaign
         /\ q.op = "test" => loops' = loops /\ tested' = tested \cup {<<q.at, campaign.text>>}
         /\ q.op = "send" => /\ loops' = loops \cup {[at |-> "begun", text |-> 0, known |-> q.at]}
                             /\ tested' = tested
BY ComposerTypes DEF C!Accept, C!Rows, C!Statuses, Saving

\* A row that takes a request is no further than a draft.
LEMMA AllowedWhen ==
  ASSUME ComposerInv, NEW q \in composerSent, C!Allowed(q)
  PROVE  /\ q.op = "create" => campaign.status = "NEW"
         /\ q.op \in {"update", "send"} => campaign.status = "DRAFT"
BY DEF C!Allowed

\* What becomes of the page and its copy: the answer is heard or lost.
LEMMA AcceptAnswers ==
  ASSUME ComposerInv, NEW q \in composerSent, C!Accept(q)
  PROVE  \/ /\ q.then # "gone" /\ composerSent' = (composerSent \ {q}) \cup C!Following(q)
            /\ composer' = C!After(q) /\ early' = early
            /\ q.op # "test" => C!Refetched
            /\ q.op = "test" => UNCHANGED <<campaignCopy, fetch>>
         \/ /\ composerSent' = composerSent \ {q} /\ early' = (early \/ q.op = "send")
            /\ UNCHANGED <<composer, campaignCopy, fetch>>
BY DEF C!Accept

LEMMA AcceptShapes ==
  ASSUME ComposerInv, NEW q \in composerSent, C!Accept(q)
  PROVE  /\ composer' \in C!Pages /\ composer'.mode = composer.mode /\ composer'.visit = composer.visit
         /\ composer'.typed = composer.typed /\ composer'.modal = composer.modal
         /\ (composer'.known = composer.known \/ (q.op \in Saving /\ composer'.known = q.text))
         /\ composerSent' \subseteq C!Requests
         /\ \A p \in composerSent' :
                \/ p \in composerSent /\ p # q
                \/ /\ q.then = "test" /\ p.op = "test" /\ p.then = "none"
                   /\ p.text = q.text /\ p.at = q.at /\ p.visit = q.visit
         /\ \A p, r \in composerSent' : p \in composerSent \/ r \in composerSent \/ p = r
         /\ campaignCopy' \in [at : {"none", "fresh", "stale"}, row : C!Rows]
         /\ campaignCopy'.row = campaignCopy.row /\ (campaignCopy'.at = "none" <=> campaignCopy.at = "none")
         /\ fetch' \in [at : {"no", "asked", "read"}, row : C!Rows]
         /\ \/ fetch' = fetch
            \/ /\ fetch'.at = "asked" /\ fetch'.row.status = "NEW" /\ fetch'.row.text = 0
               /\ composer.mode # "new"
<1>1. /\ composer \in C!Pages /\ composerSent \subseteq C!Requests
      /\ campaignCopy \in [at : {"none", "fresh", "stale"}, row : C!Rows]
      /\ fetch \in [at : {"no", "asked", "read"}, row : C!Rows]
  BY DEF ComposerInv, C!TypeOK
<1>2. /\ C!After(q) \in C!Pages /\ C!After(q).mode = composer.mode /\ C!After(q).visit = composer.visit
      /\ C!After(q).typed = composer.typed /\ C!After(q).modal = composer.modal
      /\ (C!After(q).known = composer.known \/ (q.op \in Saving /\ C!After(q).known = q.text))
  <2>1. q.text \in Nat /\ (q.op = "create") \in BOOLEAN  BY <1>1 DEF C!Requests
  <2>2. QED  BY <1>1, <2>1 DEF C!After, C!Pages, Saving
<1>3. \A p \in C!Following(q) : /\ p \in C!Requests /\ q.then = "test" /\ p.op = "test" /\ p.then = "none"
                               /\ p.text = q.text /\ p.at = q.at /\ p.visit = q.visit
  BY <1>1 DEF C!Following, C!Requests
<1>4. \A p, r \in C!Following(q) : p = r  BY DEF C!Following
<1>5. C!Refetched =>
         /\ campaignCopy' \in [at : {"none", "fresh", "stale"}, row : C!Rows]
         /\ campaignCopy'.row = campaignCopy.row /\ (campaignCopy'.at = "none" <=> campaignCopy.at = "none")
         /\ fetch' \in [at : {"no", "asked", "read"}, row : C!Rows]
         /\ \/ fetch' = fetch
            \/ /\ fetch'.at = "asked" /\ fetch'.row.status = "NEW" /\ fetch'.row.text = 0
               /\ composer.mode # "new"
  BY <1>1 DEF C!Refetched, C!Asked, C!NewRow, C!Rows
<1>6. /\ campaignCopy' \in [at : {"none", "fresh", "stale"}, row : C!Rows]
      /\ campaignCopy'.row = campaignCopy.row /\ (campaignCopy'.at = "none" <=> campaignCopy.at = "none")
      /\ fetch' \in [at : {"no", "asked", "read"}, row : C!Rows]
      /\ \/ fetch' = fetch
         \/ /\ fetch'.at = "asked" /\ fetch'.row.status = "NEW" /\ fetch'.row.text = 0
            /\ composer.mode # "new"
  BY <1>1, <1>5, AcceptAnswers
<1>7. QED  BY <1>1, <1>2, <1>3, <1>4, <1>6, AcceptAnswers

LEMMA RequestAccepted ==
  ASSUME ComposerInv, NEW q \in composerSent, C!Accept(q)
  PROVE  ComposerInv'
<1> DEFINE n == [at |-> "begun", text |-> 0, known |-> q.at]
<1>1. n \in C!Loops /\ n.at = "begun" /\ n.known = q.at  BY ComposerTypes DEF C!Loops
<1> HIDE DEF n
<1>2. /\ q.op \in Saving \/ q.op = "test" \/ q.op = "send"
      /\ loops' = loops \/ (q.op = "send" /\ loops' = loops \cup {n})
      /\ tested' = tested \/ (q.op = "test" /\ tested' = tested \cup {<<q.at, campaign.text>>})
  BY AcceptStores, ComposerTypes DEF Saving, n
<1>3. /\ q.op = "create" => campaign.status = "NEW"
      /\ q.op \in {"update", "send"} => campaign.status = "DRAFT"
      /\ q.op \in Saving => q.op = "create" \/ q.op = "update"
  BY AcceptStores, AllowedWhen DEF Saving
<1>4. C!TypeOK'
  BY <1>1, <1>2, AcceptStores, AcceptShapes, ComposerTypes DEF ComposerInv, C!TypeOK
<1>5. DraftInv'  BY AcceptStores, AcceptShapes, ComposerTypes DEF ComposerInv, DraftInv
<1>6. CopyInv'
  BY <1>1, <1>2, <1>3, AcceptStores, AcceptShapes, ComposerTypes DEF ComposerInv, CopyInv, Underway
<1>7. ASSUME ~early' PROVE SeenInv'
  <2>1. ~early /\ SeenInv  BY <1>7, AcceptAnswers DEF ComposerInv
  <2>2. \A p \in composerSent' : p.op = "send" /\ p.then # "gone" => campaignCopy'.at # "none" /\ composer'.mode # "new"
    BY <2>1, AcceptShapes DEF SeenInv
  <2>3. CASE q.op = "send"
    <3>1. q.then # "gone" /\ C!Refetched  BY <1>7, <2>3, AcceptAnswers
    <3>2. fetch' = C!Asked  BY <2>1, <2>3, <3>1 DEF SeenInv, C!Refetched
    <3>3. QED  BY <2>2, <3>2 DEF SeenInv, C!Asked
  <2>4. CASE q.op # "send"
    <3>1. loops' = loops /\ (campaign' = campaign \/ campaign'.status = "DRAFT")
      BY <1>2, <2>4, AcceptStores
    <3>2. campaign'.status \in Underway \/ loops' # {} => campaign.status \in Underway \/ loops # {}
      BY <3>1 DEF Underway
    <3>3. QED  BY <2>1, <2>2, <3>2, AcceptShapes DEF SeenInv
  <2>5. QED  BY <2>3, <2>4
<1>8. ASSUME ~left' PROVE StayInv'
  <2>1. OneRequest /\ TextsInv /\ FetchInv /\ NewEnough  BY <1>8, AcceptStores DEF ComposerInv, StayInv
  <2>2. /\ composerSent = {q} /\ q.visit = composer.visit /\ ~composer.modal
        /\ q.op = "create" => composer.mode = "new"
    BY <2>1 DEF OneRequest
  <2>3. \A p \in composerSent' : /\ q.then = "test" /\ p.op = "test" /\ p.then = "none"
                                /\ p.text = q.text /\ p.at = q.at /\ p.visit = q.visit
    BY <2>2, AcceptShapes
  <2>4. OneRequest'  BY <2>2, <2>3, AcceptShapes DEF OneRequest
  <2>5. TextsInv'
    <3>1. CASE q.op \in Saving
      <4>1. /\ campaign.text <= q.text /\ q.at = q.text /\ campaign'.text = q.text
            /\ q.text <= composer.typed
        BY <1>3, <2>1, <3>1, AcceptStores DEF TextsInv, Underway
      <4>2. composer'.known <= campaign'.text  BY <2>1, <4>1, AcceptShapes, ComposerTypes DEF TextsInv
      <4>3. \A l \in loops : /\ l.at = "begun" => l.known <= campaign'.text
                             /\ l.at = "sending" => l.known <= l.text
        BY <2>1, <4>1, ComposerTypes DEF TextsInv
      <4>4. loops' = loops /\ composer'.typed = composer.typed  BY <3>1, AcceptStores, AcceptShapes
      <4>5. QED  BY <2>3, <4>1, <4>2, <4>3, <4>4, ComposerTypes DEF TextsInv, Saving
    <3>2. CASE q.op \notin Saving
      <4>1. campaign' = campaign /\ composer'.known = composer.known /\ q.at <= campaign.text
        BY <2>1, <3>2, AcceptStores, AcceptShapes DEF TextsInv
      <4>2. QED  BY <1>1, <1>2, <2>1, <2>3, <4>1, AcceptShapes DEF TextsInv, Saving
    <3>3. QED  BY <3>1, <3>2
  <2>6. FetchInv'
    <3>1. CASE q.op \in Saving
      <4>1. composer.mode \in {"loading", "missing"} => fetch.at = "no"
        BY <1>3, <2>1, <2>2, <3>1 DEF FetchInv
      <4>2. QED  BY <2>3, <4>1, AcceptShapes DEF FetchInv
    <3>2. CASE q.op \notin Saving
      BY <2>1, <2>3, <3>2, AcceptStores, AcceptShapes DEF FetchInv
    <3>3. QED  BY <3>1, <3>2
  <2>7. NewEnough'
    <3>1. q.op = "test" => q.at <= campaign.text  BY <2>1 DEF TextsInv, Saving
    <3>2. QED  BY <1>2, <2>1, <3>1, AcceptStores, ComposerTypes DEF NewEnough
  <2>8. QED  BY <2>4, <2>5, <2>6, <2>7 DEF StayInv
<1>9. SeenInv'  BY <1>7 DEF SeenInv
<1>10. QED  BY <1>4, <1>5, <1>6, <1>8, <1>9 DEF ComposerInv

LEMMA ComposerStarts ==
  ASSUME C!Init
  PROVE  ComposerInv
<1>1. /\ campaign.status = "NEW" /\ campaign.text = 0 /\ campaign \in C!Rows /\ loops = {}
      /\ composer \in C!Pages /\ composer.mode = "new" /\ ~composer.modal
      /\ composer.typed = 0 /\ composer.known = 0 /\ composerSent = {} /\ drafts = 0
      /\ campaignCopy \in [at : {"none", "fresh", "stale"}, row : C!Rows] /\ campaignCopy.at = "none"
      /\ campaignCopy.row.status = "NEW" /\ campaignCopy.row.text = 0
      /\ fetch \in [at : {"no", "asked", "read"}, row : C!Rows] /\ fetch.at = "no"
      /\ fetch.row.status = "NEW" /\ fetch.row.text = 0 /\ mailed = {} /\ tested = {}
  BY DEF C!Init, C!NewRow, C!NoCopy, C!Idle, C!Page, C!Rows, C!Pages
<1>2. C!TypeOK  BY <1>1 DEF C!TypeOK
<1>3. DraftInv  BY <1>1 DEF DraftInv
<1>4. CopyInv /\ SeenInv  BY <1>1 DEF CopyInv, SeenInv, Underway
<1>5. StayInv  BY <1>1 DEF StayInv, OneRequest, TextsInv, FetchInv, NewEnough
<1>6. QED  BY <1>2, <1>3, <1>4, <1>5 DEF ComposerInv

LEMMA ComposerStep ==
  ASSUME ComposerInv, C!Next
  PROVE  ComposerInv'
<1>1. \/ C!Type \/ C!AskSend \/ C!CloseModal \/ C!ConfirmSend \/ C!Visit \/ C!Reload
      \/ \E then \in {"none", "test"} : C!Save(then)
      \/ C!Read \/ C!Arrive \/ C!FetchFails \/ C!Poll \/ C!Age \/ C!Crash
      \/ \E q \in composerSent : C!Accept(q) \/ C!Refuse(q)
      \/ \E l \in loops : C!Mark(l) \/ C!Finish(l)
  BY DEF C!Next
<1>2. QED
  BY <1>1, DraftTyped, SendAsked, ModalClosed, SendConfirmed, PageVisited, PageReloaded, DraftSaved,
     CampaignRead, CampaignArrives, CampaignUnread, CampaignPolled, CopyAged, LoopsEnd,
     RequestAccepted, RequestRefused, LoopMarks, LoopFinishes

LEMMA ComposerAlways == PagesSpec => []ComposerInv
<1>1. PagesInit => ComposerInv  BY ComposerStarts DEF PagesInit, NoComposer
<1>2. ComposerInv /\ [PagesNext]_<<part, vars, listVars, composerVars, playerVars, signInVars>> => ComposerInv'
  <2>1. ASSUME ComposerInv, UNCHANGED composerVars PROVE ComposerInv'
    BY <2>1 DEF composerVars, ComposerInv, C!TypeOK, DraftInv, CopyInv, SeenInv, StayInv, OneRequest,
       TextsInv, FetchInv, NewEnough
  <2>2. QED  BY <2>1, ComposerStep DEF PagesNext
<1>3. QED  BY <1>1, <1>2, PTL DEF PagesSpec

\* Nothing older goes out, to subscribers or as a test, than what a page that came up fresh and
\* was not left knew to be stored, or showed.
THEOREM NothingOlderGoesOut == PagesSpec => []NothingOlder
<1>1. ComposerInv => NothingOlder
  BY DEF ComposerInv, StayInv, NewEnough, NothingOlder, C!NothingOlder
<1>2. QED  BY <1>1, ComposerAlways, PTL

\* A page at rest takes a campaign that is being sent for a draft only if its last read was
\* too early, failed, or never asked for.
THEOREM PagesSeeTheSend == PagesSpec => []BehindOnlyIfEarly
<1>1. ComposerInv => BehindOnlyIfEarly
  BY DEF ComposerInv, SeenInv, BehindOnlyIfEarly, C!BehindOnlyIfEarly, C!Quiet, Underway
<1>2. QED  BY <1>1, ComposerAlways, PTL

(***************************************************************************)
(* The article form                                                        *)
(***************************************************************************)
Own(r) == r.visit = page.visit
Aside == {"feature", "purge"}           \* requests that the page does not wait for
Sending == {"update", "submit", "publish"}

\* The requests in flight: of this page one at a time, and about articles that are there.
CallInv ==
    /\ \A r \in sent : r.visit <= page.visit /\ r.op # "pin"
    /\ \A r \in sent : r.op \in Operations => r.id \in Ids /\ row[r.id].status # "NEW"
    /\ \A r \in sent : r.op \notin Saving => r.then = "none"
    /\ \A r \in sent : r.op = "upload" => r.cover \in Assets
    /\ \A r, q \in sent : Own(r) /\ Own(q) /\ r.op \notin Aside /\ q.op \notin Aside => r = q

PageInv ==
    /\ page.mode \in {"loading", "edit"} => page.id \in Ids /\ row[page.id].status # "NEW"
    /\ page.mode = "edit" => page.shown \in Statuses
    /\ page.mode = "new" => page.id = 0 /\ page.shown = "NEW"
    /\ page.mode # "new" => page.next = 0
    /\ page.mode = "loading" => ~page.saved
    /\ page.next # 0 => row[page.next].status # "NEW"
    /\ page.modal \in {"reject", "delete"} => page.mode = "edit"
    /\ \A i \in Ids : copy[i].shown # "NEW" => row[i].status # "NEW"

PurgeInv ==
    /\ page.upload # 0 => page.upload \in mine
    /\ \A r \in sent : Own(r) /\ r.op = "purge" => r.cover \in mine
    /\ PurgesItsOwn

\* A request was offered in a status in which the server takes it, or for a new article.
OfferInv ==
    /\ \A r \in sent : r.op \in Operations => r.seen \in Required(r.op, me) \cup {"NEW"}
    /\ \A r \in sent : r.then # "none" => r.seen \in Required(r.then, me) \cup {"NEW"}
    /\ page.modal = "reject" => page.met \in Required("reject", me)
    /\ page.modal = "delete" => page.met \in Required("remove", me)
    /\ RefusedOnlyIfStale

\* An article that one page at a time saves has, when it is sent out, no older text than was
\* typed for that.
OutInv ==
    /\ page.text <= texts /\ \A r \in sent : r.text <= texts
    /\ \A i \in Ids : row[i].edits <= texts /\ copy[i].text <= texts
    /\ \A r \in sent : r.op \in {"submit", "publish"} /\ r.id \notin crossed
                            /\ row[r.id].status # "DELETED" => r.text <= row[r.id].edits
    /\ \A r, q \in sent : r.id = q.id /\ r.id \in Ids /\ r.id \notin crossed
                            /\ r.op \in Sending /\ q.op \in Sending => r = q
    /\ \A r \in released : ~r[3] => r[2] >= r[1]

\* What the page says it saved is stored, and what it is saving is what it shows.
SaveInv ==
    /\ \A r \in sent : Own(r) /\ r.op = "update" => r.id = page.id /\ page.mode # "new"
    /\ \A r \in sent : Own(r) /\ r.op = "create" => page.mode = "new"
    /\ \A r \in sent : Own(r) /\ r.op = "remove" => page.mode # "new"
    /\ \A r \in sent : Own(r) /\ r.op \in Saving /\ page.saved =>
                            r.text = page.text /\ r.cover = page.cover
    /\ SavedHere(Held) =>
            /\ row[Held].edits = page.text
            /\ cover[Held] = IF page.cover = NoCover THEN kept[Held] ELSE page.cover

FormInv == TypeOK /\ CallInv /\ PageInv /\ PurgeInv /\ OfferInv /\ OutInv /\ SaveInv

LEMMA FormTypes ==
  ASSUME TypeOK
  PROVE  /\ me \in Actors /\ row \in [Ids -> Rows] /\ cover \in [Ids -> Covers]
         /\ kept \in [Ids -> Covers]
         /\ copy \in [Ids -> Copies] /\ texts \in Nat /\ budget \in Bounds
         /\ page \in Pages /\ sent \subseteq Requests /\ stored \subseteq Assets
         /\ page.mode \in {"none", "loading", "new", "edit"} /\ page.visit \in Nat
         /\ page.id \in Ids \cup {0} /\ page.shown \in Statuses \cup {"NEW", "DELETED"}
         /\ page.featured \in BOOLEAN /\ page.text \in Nat /\ page.cover \in Covers
         /\ page.upload \in Assets \cup {0} /\ page.saved \in BOOLEAN /\ page.next \in Ids \cup {0}
         /\ page.modal \in {"none", "delete", "reject", "cover"}
         /\ page.met \in Statuses \cup {"NEW", "DELETED"}
         /\ Ids \subseteq Nat /\ 0 \notin Ids /\ 0 \notin Assets
         /\ Assets \subseteq Covers /\ NoCover \in Covers /\ Pasted \in Covers
<1>1. /\ page.mode \in {"none", "loading", "new", "edit"} /\ page.visit \in Nat
      /\ page.id \in Ids \cup {0} /\ page.shown \in Statuses \cup {"NEW", "DELETED"}
      /\ page.featured \in BOOLEAN /\ page.text \in Nat /\ page.cover \in Covers
      /\ page.upload \in Assets \cup {0} /\ page.saved \in BOOLEAN /\ page.next \in Ids \cup {0}
      /\ page.modal \in {"none", "delete", "reject", "cover"}
      /\ page.met \in Statuses \cup {"NEW", "DELETED"}
  BY DEF TypeOK, Pages
<1>2. Ids \subseteq Nat /\ 0 \notin Ids /\ 0 \notin Assets  BY DEF Ids, Assets
<1>3. Assets \subseteq Covers /\ NoCover \in Covers /\ Pasted \in Covers  BY DEF Covers
<1>4. QED  BY <1>1, <1>2, <1>3 DEF TypeOK

LEMMA RequestTypes ==
  ASSUME TypeOK, NEW r \in sent
  PROVE  /\ r.op \in Operations \cup {"create", "upload", "purge"} /\ r.id \in Ids \cup {0}
         /\ r.then \in {"none", "submit", "publish"} /\ r.text \in Nat /\ r.cover \in Covers
         /\ r.seen \in Statuses \cup {"NEW", "DELETED"} /\ r.visit \in Nat
BY DEF TypeOK, Requests

LEMMA Spent ==
  ASSUME TypeOK, NEW w \in {"visits", "texts", "uploads", "clicks", "elsewhere", "lost"}, Spend(w)
  PROVE  budget' \in Bounds /\ budget.uploads \in 0..MaxUploads /\ (w = "uploads" => budget.uploads \in Assets)
<1>1. budget \in Bounds /\ budget[w] > 0 /\ budget' = [budget EXCEPT ![w] = budget[w] - 1]
  BY DEF Spend, TypeOK
<1>2. MaxUploads \in Nat  BY ArticleFormAssumption
<1>3. budget.uploads \in 0..MaxUploads /\ budget.visits \in Nat /\ budget.texts \in Nat
      /\ budget.clicks \in Nat /\ budget.elsewhere \in Nat /\ budget.lost \in Nat
  BY <1>1 DEF Bounds
<1>4. CASE w = "uploads"
  <2>1. budget.uploads - 1 \in 0..MaxUploads /\ budget.uploads \in Assets
    BY <1>1, <1>2, <1>3, <1>4 DEF Assets
  <2>2. budget' = [budget EXCEPT !.uploads = budget.uploads - 1]  BY <1>1, <1>4
  <2>3. QED  BY <1>1, <1>3, <2>1, <2>2 DEF Bounds
<1>5. CASE w # "uploads"
  <2>1. budget[w] \in Nat /\ budget[w] - 1 \in Nat  BY <1>1, <1>3, <1>5
  <2>2. QED  BY <1>1, <1>3, <1>5, <2>1 DEF Bounds
<1>6. QED  BY <1>4, <1>5

\* What a step keeps of the page.
SamePlace == /\ page'.mode = page.mode /\ page'.visit = page.visit /\ page'.id = page.id
             /\ page'.shown = page.shown /\ page'.next = page.next /\ page'.met = page.met

\* Another page: none of the requests in flight is its own.
LEMMA VisitShape ==
  ASSUME FormInv, page' \in Pages, page'.visit = page.visit + 1,
         page'.upload = 0, ~page'.saved, page'.next = 0, page'.modal = "none",
         \/ page'.mode = "new" /\ page'.id = 0 /\ page'.shown = "NEW"
         \/ /\ page'.mode \in {"loading", "edit"} /\ page'.id \in Ids /\ row[page'.id].status # "NEW"
            /\ page'.mode = "edit" => page'.shown \in Statuses,
         page'.text <= texts, mine' = {}, budget' \in Bounds,
         UNCHANGED <<me, copy, sent, server, history, elsewhere>>
  PROVE  FormInv'
<1>1. UNCHANGED <<me, copy, sent, row, cover, stored, texts, purged, refused, released, crossed, kept, elsewhere>>
  BY DEF server, history
<1>2. TypeOK  BY DEF FormInv
<1>3. \A r \in sent' : ~Own(r)' /\ r.visit <= page'.visit
  <2>1. ASSUME NEW r \in sent PROVE r.visit # page.visit + 1 /\ r.visit <= page.visit + 1
    <3>1. r.visit \in Nat /\ page.visit \in Nat /\ r.visit <= page.visit
      BY <1>2, RequestTypes, FormTypes DEF FormInv, CallInv
    <3>2. QED  BY <3>1
  <2>2. QED  BY <1>1, <2>1 DEF Own
<1>4. TypeOK'  BY <1>1, <1>2 DEF TypeOK
<1>5. CallInv'  BY <1>1, <1>3 DEF FormInv, CallInv
<1>6. PageInv'  BY <1>1 DEF FormInv, PageInv
<1>7. PurgeInv'  BY <1>1, <1>3 DEF FormInv, PurgeInv, PurgesItsOwn
<1>8. OfferInv'  BY <1>1 DEF FormInv, OfferInv, RefusedOnlyIfStale
<1>9. OutInv'  BY <1>1 DEF FormInv, OutInv
<1>10. SaveInv'  BY <1>1, <1>3 DEF FormInv, SaveInv, SavedHere
<1>11. QED  BY <1>4, <1>5, <1>6, <1>7, <1>8, <1>9, <1>10 DEF FormInv

\* Something was typed, pasted or cleared: the form is not saved any more.
LEMMA EditShape ==
  ASSUME FormInv, page' \in Pages, SamePlace, page'.upload = page.upload, ~page'.saved,
         page'.modal \in {page.modal, "none"}, page'.text <= texts', texts' \in Nat, texts <= texts',
         budget' \in Bounds,
         UNCHANGED <<me, copy, sent, row, cover, stored, mine, history, elsewhere>>
  PROVE  FormInv'
<1>1. UNCHANGED <<me, copy, sent, row, cover, stored, mine, purged, refused, released, crossed, kept, elsewhere>>
  BY DEF history
<1>2. TypeOK  BY DEF FormInv
<1>3. \A r \in sent' : Own(r)' <=> Own(r)  BY <1>1 DEF Own, SamePlace
<1>4. TypeOK'  BY <1>1, <1>2 DEF TypeOK
<1>5. CallInv'  BY <1>1, <1>3 DEF FormInv, CallInv, SamePlace
<1>6. PageInv'  BY <1>1 DEF FormInv, PageInv, SamePlace
<1>7. PurgeInv'  BY <1>1, <1>3 DEF FormInv, PurgeInv, PurgesItsOwn
<1>8. OfferInv'  BY <1>1 DEF FormInv, OfferInv, RefusedOnlyIfStale, SamePlace
<1>9. OutInv'
  <2>1. \A r \in sent : r.text <= texts'
    BY <1>2, RequestTypes, FormTypes DEF FormInv, OutInv
  <2>2. \A i \in Ids : row[i].edits <= texts' /\ copy[i].text <= texts'
    <3>1. \A i \in Ids : row[i].edits \in Nat /\ copy[i].text \in Nat
      BY <1>2, FormTypes DEF Rows, Copies
    <3>2. QED  BY <1>2, <3>1, FormTypes DEF FormInv, OutInv
  <2>3. QED  BY <1>1, <2>1, <2>2 DEF FormInv, OutInv
<1>10. SaveInv'  BY <1>1, <1>3 DEF FormInv, SaveInv, SavedHere, SamePlace
<1>11. QED  BY <1>4, <1>5, <1>6, <1>7, <1>8, <1>9, <1>10 DEF FormInv

\* A request that the page sends.
LEMMA AddShape ==
  ASSUME FormInv, NEW n \in Requests, sent' = sent \cup {n}, n.visit = page.visit, n.text = page.text,
         n.op \notin {"pin", "submit", "publish"},
         n.op \in Operations => /\ n.id = page.id /\ page.mode = "edit"
                                /\ n.seen \in Required(n.op, me) \cup {"NEW"},
         n.op \notin Saving => n.then = "none",
         n.then # "none" => n.seen \in Required(n.then, me) \cup {"NEW"},
         n.op = "create" => page.mode = "new",
         n.op = "upload" => n.cover \in Assets,
         n.op = "purge" => n.cover \in mine,
         n.op \in Saving => n.cover = page.cover,
         n.op \notin Aside => ~Busy,
         crossed \subseteq crossed',
         n.op = "update" /\ (\E r \in sent : r.id = page.id /\ r.visit # page.visit) => page.id \in crossed',
         page' \in Pages, SamePlace, page'.upload = page.upload, page'.saved = page.saved,
         page'.text = page.text, page'.cover = page.cover, page'.modal \in {page.modal, "none"},
         budget' \in Bounds,
         UNCHANGED <<me, copy, server, mine, purged, refused, released, kept, elsewhere>>
  PROVE  FormInv'
<1>1. UNCHANGED <<me, copy, row, cover, stored, texts, mine, purged, refused, released, kept, elsewhere>>
  BY DEF server
<1>2. TypeOK  BY DEF FormInv
<1>3. \A r : Own(r)' <=> Own(r)  BY DEF Own, SamePlace
<1>4. TypeOK'  BY <1>1, <1>2 DEF TypeOK
<1>5. n.op \notin Aside => \A r \in sent : Own(r) => r.op \in Aside
  BY DEF Busy, Aside, Own
<1>6. CallInv'
  <2>1. n.visit <= page.visit /\ Own(n)  BY <1>2, FormTypes DEF Own
  <2>2. n.op \in Operations => n.id \in Ids /\ row[n.id].status # "NEW"
    BY DEF FormInv, PageInv
  <2>3. \A r, q \in sent' : Own(r) /\ Own(q) /\ r.op \notin Aside /\ q.op \notin Aside => r = q
    BY <1>5 DEF FormInv, CallInv
  <2>4. QED  BY <1>1, <1>3, <2>1, <2>2, <2>3 DEF FormInv, CallInv, SamePlace
<1>7. PageInv'  BY <1>1 DEF FormInv, PageInv, SamePlace
<1>8. PurgeInv'  BY <1>1, <1>3 DEF FormInv, PurgeInv, PurgesItsOwn
<1>9. OfferInv'  BY <1>1 DEF FormInv, OfferInv, RefusedOnlyIfStale, SamePlace
<1>10. OutInv'
  <2>1. n.text <= texts  BY DEF FormInv, OutInv
  <2>2. ASSUME NEW r \in sent, r.id = n.id, n.id \in Ids, n.id \notin crossed', r.op \in Sending, n.op \in Sending
        PROVE  FALSE
    <3>1. n.op = "update" /\ n.id = page.id  BY <2>2 DEF Sending, Operations
    <3>2. r.visit = page.visit  BY <2>2, <3>1
    <3>3. r.op \in Aside  BY <1>5, <3>1, <3>2 DEF Own, Aside
    <3>4. QED  BY <2>2, <3>3 DEF Aside, Sending
  <2>3. \A r, q \in sent' : r.id = q.id /\ r.id \in Ids /\ r.id \notin crossed'
                              /\ r.op \in Sending /\ q.op \in Sending => r = q
    BY <2>2 DEF FormInv, OutInv
  <2>4. \A r \in sent' : r.op \in {"submit", "publish"} /\ r.id \notin crossed'
                              /\ row[r.id].status # "DELETED" => r.text <= row[r.id].edits
    BY DEF FormInv, OutInv
  <2>5. \A r \in sent' : r.text <= texts  BY <2>1 DEF FormInv, OutInv
  <2>6. QED  BY <1>1, <2>3, <2>4, <2>5 DEF FormInv, OutInv
<1>11. SaveInv'
  <2>1. /\ n.op = "update" => n.id = page.id /\ page.mode # "new"
        /\ n.op = "remove" => page.mode # "new"
    BY DEF Operations
  <2>2. SavedHere(Held)' <=> SavedHere(Held)
    BY <1>1 DEF SavedHere, Held, SamePlace
  <2>3. Held' = Held  BY DEF Held, SamePlace
  <2>4. QED  BY <1>1, <1>3, <2>1, <2>2, <2>3 DEF FormInv, SaveInv, SamePlace
<1>12. QED  BY <1>4, <1>6, <1>7, <1>8, <1>9, <1>10, <1>11 DEF FormInv

LEMMA VisitStep ==
  ASSUME FormInv, \/ New \/ Redirect
                  \/ \E i \in Ids : Open(i)
  PROVE  FormInv'
<1>1. TypeOK  BY DEF FormInv
<1>2. PICK mode \in {"new", "loading"}, i \in Ids \cup {0} :
         /\ Visit(mode, i)
         /\ mode = "new" => i = 0
         /\ mode = "loading" => i \in Ids /\ row[i].status # "NEW"
  BY <1>1, FormTypes DEF New, Redirect, Open, FormInv, PageInv
<1>3. /\ page' = [Closed EXCEPT !.mode = mode, !.visit = page.visit + 1, !.id = i] /\ mine' = {}
      /\ UNCHANGED <<me, copy, sent, server, history, elsewhere>> /\ budget' \in Bounds
  <2>1. Spend("visits")  BY <1>2 DEF Visit
  <2>2. QED  BY <1>1, <1>2, <2>1, Spent DEF Visit
<1>4. /\ page' \in Pages /\ page'.visit = page.visit + 1 /\ page'.mode = mode /\ page'.id = i
      /\ page'.upload = 0 /\ ~page'.saved /\ page'.next = 0 /\ page'.modal = "none" /\ page'.shown = "NEW"
      /\ page'.text = 0
  <2>1. page' = [mode |-> mode, visit |-> page.visit + 1, id |-> i, shown |-> "NEW", featured |-> FALSE,
                 text |-> 0, cover |-> NoCover, upload |-> 0, saved |-> FALSE, next |-> 0,
                 modal |-> "none", met |-> "NEW"]
    BY <1>3 DEF Closed
  <2>2. QED  BY <1>1, <2>1, FormTypes DEF Pages
<1>5. page'.text <= texts  BY <1>1, <1>4, FormTypes
<1>6. QED  BY <1>2, <1>3, <1>4, <1>5, VisitShape

LEMMA OpenCopyStep ==
  ASSUME FormInv, NEW i \in Ids, OpenCopy(i)
  PROVE  FormInv'
<1> DEFINE c == copy[i]
<1>1. TypeOK  BY DEF FormInv
<1>2. c \in Copies /\ c.shown # "NEW"  BY <1>1, FormTypes DEF OpenCopy
<1>3. /\ page' = [Closed EXCEPT !.mode = "edit", !.visit = page.visit + 1, !.id = i, !.shown = c.shown,
                              !.featured = c.featured, !.text = c.text, !.cover = c.cover]
      /\ mine' = {} /\ UNCHANGED <<me, copy, sent, server, history, elsewhere>> /\ budget' \in Bounds
  BY <1>1, Spent DEF OpenCopy
<1>4. row[i].status # "NEW" /\ c.text <= texts  BY <1>2 DEF FormInv, PageInv, OutInv
<1>5. c.shown \in Statuses /\ c.featured \in BOOLEAN /\ c.text \in Nat /\ c.cover \in Covers
  BY <1>2 DEF Copies
<1> HIDE DEF c
<1>6. /\ page' \in Pages /\ page'.visit = page.visit + 1 /\ page'.mode = "edit" /\ page'.id = i
      /\ page'.upload = 0 /\ ~page'.saved /\ page'.next = 0 /\ page'.modal = "none"
      /\ page'.shown = c.shown /\ page'.text = c.text
  <2>1. page' = [mode |-> "edit", visit |-> page.visit + 1, id |-> i, shown |-> c.shown,
                 featured |-> c.featured, text |-> c.text, cover |-> c.cover, upload |-> 0,
                 saved |-> FALSE, next |-> 0, modal |-> "none", met |-> "NEW"]
    BY <1>3 DEF Closed
  <2>2. QED  BY <1>1, <1>5, <2>1, FormTypes DEF Pages
<1>7. QED  BY <1>3, <1>4, <1>5, <1>6, VisitShape

LEMMA TypeStep ==
  ASSUME FormInv, Type
  PROVE  FormInv'
<1>1. TypeOK  BY DEF FormInv
<1>2. /\ texts' = texts + 1 /\ page' = [page EXCEPT !.text = texts + 1, !.saved = FALSE]
      /\ budget' \in Bounds /\ UNCHANGED <<me, copy, sent, row, cover, stored, mine, history, elsewhere>>
  BY <1>1, Spent DEF Type
<1>3. texts' \in Nat /\ texts <= texts'  BY <1>1, <1>2, FormTypes
<1>4. /\ page' \in Pages /\ SamePlace /\ page'.upload = page.upload /\ ~page'.saved
      /\ page'.modal = page.modal /\ page'.text = texts'
  BY <1>1, <1>2, <1>3, FormTypes DEF Pages, SamePlace
<1>5. page'.text <= texts'  BY <1>3, <1>4
<1>6. QED  BY <1>2, <1>3, <1>4, <1>5, EditShape

LEMMA PasteStep ==
  ASSUME FormInv, Paste
  PROVE  FormInv'
<1>1. TypeOK  BY DEF FormInv
<1>2. /\ page' = [page EXCEPT !.cover = Pasted, !.saved = FALSE]
      /\ UNCHANGED <<me, copy, sent, server, mine, history, elsewhere, budget>>
  BY DEF Paste
<1>3. /\ page' \in Pages /\ SamePlace /\ page'.upload = page.upload /\ ~page'.saved
      /\ page'.modal = page.modal /\ page'.text = page.text
  BY <1>1, <1>2, FormTypes DEF Pages, SamePlace
<1>4. page.text <= texts /\ texts' = texts /\ texts <= texts' /\ texts' \in Nat /\ budget' \in Bounds
  BY <1>1, <1>2, FormTypes DEF FormInv, OutInv, server
<1>5. UNCHANGED <<me, copy, sent, row, cover, stored, mine, history, elsewhere>>
  BY <1>2 DEF server
<1>6. QED  BY <1>3, <1>4, <1>5, EditShape

\* A question of the page changes nothing else.
LEMMA AskStep ==
  ASSUME FormInv, \/ \E modal \in {"delete", "reject", "cover"} : Ask(modal)
                  \/ Dismiss
  PROVE  FormInv'
<1>1. TypeOK  BY DEF FormInv
<1>2. UNCHANGED <<me, copy, sent, row, cover, stored, texts, mine, purged, refused, released, crossed, kept,
                  elsewhere, budget>>
  BY DEF Ask, Dismiss, server, history
<1>3. /\ page' \in Pages /\ page'.mode = page.mode /\ page'.visit = page.visit /\ page'.id = page.id
      /\ page'.shown = page.shown /\ page'.next = page.next /\ page'.upload = page.upload
      /\ page'.saved = page.saved /\ page'.text = page.text /\ page'.cover = page.cover
  <2>1. page \in Pages  BY <1>1, FormTypes
  <2>2. ASSUME NEW modal \in {"delete", "reject", "cover"}, Ask(modal)
        PROVE  /\ page' \in Pages /\ page'.mode = page.mode /\ page'.visit = page.visit /\ page'.id = page.id
               /\ page'.shown = page.shown /\ page'.next = page.next /\ page'.upload = page.upload
               /\ page'.saved = page.saved /\ page'.text = page.text /\ page'.cover = page.cover
    <3>1. page' = [page EXCEPT !.modal = modal, !.met = page.shown]  BY <2>2 DEF Ask
    <3>2. QED  BY <2>1, <3>1 DEF Pages
  <2>3. ASSUME Dismiss
        PROVE  /\ page' \in Pages /\ page'.mode = page.mode /\ page'.visit = page.visit /\ page'.id = page.id
               /\ page'.shown = page.shown /\ page'.next = page.next /\ page'.upload = page.upload
               /\ page'.saved = page.saved /\ page'.text = page.text /\ page'.cover = page.cover
    <3>1. page' = [page EXCEPT !.modal = "none"]  BY <2>3 DEF Dismiss
    <3>2. QED  BY <2>1, <3>1 DEF Pages
  <2>4. QED  BY <2>2, <2>3
<1>4. /\ page'.modal \in {"reject", "delete"} => page'.mode = "edit"
      /\ page'.modal = "reject" => page'.met \in Required("reject", me)
      /\ page'.modal = "delete" => page'.met \in Required("remove", me)
  <2>1. ASSUME NEW modal \in {"delete", "reject", "cover"}, Ask(modal)
        PROVE  /\ page'.modal \in {"reject", "delete"} => page'.mode = "edit"
               /\ page'.modal = "reject" => page'.met \in Required("reject", me)
               /\ page'.modal = "delete" => page'.met \in Required("remove", me)
    <3>1. page' = [page EXCEPT !.modal = modal, !.met = page.shown]  BY <2>1 DEF Ask
    <3>2. page'.modal = modal /\ page'.met = page.shown /\ page'.mode = page.mode
      BY <1>1, <3>1, FormTypes DEF Pages
    <3>3. /\ modal = "reject" => me = "editor" /\ Shows({"IN_REVIEW"})
          /\ modal = "delete" => Shows(IF me = "editor" THEN Statuses ELSE {"DRAFT"})
      BY <2>1 DEF Ask
    <3>4. QED  BY <3>2, <3>3 DEF Shows, Required
  <2>2. CASE Dismiss
    <3>1. page' = [page EXCEPT !.modal = "none"]  BY <2>2 DEF Dismiss
    <3>2. page'.modal = "none"  BY <1>1, <3>1, FormTypes DEF Pages
    <3>3. QED  BY <3>2
  <2>3. QED  BY <2>1, <2>2
<1>5. TypeOK'  BY <1>1, <1>2, <1>3 DEF TypeOK
<1>6. CallInv'  BY <1>2, <1>3 DEF FormInv, CallInv, Own
<1>7. PageInv'  BY <1>2, <1>3, <1>4 DEF FormInv, PageInv
<1>8. PurgeInv'  BY <1>2, <1>3 DEF FormInv, PurgeInv, PurgesItsOwn, Own
<1>9. OfferInv'  BY <1>2, <1>4 DEF FormInv, OfferInv, RefusedOnlyIfStale
<1>10. OutInv'  BY <1>2, <1>3 DEF FormInv, OutInv
<1>11. SaveInv'  BY <1>2, <1>3 DEF FormInv, SaveInv, SavedHere, Held, Own
<1>12. QED  BY <1>5, <1>6, <1>7, <1>8, <1>9, <1>10, <1>11 DEF FormInv

\* The article comes anew.
LEMMA FetchStep ==
  ASSUME FormInv, Fetch
  PROVE  FormInv'
<1> DEFINE x == row[page.id]
<1>1. TypeOK  BY DEF FormInv
<1>2. /\ page.mode \in {"loading", "edit"} /\ page.id \in Ids
      /\ UNCHANGED <<me, row, cover, stored, texts, sent, mine, purged, refused, released, crossed, kept,
                     elsewhere, budget>>
  BY DEF Fetch, FormInv, PageInv, server, history
<1>3. /\ x \in Rows /\ x.status # "NEW" /\ x.edits <= texts
      /\ x.status \in Statuses \cup {"DELETED"} /\ x.featured \in BOOLEAN /\ x.edits \in Nat
      /\ cover[page.id] \in Covers
  BY <1>1, <1>2, FormTypes DEF FormInv, PageInv, OutInv, Rows
<1>4. /\ page' \in Pages /\ page'.visit = page.visit /\ page'.id = page.id /\ page'.next = page.next
      /\ page'.upload = page.upload /\ page'.saved = page.saved /\ page'.met = page.met
      /\ \/ /\ page'.mode = "none" /\ page'.modal = "none" /\ page'.text = page.text /\ page'.cover = page.cover
         \/ /\ page'.mode = "edit" /\ page'.shown \in Statuses /\ page'.modal = page.modal
            /\ page.mode = "edit" => page'.text = page.text /\ page'.cover = page.cover
            /\ page.mode = "loading" => page'.text = x.edits
  <2>1. CASE x.status = "DELETED"
    <3>1. page' = [page EXCEPT !.mode = "none", !.modal = "none"]  BY <2>1 DEF Fetch
    <3>2. QED  BY <1>1, <3>1, FormTypes DEF Pages
  <2>2. CASE x.status # "DELETED" /\ page.mode = "edit"
    <3>1. page' = [page EXCEPT !.shown = x.status, !.featured = x.featured]  BY <2>2 DEF Fetch
    <3>2. QED  BY <1>1, <1>3, <2>2, <3>1, FormTypes DEF Pages
  <2>3. CASE x.status # "DELETED" /\ page.mode = "loading"
    <3>1. page' = [page EXCEPT !.mode = "edit", !.shown = x.status, !.featured = x.featured,
                               !.text = x.edits, !.cover = cover[page.id]]
      BY <2>3 DEF Fetch
    <3>2. QED  BY <1>1, <1>3, <2>3, <3>1, FormTypes DEF Pages
  <2>4. QED  BY <1>2, <2>1, <2>2, <2>3
<1>5. /\ copy' \in [Ids -> Copies]
      /\ \A i \in Ids : copy'[i] = copy[i] \/ (i = page.id /\ copy'[i].text = x.edits)
  <2>1. CASE x.status = "DELETED"
    BY <1>1, <2>1, FormTypes DEF Fetch
  <2>2. CASE x.status # "DELETED"
    <3>1. copy' = [copy EXCEPT ![page.id] = [shown |-> x.status, featured |-> x.featured,
                                             text |-> x.edits, cover |-> cover[page.id]]]
      BY <2>2 DEF Fetch
    <3>2. [shown |-> x.status, featured |-> x.featured, text |-> x.edits, cover |-> cover[page.id]] \in Copies
      BY <1>3, <2>2 DEF Copies
    <3>3. QED  BY <1>1, <1>2, <3>1, <3>2, FormTypes
  <2>3. QED  BY <2>1, <2>2
<1> HIDE DEF x
<1>6. row[page.id].status # "NEW" /\ page.next = 0  BY <1>2, <1>3 DEF x, FormInv, PageInv
<1>7. TypeOK'  BY <1>1, <1>2, <1>4, <1>5 DEF TypeOK
<1>8. CallInv'  BY <1>2, <1>4 DEF FormInv, CallInv, Own
<1>9. PageInv'
  <2>1. \A i \in Ids : copy'[i].shown # "NEW" => row[i].status # "NEW"
    BY <1>5, <1>6 DEF FormInv, PageInv
  <2>2. QED  BY <1>2, <1>4, <1>6, <2>1 DEF FormInv, PageInv
<1>10. PurgeInv'  BY <1>2, <1>4 DEF FormInv, PurgeInv, PurgesItsOwn, Own
<1>11. OfferInv'  BY <1>2, <1>4 DEF FormInv, OfferInv, RefusedOnlyIfStale
<1>12. OutInv'
  <2>1. page'.text <= texts  BY <1>2, <1>3, <1>4 DEF FormInv, OutInv
  <2>2. \A i \in Ids : copy'[i].text <= texts  BY <1>3, <1>5 DEF FormInv, OutInv
  <2>3. QED  BY <1>2, <2>1, <2>2 DEF FormInv, OutInv
<1>13. SaveInv'
  <2>1. page.mode = "loading" => ~page.saved  BY DEF FormInv, PageInv
  <2>2. page.mode = "edit" => page'.text = page.text /\ page'.cover = page.cover  BY <1>4
  <2>3. page'.saved => page.mode = "edit"  BY <1>2, <1>4, <2>1
  <2>4. \A r \in sent : Own(r)' => Own(r)  BY <1>4 DEF Own
  <2>5. SavedHere(Held)' => page.mode = "edit" /\ page'.mode = "edit" /\ SavedHere(Held) /\ Held' = Held
    BY <1>2, <1>4, <1>6, <2>3 DEF SavedHere, Held
  <2>6. QED  BY <1>2, <1>4, <2>2, <2>3, <2>4, <2>5 DEF FormInv, SaveInv
<1>14. QED  BY <1>7, <1>8, <1>9, <1>10, <1>11, <1>12, <1>13 DEF FormInv

LEMMA Asking ==
  ASSUME TypeOK, NEW op \in Operations \cup {"create", "upload", "purge"},
         NEW then \in {"none", "submit", "publish"}, NEW seen \in Statuses \cup {"NEW", "DELETED"}
  PROVE  /\ Request(op, page.id, then, seen) \in Requests
         /\ Request(op, page.id, then, seen).op = op
         /\ Request(op, page.id, then, seen).id = page.id
         /\ Request(op, page.id, then, seen).then = then
         /\ Request(op, page.id, then, seen).text = page.text
         /\ Request(op, page.id, then, seen).cover = page.cover
         /\ Request(op, page.id, then, seen).seen = seen
         /\ Request(op, page.id, then, seen).visit = page.visit
BY FormTypes DEF Request, Requests

\* The same, with a cover of its own.
LEMMA AskingWith ==
  ASSUME TypeOK, NEW op \in {"upload", "purge"}, NEW image \in Assets
  PROVE  \E n \in Requests :
            /\ n = [Request(op, page.id, "none", page.shown) EXCEPT !.cover = image]
            /\ n.op = op /\ n.id = page.id /\ n.then = "none" /\ n.text = page.text
            /\ n.cover = image /\ n.visit = page.visit
<1> DEFINE n == [Request(op, page.id, "none", page.shown) EXCEPT !.cover = image]
<1>1. n = [op |-> op, id |-> page.id, then |-> "none", text |-> page.text, cover |-> image,
           seen |-> page.shown, visit |-> page.visit]
  BY DEF Request
<1>2. n \in Requests  BY <1>1, FormTypes DEF Requests
<1>3. /\ n.op = op /\ n.id = page.id /\ n.then = "none" /\ n.text = page.text
      /\ n.cover = image /\ n.visit = page.visit
  BY <1>1
<1> HIDE DEF n
<1>4. \E m \in Requests : m = n  BY <1>2
<1>5. QED  BY <1>3, <1>4 DEF n

\* What is offered is what the server takes.
LEMMA SaveOffered ==
  ASSUME FormInv, NEW then \in {"none", "submit", "publish"}, SaveShown(then), page.mode \in Opened
  PROVE  /\ page.mode = "edit" => page.shown \in Required("update", me)
         /\ then # "none" => page.shown \in Required(then, me) \cup {"NEW"}
<1>1. me \in {"author", "editor"}  BY FormTypes DEF FormInv, Actors
<1>2. page.mode = "edit" => page.shown \in Statuses  BY DEF FormInv, PageInv
<1>3. page.mode # "edit" => page.shown = "NEW"  BY DEF FormInv, PageInv, Opened
<1>4. CASE then = "none"
  BY <1>1, <1>2, <1>4 DEF SaveShown, Locked, Required
<1>5. CASE then = "submit"
  BY <1>1, <1>2, <1>3, <1>5 DEF SaveShown, Shows, Required
<1>6. CASE then = "publish"
  BY <1>1, <1>2, <1>3, <1>6 DEF SaveShown, Shows, Required, Statuses
<1>7. QED  BY <1>4, <1>5, <1>6

LEMMA SaveStep ==
  ASSUME FormInv, NEW then \in {"none", "submit", "publish"}, Save(then)
  PROVE  FormInv'
<1> DEFINE op == IF page.mode = "new" THEN "create" ELSE "update"
           n == Request(op, page.id, then, page.shown)
<1>1. TypeOK  BY DEF FormInv
<1>2. /\ page.mode \in Opened /\ SaveShown(then) /\ ~Busy /\ Spend("clicks") /\ sent' = sent \cup {n}
      /\ crossed' = IF \E r \in sent : r.id = page.id /\ r.visit # page.visit
                    THEN crossed \cup {page.id} ELSE crossed
      /\ UNCHANGED <<me, page, copy, server, mine, purged, refused, released, kept, elsewhere>>
  BY DEF Save
<1>3. /\ op \in Operations \cup {"create", "upload", "purge"}
      /\ page.shown \in Statuses \cup {"NEW", "DELETED"}
  BY <1>1, FormTypes DEF Operations
<1>4. \/ op = "create" /\ page.mode = "new"
      \/ op = "update" /\ page.mode = "edit"
  BY <1>2 DEF Opened
<1> HIDE DEF op
<1>5. /\ n \in Requests /\ n.op = op /\ n.id = page.id /\ n.then = then /\ n.text = page.text
      /\ n.cover = page.cover /\ n.seen = page.shown /\ n.visit = page.visit
  BY <1>1, <1>3, Asking
<1> HIDE DEF n
<1>6. budget' \in Bounds  BY <1>1, <1>2, Spent
<1>7. /\ n.op \in Operations => page.mode = "edit" /\ n.seen \in Required(n.op, me)
      /\ n.then # "none" => n.seen \in Required(n.then, me) \cup {"NEW"}
  BY <1>2, <1>5, <1>4, SaveOffered DEF Operations
<1>8. /\ n.op \in Saving /\ n.op \notin {"pin", "submit", "publish", "upload", "purge"}
      /\ n.op = "create" => page.mode = "new"
  BY <1>5, <1>4 DEF Saving
<1>9. /\ crossed \subseteq crossed'
      /\ n.op = "update" /\ (\E r \in sent : r.id = page.id /\ r.visit # page.visit) => page.id \in crossed'
  BY <1>2
<1>10. /\ page' \in Pages /\ SamePlace /\ page'.upload = page.upload /\ page'.saved = page.saved
       /\ page'.text = page.text /\ page'.cover = page.cover /\ page'.modal \in {page.modal, "none"}
  BY <1>1, <1>2, FormTypes DEF SamePlace
<1>11. QED  BY <1>2, <1>5, <1>6, <1>7, <1>8, <1>9, <1>10, AddShape

LEMMA EditorStep ==
  ASSUME FormInv, Feature \/ Unpublish
  PROVE  FormInv'
<1>1. TypeOK  BY DEF FormInv
<1>2. PICK op \in {"feature", "unpublish"} :
         /\ me = "editor" /\ Shows({"PUBLISHED"}) /\ ~Busy /\ Spend("clicks")
         /\ sent' = sent \cup {Request(op, page.id, "none", page.shown)}
         /\ UNCHANGED <<me, page, copy, server, mine, history, elsewhere>>
  BY DEF Feature, Unpublish
<1> DEFINE n == Request(op, page.id, "none", page.shown)
<1>3. /\ n \in Requests /\ n.op = op /\ n.id = page.id /\ n.then = "none" /\ n.text = page.text
      /\ n.seen = page.shown /\ n.visit = page.visit
  BY <1>1, Asking, FormTypes DEF Operations
<1> HIDE DEF n
<1>4. budget' \in Bounds  BY <1>1, <1>2, Spent
<1>5. page.mode = "edit" /\ n.seen \in Required(n.op, me)
  BY <1>2, <1>3 DEF Shows, Required
<1>6. n.op \notin {"pin", "submit", "publish", "create", "update", "upload", "purge"}
  BY <1>2, <1>3
<1>7. /\ page' \in Pages /\ SamePlace /\ page'.upload = page.upload /\ page'.saved = page.saved
      /\ page'.text = page.text /\ page'.cover = page.cover /\ page'.modal \in {page.modal, "none"}
  BY <1>1, <1>2, FormTypes DEF SamePlace
<1>8. UNCHANGED <<crossed, me, copy, server, mine, purged, refused, released, kept, elsewhere>>
  BY <1>2 DEF history
<1>9. sent' = sent \cup {n}  BY <1>2 DEF n
<1>10. QED  BY <1>2, <1>3, <1>4, <1>5, <1>6, <1>7, <1>8, <1>9, AddShape DEF Saving

LEMMA ConfirmStep ==
  ASSUME FormInv, Confirm
  PROVE  FormInv'
<1> DEFINE op == IF page.modal = "reject" THEN "reject" ELSE "remove"
           n == Request(op, page.id, "none", page.met)
<1>1. TypeOK  BY DEF FormInv
<1>2. /\ page.modal \in {"reject", "delete"} /\ ~Busy /\ Spend("clicks") /\ sent' = sent \cup {n}
      /\ UNCHANGED <<me, page, copy, server, mine, history, elsewhere>>
  BY DEF Confirm
<1>3. /\ op \in Operations \cup {"create", "upload", "purge"}
      /\ page.met \in Statuses \cup {"NEW", "DELETED"}
  BY <1>1, FormTypes DEF Operations
<1>4. \/ op = "reject" /\ page.modal = "reject"
      \/ op = "remove" /\ page.modal = "delete"
  BY <1>2
<1> HIDE DEF op
<1>5. /\ n \in Requests /\ n.op = op /\ n.id = page.id /\ n.then = "none" /\ n.text = page.text
      /\ n.seen = page.met /\ n.visit = page.visit
  BY <1>1, <1>3, Asking
<1> HIDE DEF n
<1>6. budget' \in Bounds  BY <1>1, <1>2, Spent
<1>7. page.mode = "edit" /\ n.seen \in Required(n.op, me)
  BY <1>2, <1>5, <1>4 DEF FormInv, PageInv, OfferInv
<1>8. n.op \notin {"pin", "submit", "publish", "create", "update", "upload", "purge"}
  BY <1>5, <1>4
<1>9. /\ page' \in Pages /\ SamePlace /\ page'.upload = page.upload /\ page'.saved = page.saved
      /\ page'.text = page.text /\ page'.cover = page.cover /\ page'.modal \in {page.modal, "none"}
  BY <1>1, <1>2, FormTypes DEF SamePlace
<1>10. UNCHANGED <<crossed, me, copy, server, mine, purged, refused, released, kept, elsewhere>>
  BY <1>2 DEF history
<1>11. QED  BY <1>2, <1>5, <1>6, <1>7, <1>8, <1>9, <1>10, AddShape DEF Saving

LEMMA RemoveCoverStep ==
  ASSUME FormInv, RemoveCover
  PROVE  FormInv'
<1>1. TypeOK  BY DEF FormInv
<1>2. UNCHANGED <<me, copy, server, mine, history, elsewhere, budget>>
  BY DEF RemoveCover
<1>3. UNCHANGED <<crossed, me, copy, server, mine, purged, refused, released, kept, elsewhere>>
  BY <1>2 DEF history
<1>4. budget' \in Bounds  BY <1>1, <1>2, FormTypes
<1>5. CASE page.upload # 0
  <2>1. page.upload \in Assets /\ page.upload \in mine
    BY <1>1, <1>5, FormTypes DEF FormInv, PurgeInv
  <2>2. PICK n \in Requests :
          /\ n = [Request("purge", page.id, "none", page.shown) EXCEPT !.cover = page.upload]
          /\ n.op = "purge" /\ n.id = page.id /\ n.then = "none" /\ n.text = page.text
          /\ n.cover = page.upload /\ n.visit = page.visit
    BY <1>1, <2>1, AskingWith
  <2>3. sent' = sent \cup {n} /\ page' = [page EXCEPT !.modal = "none"]
    BY <1>5, <2>2 DEF RemoveCover
  <2>4. /\ page' \in Pages /\ SamePlace /\ page'.upload = page.upload /\ page'.saved = page.saved
        /\ page'.text = page.text /\ page'.cover = page.cover /\ page'.modal = "none"
    BY <1>1, <2>3, FormTypes DEF SamePlace, Pages
  <2>5. "purge" \notin Operations /\ "purge" \notin Saving /\ "purge" \in Aside
    BY DEF Operations, Saving, Aside
  <2>6. QED  BY <1>3, <1>4, <2>1, <2>2, <2>3, <2>4, <2>5, AddShape
<1>6. CASE page.upload = 0
  <2>1. /\ page' = [page EXCEPT !.modal = "none", !.cover = NoCover, !.saved = FALSE]
        /\ sent' = sent
    BY <1>6 DEF RemoveCover
  <2>2. /\ page' \in Pages /\ SamePlace /\ page'.upload = page.upload /\ ~page'.saved
        /\ page'.text = page.text /\ page'.modal = "none"
    BY <1>1, <2>1, FormTypes DEF SamePlace, Pages
  <2>3. page.text <= texts /\ texts' = texts /\ texts <= texts' /\ texts' \in Nat
    BY <1>1, <1>2, FormTypes DEF FormInv, OutInv, server
  <2>4. UNCHANGED <<me, copy, sent, row, cover, stored, mine, history, elsewhere>>
    BY <1>2, <2>1 DEF server
  <2>5. QED  BY <1>4, <2>2, <2>3, <2>4, EditShape
<1>7. QED  BY <1>5, <1>6

LEMMA UploadStep ==
  ASSUME FormInv, Upload
  PROVE  FormInv'
<1>1. TypeOK  BY DEF FormInv
<1>2. /\ ~Busy /\ Spend("uploads")
      /\ sent' = sent \cup {[Request("upload", page.id, "none", page.shown) EXCEPT !.cover = budget.uploads]}
      /\ UNCHANGED <<me, page, copy, server, mine, history, elsewhere>>
  BY DEF Upload
<1>3. budget' \in Bounds /\ budget.uploads \in Assets  BY <1>1, <1>2, Spent
<1>4. PICK n \in Requests :
        /\ n = [Request("upload", page.id, "none", page.shown) EXCEPT !.cover = budget.uploads]
        /\ n.op = "upload" /\ n.id = page.id /\ n.then = "none" /\ n.text = page.text
        /\ n.cover = budget.uploads /\ n.visit = page.visit
  BY <1>1, <1>3, AskingWith
<1>5. /\ page' \in Pages /\ SamePlace /\ page'.upload = page.upload /\ page'.saved = page.saved
      /\ page'.text = page.text /\ page'.cover = page.cover /\ page'.modal \in {page.modal, "none"}
  BY <1>1, <1>2, FormTypes DEF SamePlace
<1>6. UNCHANGED <<crossed, me, copy, server, mine, purged, refused, released, kept, elsewhere>>
  BY <1>2 DEF history
<1>7. "upload" \notin Operations /\ "upload" \notin Saving
  BY DEF Operations, Saving
<1>8. sent' = sent \cup {n}  BY <1>2, <1>4
<1>9. QED  BY <1>2, <1>3, <1>4, <1>5, <1>6, <1>7, <1>8, AddShape

\* What an operation makes of a row in which it is accepted.
LEMMA EffectOnRow ==
  ASSUME NEW r, NEW x \in Rows, r.op \in (Operations \ {"pin"}) \cup {"create"}, r.text \in Nat
  PROVE  /\ Effect(r, x) \in Rows
         /\ r.op \in Saving => Effect(r, x).edits = r.text
         /\ r.op = "remove" => Effect(r, x).status = "DELETED" /\ Effect(r, x).edits = 0
         /\ r.op \notin Saving \cup {"remove"} => Effect(r, x).edits = x.edits
         /\ r.op = "create" \/ x.status # "NEW" => Effect(r, x).status # "NEW"
<1>1. /\ Created(x) \in Rows /\ Removed(x) \in Rows /\ Submitted(x) \in Rows /\ Rejected(x) \in Rows
      /\ Unpublished(x) \in Rows /\ Published(x, 1) \in Rows /\ [x EXCEPT !.featured = TRUE] \in Rows
  BY RowTypes
<1>2. CASE r.op = "create"
  <2>1. Effect(r, x) = [Created(x) EXCEPT !.edits = r.text]  BY <1>2 DEF Effect
  <2>2. Created(x).status = "DRAFT"  BY DEF Created, Rows
  <2>3. QED  BY <1>1, <1>2, <2>1, <2>2 DEF Rows, Saving
<1>3. CASE r.op = "update"
  <2>1. Effect(r, x) = [x EXCEPT !.edits = r.text]  BY <1>3 DEF Effect
  <2>2. QED  BY <1>3, <2>1 DEF Rows, Saving
<1>4. CASE r.op = "remove"
  <2>1. Effect(r, x) = Removed(x)  BY <1>4 DEF Effect
  <2>2. Removed(x).status = "DELETED" /\ Removed(x).edits = 0  BY DEF Removed, NoRow
  <2>3. QED  BY <1>1, <1>4, <2>1, <2>2 DEF Saving
<1>5. CASE r.op = "submit"
  <2>1. Effect(r, x) = Submitted(x)  BY <1>5 DEF Effect
  <2>2. Submitted(x).status = "IN_REVIEW" /\ Submitted(x).edits = x.edits  BY DEF Submitted, Rows
  <2>3. QED  BY <1>1, <1>5, <2>1, <2>2 DEF Saving
<1>6. CASE r.op = "publish"
  <2>1. Effect(r, x) = Published(x, 1)  BY <1>6 DEF Effect
  <2>2. Published(x, 1).status = "PUBLISHED" /\ Published(x, 1).edits = x.edits  BY DEF Published, Rows
  <2>3. QED  BY <1>1, <1>6, <2>1, <2>2 DEF Saving
<1>7. CASE r.op = "reject"
  <2>1. Effect(r, x) = Rejected(x)  BY <1>7 DEF Effect
  <2>2. Rejected(x).status = "DRAFT" /\ Rejected(x).edits = x.edits  BY DEF Rejected, Rows
  <2>3. QED  BY <1>1, <1>7, <2>1, <2>2 DEF Saving
<1>8. CASE r.op = "unpublish"
  <2>1. Effect(r, x) = Unpublished(x)  BY <1>8 DEF Effect
  <2>2. Unpublished(x).status = "ARCHIVED" /\ Unpublished(x).edits = x.edits  BY DEF Unpublished, Rows
  <2>3. QED  BY <1>1, <1>8, <2>1, <2>2 DEF Saving
<1>9. CASE r.op = "feature"
  <2>1. Effect(r, x) = [x EXCEPT !.featured = TRUE]  BY <1>9 DEF Effect
  <2>2. QED  BY <1>1, <1>9, <2>1 DEF Rows, Saving
<1>10. QED  BY <1>2, <1>3, <1>4, <1>5, <1>6, <1>7, <1>8, <1>9 DEF Operations

\* The request that follows a save, if any.
LEMMA FollowShape ==
  ASSUME FormInv, NEW r \in sent, NEW i \in Ids, NEW heard \in BOOLEAN
  PROVE  \/ Following(r, i, heard) = {}
         \/ \E f \in Requests :
               /\ Following(r, i, heard) = {f} /\ r.op \in Saving /\ r.then \in {"submit", "publish"}
               /\ f.op = r.then /\ f.id = i /\ f.then = "none" /\ f.text = r.text /\ f.cover = r.cover
               /\ f.seen = r.seen /\ f.visit = r.visit
<1> DEFINE f == [r EXCEPT !.op = r.then, !.id = i, !.then = "none"]
<1>1. TypeOK  BY DEF FormInv
<1>2. r \in Requests  BY <1>1, FormTypes
<1>3. CASE r.then = "none" \/ ~heard  BY <1>3 DEF Following
<1>4. CASE r.then # "none" /\ heard
  <2>1. r.op \in Saving /\ r.then \in {"submit", "publish"}
    BY <1>1, <1>4, RequestTypes DEF FormInv, CallInv
  <2>2. /\ f \in Requests /\ f.op = r.then /\ f.id = i /\ f.then = "none" /\ f.text = r.text
        /\ f.cover = r.cover /\ f.seen = r.seen /\ f.visit = r.visit
    BY <1>2, <2>1 DEF Requests, Operations
  <2>3. Following(r, i, heard) = {f}  BY <1>4 DEF Following
  <2>4. QED  BY <2>1, <2>2, <2>3
<1>5. QED  BY <1>3, <1>4

\* What the page makes of an answer about an article.
LEMMA AfterShape ==
  ASSUME FormInv, NEW r \in sent, NEW i \in Ids, r.op \in Operations \cup {"create"}
  PROVE  LET p == After(r, i) IN
         /\ p \in Pages /\ p.visit = page.visit /\ p.id = page.id /\ p.shown = page.shown
         /\ p.text = page.text /\ p.cover = page.cover /\ p.upload = page.upload /\ p.met = page.met
         /\ \/ /\ p.mode = page.mode /\ p.next = page.next /\ p.saved = page.saved
               /\ p.modal \in {page.modal, "none"}
            \/ /\ Own(r) /\ page.mode \in Opened /\ r.op \in Saving
               /\ p.mode = page.mode /\ p.modal = page.modal
               /\ p.saved => r.text = page.text /\ r.cover = page.cover
               /\ r.op = "create" => p.next = i
               /\ r.op = "update" => p.next = page.next
            \/ /\ Own(r) /\ r.op = "remove" /\ p.mode = "none" /\ p.modal = "none"
               /\ p.next = page.next /\ p.saved = page.saved
<1>1. TypeOK  BY DEF FormInv
<1>2. page \in Pages /\ (page.text = r.text /\ page.cover = r.cover) \in BOOLEAN
  BY <1>1, FormTypes
<1>3. CASE ~Own(r) \/ page.mode \notin Opened
  <2>1. After(r, i) = page  BY <1>3 DEF After, Own
  <2>2. QED  BY <1>2, <2>1
<1> DEFINE same == page.text = r.text /\ page.cover = r.cover
<1>4. CASE Own(r) /\ page.mode \in Opened /\ r.op = "create"
  <2>1. After(r, i) = [page EXCEPT !.next = i, !.saved = same]  BY <1>4 DEF After, Own
  <2>2. same \in BOOLEAN  OBVIOUS
  <2>3. same => r.text = page.text /\ r.cover = page.cover  OBVIOUS
  <2> HIDE DEF same
  <2>4. QED  BY <1>2, <1>4, <2>1, <2>2, <2>3 DEF Pages, Saving
<1>5. CASE Own(r) /\ page.mode \in Opened /\ r.op = "update"
  <2>1. After(r, i) = [page EXCEPT !.saved = same]  BY <1>5 DEF After, Own
  <2>2. same \in BOOLEAN  OBVIOUS
  <2>3. same => r.text = page.text /\ r.cover = page.cover  OBVIOUS
  <2> HIDE DEF same
  <2>4. QED  BY <1>2, <1>5, <2>1, <2>2, <2>3 DEF Pages, Saving
<1>6. CASE Own(r) /\ page.mode \in Opened /\ r.op = "remove"
  <2>1. After(r, i) = [page EXCEPT !.mode = "none", !.modal = "none"]  BY <1>6 DEF After, Own
  <2>2. QED  BY <1>2, <1>6, <2>1 DEF Pages
<1>7. CASE Own(r) /\ page.mode \in Opened /\ r.op = "reject"
  <2>1. After(r, i) = [page EXCEPT !.modal = "none"]  BY <1>7 DEF After, Own
  <2>2. QED  BY <1>2, <1>7, <2>1 DEF Pages
<1>8. CASE Own(r) /\ page.mode \in Opened /\ r.op \notin {"create", "update", "remove", "reject"}
  <2>1. r.op \notin {"upload", "purge"}  BY DEF Operations
  <2>2. After(r, i) = page  BY <1>8, <2>1 DEF After, Own
  <2>3. QED  BY <1>2, <2>2
<1>9. QED  BY <1>3, <1>4, <1>5, <1>6, <1>7, <1>8

LEMMA AcceptStep ==
  ASSUME FormInv, NEW r \in sent, Accept(r)
  PROVE  FormInv'
<1>1. TypeOK  BY DEF FormInv
<1>2. PICK i \in IF r.op = "create" THEN Unused ELSE {r.id}, heard \in BOOLEAN :
        /\ row[i].status \in Accepted(r.op)
        /\ row' = [row EXCEPT ![i] = Effect(r, row[i])]
        /\ cover' = [cover EXCEPT ![i] = Stored(r, i)]
        /\ sent' = (sent \ {r}) \cup Following(r, i, heard)
        /\ page' = IF heard THEN After(r, i) ELSE page
        /\ IF heard THEN UNCHANGED budget ELSE Spend("lost")
        /\ elsewhere' = CASE r.op \notin {"create", "update"} -> elsewhere
                           [] r.op \in {"create", "update"} ->
                                IF r.visit = page.visit THEN elsewhere \ {i} ELSE elsewhere \cup {i}
        /\ released' = IF r.op \in {"submit", "publish"}
                       THEN released \cup {<<r.text, row[i].edits, i \in crossed>>} ELSE released
        /\ kept' = IF r.op \in {"create", "update"} THEN [kept EXCEPT ![i] = cover[i]] ELSE kept
  BY DEF Accept
<1>3. /\ r.op \in Operations \cup {"create"}
      /\ UNCHANGED <<me, copy, stored, texts, mine, purged, refused, crossed>>
  BY DEF Accept
<1>4. r.op # "pin" /\ r.text \in Nat /\ r.cover \in Covers /\ r.visit \in Nat
  BY <1>1, RequestTypes DEF FormInv, CallInv
<1>5. /\ i \in Ids /\ row[i].status \notin {"DELETED"}
      /\ r.op = "create" => row[i].status = "NEW"
      /\ r.op # "create" => i = r.id /\ row[i].status # "NEW"
  <2>1. CASE r.op = "create"
    BY <1>2, <2>1 DEF Unused
  <2>2. CASE r.op # "create"
    <3>1. r.op \in Operations /\ me \in Actors  BY <1>1, <1>3, <2>2, FormTypes
    <3>2. i = r.id /\ i \in Ids  BY <1>2, <2>2, <3>1 DEF FormInv, CallInv
    <3>3. row[i].status \in Statuses  BY <1>2, <2>2, <3>1, RequiredAreStatuses DEF Accepted
    <3>4. QED  BY <2>2, <3>2, <3>3 DEF Statuses
  <2>3. QED  BY <2>1, <2>2
<1> DEFINE y == Effect(r, row[i])
           z == Stored(r, i)
<1>6. /\ y \in Rows
      /\ r.op \in Saving => y.edits = r.text
      /\ r.op = "remove" => y.status = "DELETED" /\ y.edits = 0
      /\ r.op \notin Saving \cup {"remove"} => y.edits = row[i].edits
      /\ y.status # "NEW"
  <2>1. row[i] \in Rows  BY <1>1, <1>5, FormTypes
  <2>2. r.op \in (Operations \ {"pin"}) \cup {"create"}  BY <1>3, <1>4
  <2>3. QED  BY <1>4, <1>5, <2>1, <2>2, EffectOnRow
<1>7. /\ z \in Covers
      /\ r.op \in Saving => z = IF r.cover = NoCover THEN cover[i] ELSE r.cover
      /\ r.op \notin Saving => z = cover[i]
  <2>1. cover[i] \in Covers  BY <1>1, <1>5, FormTypes
  <2>2. QED  BY <1>4, <2>1 DEF Stored, Saving
<1>8. row' = [row EXCEPT ![i] = y] /\ cover' = [cover EXCEPT ![i] = z]
  BY <1>2
<1> HIDE DEF y, z
<1>9. /\ row'[i] = y /\ cover'[i] = z
      /\ \A j \in Ids : j # i => row'[j] = row[j] /\ cover'[j] = cover[j]
      /\ row' \in [Ids -> Rows] /\ cover' \in [Ids -> Covers]
  BY <1>1, <1>5, <1>6, <1>7, <1>8, FormTypes
<1>10. budget' \in Bounds  BY <1>1, <1>2, Spent, FormTypes
<1>26. /\ kept' \in [Ids -> Covers]
       /\ r.op \in Saving => kept'[i] = cover[i]
       /\ r.op \notin Saving => kept' = kept
       /\ \A j \in Ids : j # i => kept'[j] = kept[j]
  <2>1. kept \in [Ids -> Covers] /\ cover[i] \in Covers  BY <1>1, <1>5, FormTypes
  <2>2. CASE r.op \in Saving
    <3>1. kept' = [kept EXCEPT ![i] = cover[i]]  BY <1>2, <2>2 DEF Saving
    <3>2. QED  BY <1>5, <2>1, <2>2, <3>1
  <2>3. CASE r.op \notin Saving
    <3>1. kept' = kept  BY <1>2, <2>3 DEF Saving
    <3>2. QED  BY <2>1, <2>3, <3>1
  <2>4. QED  BY <2>2, <2>3
\* What is in flight now.
<1>11. /\ sent' \subseteq Requests
       /\ \A q \in sent' :
             \/ q \in sent /\ q # r
             \/ /\ sent' = (sent \ {r}) \cup {q} /\ r.op \in Saving /\ r.then \in {"submit", "publish"}
                /\ q.op = r.then /\ q.id = i /\ q.then = "none" /\ q.text = r.text
                /\ q.cover = r.cover /\ q.seen = r.seen /\ q.visit = r.visit
  <2>1. sent \subseteq Requests  BY <1>1, FormTypes
  <2>2. CASE Following(r, i, heard) = {}  BY <1>2, <2>1, <2>2
  <2>3. CASE \E f \in Requests :
               /\ Following(r, i, heard) = {f} /\ r.op \in Saving /\ r.then \in {"submit", "publish"}
               /\ f.op = r.then /\ f.id = i /\ f.then = "none" /\ f.text = r.text /\ f.cover = r.cover
               /\ f.seen = r.seen /\ f.visit = r.visit
    BY <1>2, <2>1, <2>3
  <2>4. QED  BY <1>5, <2>2, <2>3, FollowShape
\* And the page.
<1>12. /\ page' \in Pages /\ page'.visit = page.visit /\ page'.id = page.id /\ page'.shown = page.shown
       /\ page'.text = page.text /\ page'.cover = page.cover /\ page'.upload = page.upload
       /\ page'.met = page.met
       /\ \/ /\ page'.mode = page.mode /\ page'.next = page.next /\ page'.saved = page.saved
             /\ page'.modal \in {page.modal, "none"}
          \/ /\ Own(r) /\ page.mode \in Opened /\ r.op \in Saving
             /\ page'.mode = page.mode /\ page'.modal = page.modal
             /\ page'.saved => r.text = page.text /\ r.cover = page.cover
             /\ r.op = "create" => page'.next = i
             /\ r.op = "update" => page'.next = page.next
          \/ /\ Own(r) /\ r.op = "remove" /\ page'.mode = "none" /\ page'.modal = "none"
             /\ page'.next = page.next /\ page'.saved = page.saved
  <2>1. CASE heard
    <3>1. page' = After(r, i)  BY <1>2, <2>1
    <3>2. QED  BY <1>3, <1>5, <3>1, AfterShape
  <2>2. CASE ~heard
    <3>1. page' = page  BY <1>2, <2>2
    <3>2. QED  BY <1>1, <3>1, FormTypes
  <2>3. QED  BY <2>1, <2>2
<1>13. \A q : Own(q)' <=> Own(q)  BY <1>12 DEF Own
<1>14. /\ Own(r) /\ r.op = "create" => page.mode = "new"
       /\ Own(r) /\ r.op = "update" => page.mode # "new" /\ r.id = page.id
       /\ Own(r) /\ r.op = "remove" => page.mode # "new" /\ page.next = 0
  BY DEF FormInv, SaveInv, PageInv
<1>15. \A q \in sent : q.op \in Operations => q.id \in Ids /\ row[q.id].status # "NEW"
  BY DEF FormInv, CallInv
<1>16. /\ Sending \subseteq Operations /\ {"submit", "publish"} \subseteq Sending /\ "update" \in Sending
       /\ Saving = {"create", "update"} /\ "create" \notin Operations
  BY DEF Sending, Operations, Saving
<1>17. TypeOK'  BY <1>1, <1>3, <1>9, <1>10, <1>11, <1>12, <1>26 DEF TypeOK
<1>18. CallInv'
  <2>1. \A q \in sent' : q.visit <= page.visit /\ q.op # "pin"
    BY <1>11 DEF FormInv, CallInv
  <2>2. \A q \in sent' : q.op \in Operations => q.id \in Ids /\ row'[q.id].status # "NEW"
    BY <1>5, <1>6, <1>9, <1>11, <1>15
  <2>3. \A q \in sent' : q.op \notin Saving => q.then = "none"
    BY <1>11 DEF FormInv, CallInv
  <2>4. \A q \in sent' : q.op = "upload" => q.cover \in Assets
    BY <1>11 DEF FormInv, CallInv
  <2>5. ASSUME NEW p \in sent', NEW q \in sent', Own(p), Own(q), p.op \notin Aside, q.op \notin Aside
        PROVE  p = q
    <3>1. r.op \in Saving => r.op \notin Aside  BY DEF Saving, Aside
    <3>2. CASE p \in sent /\ p # r /\ q \in sent /\ q # r
      BY <2>5, <3>2 DEF FormInv, CallInv
    <3>3. CASE p \in sent /\ p # r /\ ~(q \in sent /\ q # r)
      BY <1>11, <2>5, <3>1, <3>3 DEF FormInv, CallInv, Own
    <3>4. CASE ~(p \in sent /\ p # r) /\ q \in sent /\ q # r
      BY <1>11, <2>5, <3>1, <3>4 DEF FormInv, CallInv, Own
    <3>5. CASE ~(p \in sent /\ p # r) /\ ~(q \in sent /\ q # r)
      BY <1>11, <3>5
    <3>6. QED  BY <3>2, <3>3, <3>4, <3>5
  <2>6. QED  BY <1>12, <1>13, <2>1, <2>2, <2>3, <2>4, <2>5 DEF CallInv
<1>19. PageInv'
  <2>1. \A j \in Ids : row[j].status # "NEW" => row'[j].status # "NEW"
    BY <1>6, <1>9
  <2>2. page'.mode \in {"loading", "edit"} => page'.id \in Ids /\ row'[page'.id].status # "NEW"
    BY <1>12, <2>1 DEF FormInv, PageInv
  <2>3. page'.next # 0 => row'[page'.next].status # "NEW"
    <3>1. page.next # 0 => page.next \in Ids /\ row'[page.next].status # "NEW"
      BY <1>1, <2>1, FormTypes DEF FormInv, PageInv
    <3>2. row'[i].status # "NEW"  BY <1>6, <1>9
    <3>3. page'.next \in {page.next, i}  BY <1>12, <1>16
    <3>4. QED  BY <3>1, <3>2, <3>3
  <2>4. page'.mode # "new" => page'.next = 0
    BY <1>12, <1>14, <1>16 DEF FormInv, PageInv
  <2>5. page'.mode = "loading" => ~page'.saved
    BY <1>12 DEF FormInv, PageInv, Opened
  <2>6. page'.modal \in {"reject", "delete"} => page'.mode = "edit"
    BY <1>12 DEF FormInv, PageInv
  <2>7. \A j \in Ids : copy'[j].shown # "NEW" => row'[j].status # "NEW"
    BY <1>3, <2>1 DEF FormInv, PageInv
  <2>8. /\ page'.mode = "edit" => page'.shown \in Statuses
        /\ page'.mode = "new" => page'.id = 0 /\ page'.shown = "NEW"
    BY <1>12 DEF FormInv, PageInv
  <2>9. QED  BY <2>2, <2>3, <2>4, <2>5, <2>6, <2>7, <2>8 DEF PageInv
<1>20. PurgeInv'
  BY <1>3, <1>11, <1>12, <1>13 DEF FormInv, PurgeInv, PurgesItsOwn
<1>21. OfferInv'
  <2>1. \A q \in sent' : q.op \in Operations => q.seen \in Required(q.op, me) \cup {"NEW"}
    BY <1>11 DEF FormInv, OfferInv
  <2>2. \A q \in sent' : q.then # "none" => q.seen \in Required(q.then, me) \cup {"NEW"}
    BY <1>11 DEF FormInv, OfferInv
  <2>3. /\ page'.modal = "reject" => page'.met \in Required("reject", me)
        /\ page'.modal = "delete" => page'.met \in Required("remove", me)
    BY <1>12 DEF FormInv, OfferInv
  <2>4. QED  BY <1>3, <2>1, <2>2, <2>3 DEF FormInv, OfferInv, RefusedOnlyIfStale
\* Requests about the article, and not crossed.
<1>22. ASSUME NEW q \in sent, q # r, q.op \in Sending, q.id = i, i \notin crossed
       PROVE  r.op \notin Sending \cup {"create"}
  BY <1>5, <1>15, <1>16, <1>22 DEF FormInv, OutInv
<1>23. OutInv'
  <2>1. page'.text <= texts /\ \A q \in sent' : q.text <= texts
    BY <1>11, <1>12 DEF FormInv, OutInv
  <2>2. \A j \in Ids : row'[j].edits <= texts /\ copy[j].text <= texts
    <3>1. texts \in Nat /\ r.text <= texts /\ row[i].edits <= texts
      BY <1>1, <1>5, FormTypes DEF FormInv, OutInv
    <3>2. y.edits <= texts  BY <1>6, <3>1
    <3>3. QED  BY <1>9, <3>2 DEF FormInv, OutInv
  <2>3. ASSUME NEW q \in sent', q.op \in {"submit", "publish"}, q.id \notin crossed,
               row'[q.id].status # "DELETED"
        PROVE  q.text <= row'[q.id].edits
    <3>1. CASE q \in sent /\ q # r /\ q.id # i
      BY <1>9, <1>15, <1>16, <2>3, <3>1 DEF FormInv, OutInv
    <3>2. CASE q \in sent /\ q # r /\ q.id = i
      <4>1. r.op \notin Saving \cup {"remove"}
        BY <1>6, <1>9, <1>16, <1>22, <2>3, <3>2
      <4>2. q.text <= row[i].edits  BY <1>5, <2>3, <3>2 DEF FormInv, OutInv
      <4>3. QED  BY <1>6, <1>9, <3>2, <4>1, <4>2
    <3>3. CASE ~(q \in sent /\ q # r)
      <4>1. r.op \in Saving /\ q.id = i /\ q.text = r.text  BY <1>11, <3>3
      <4>2. QED  BY <1>4, <1>6, <1>9, <4>1
    <3>4. QED  BY <3>1, <3>2, <3>3
  <2>4. ASSUME NEW p \in sent', NEW q \in sent', p.id = q.id, p.id \in Ids, p.id \notin crossed,
               p.op \in Sending, q.op \in Sending
        PROVE  p = q
    <3>1. CASE p \in sent /\ p # r /\ q \in sent /\ q # r
      BY <2>4, <3>1 DEF FormInv, OutInv
    <3>2. CASE p \in sent /\ p # r /\ ~(q \in sent /\ q # r)
      BY <1>11, <1>16, <1>22, <2>4, <3>2
    <3>3. CASE ~(p \in sent /\ p # r) /\ q \in sent /\ q # r
      BY <1>11, <1>16, <1>22, <2>4, <3>3
    <3>4. CASE ~(p \in sent /\ p # r) /\ ~(q \in sent /\ q # r)
      BY <1>11, <3>4
    <3>5. QED  BY <3>1, <3>2, <3>3, <3>4
  <2>5. ASSUME NEW t \in released', ~t[3] PROVE t[2] >= t[1]
    <3>1. CASE t \in released  BY <2>5, <3>1 DEF FormInv, OutInv
    <3>2. CASE t \notin released
      <4>1. r.op \in {"submit", "publish"} /\ t = <<r.text, row[i].edits, i \in crossed>>
        BY <1>2, <2>5, <3>2
      <4>2. r.id = i /\ i \notin crossed  BY <1>5, <2>5, <4>1
      <4>3. r.text <= row[i].edits  BY <1>5, <4>1, <4>2 DEF FormInv, OutInv
      <4>4. row[i].edits \in Nat  BY <1>1, <1>5, FormTypes DEF Rows
      <4>5. QED  BY <1>4, <4>1, <4>3, <4>4
    <3>3. QED  BY <3>1, <3>2
  <2>6. QED  BY <1>3, <2>1, <2>2, <2>3, <2>4, <2>5 DEF OutInv
<1>24. SaveInv'
  <2>1. /\ \A q \in sent' : Own(q) /\ q.op = "update" => q.id = page'.id /\ page'.mode # "new"
        /\ \A q \in sent' : Own(q) /\ q.op = "remove" => page'.mode # "new"
    <3>1. page'.mode \in {page.mode, "none"}  BY <1>12
    <3>2. QED  BY <1>11, <1>12, <3>1 DEF FormInv, SaveInv
  <2>2. \A q \in sent' : Own(q) /\ q.op = "create" => page'.mode = "new"
    <3>1. \A q \in sent' : q.op = "create" => q \in sent  BY <1>11
    <3>2. \A q \in sent' : Own(q) /\ q.op = "create" => page.mode = "new" /\ ~(Own(r) /\ r.op = "remove")
      BY <1>14, <3>1 DEF FormInv, SaveInv
    <3>3. QED  BY <1>12, <3>2
  <2>3. ASSUME NEW q \in sent', Own(q), q.op \in Saving, page'.saved
        PROVE  q.text = page.text /\ q.cover = page.cover
    <3>1. q \in sent /\ q # r  BY <1>11, <1>16, <2>3
    <3>2. CASE page'.saved = page.saved
      BY <2>3, <3>1, <3>2 DEF FormInv, SaveInv
    <3>3. CASE page'.saved # page.saved
      <4>1. Own(r) /\ r.op \in Saving  BY <1>12, <3>3
      <4>2. q = r  BY <2>3, <3>1, <4>1 DEF FormInv, CallInv, Saving, Aside
      <4>3. QED  BY <3>1, <4>2
    <3>4. QED  BY <3>2, <3>3
  <2>4. ASSUME SavedHere(Held)'
        PROVE  /\ row'[Held'].edits = page.text
               /\ cover'[Held'] = IF page.cover = NoCover THEN kept'[Held'] ELSE page.cover
    <3> DEFINE h == Held'
    <3>1. page'.saved /\ h # 0 /\ h \notin elsewhere' /\ row'[h].status # "DELETED"
      BY <1>12, <2>4 DEF SavedHere
    <3>2. h = IF page'.mode = "edit" THEN page.id ELSE page'.next
      BY <1>12 DEF Held
    <3>3. Own(r) /\ r.op = "update" => i = page.id  BY <1>5, <1>14
    <3> HIDE DEF h
    \* The answer to a save of this page.
    <3>4. CASE Own(r) /\ r.op \in Saving /\ h = i
      <4>1. r.text = page.text /\ r.cover = page.cover
        BY <1>12, <3>1, <3>4 DEF FormInv, SaveInv
      <4>2. QED  BY <1>6, <1>7, <1>9, <1>26, <3>1, <3>4, <4>1 DEF h
    <3>5. CASE ~(Own(r) /\ r.op \in Saving /\ h = i)
      <4>1. h = Held /\ page.saved
        <5>1. CASE page'.mode = page.mode /\ page'.next = page.next /\ page'.saved = page.saved
          BY <3>1, <3>2, <5>1 DEF Held
        <5>2. CASE /\ Own(r) /\ page.mode \in Opened /\ r.op \in Saving /\ page'.mode = page.mode
                   /\ r.op = "create" => page'.next = i
          <6>1. h = i
            <7>1. CASE r.op = "create"  BY <1>12, <1>14, <1>16, <3>2, <5>2, <7>1
            <7>2. CASE r.op = "update"
              BY <1>14, <3>2, <3>3, <5>2, <7>2 DEF Opened
            <7>3. QED  BY <1>16, <5>2, <7>1, <7>2
          <6>2. QED  BY <3>5, <5>2, <6>1
        <5>3. CASE Own(r) /\ r.op = "remove" /\ page'.mode = "none" /\ page'.next = page.next
          BY <1>14, <3>1, <3>2, <5>3
        <5>4. QED  BY <1>12, <5>1, <5>2, <5>3
      <4>2. h \in Ids /\ row[h].status # "NEW"
        BY <1>1, <3>1, <4>1, FormTypes DEF Held, FormInv, PageInv
      <4>3. CASE h # i
        <5>1. h \notin elsewhere  BY <1>2, <3>1, <4>3
        <5>2. row'[h] = row[h] /\ cover'[h] = cover[h] /\ kept'[h] = kept[h]  BY <1>9, <1>26, <4>2, <4>3
        <5>3. SavedHere(Held)  BY <3>1, <4>1, <5>1, <5>2 DEF SavedHere
        <5>4. QED  BY <3>1, <4>1, <5>2, <5>3 DEF h, FormInv, SaveInv
      <4>4. CASE h = i
        <5>1. r.op \notin Saving
          <6>1. ~(Own(r) /\ r.op \in Saving)  BY <3>5, <4>4
          <6>2. ~Own(r) /\ r.op \in Saving => i \in elsewhere'  BY <1>2, <1>16 DEF Own
          <6>3. QED  BY <3>1, <4>4, <6>1, <6>2
        <5>2. elsewhere' = elsewhere  BY <1>2, <1>16, <5>1
        <5>3. r.op # "remove"  BY <1>6, <1>9, <3>1, <4>4
        <5>4. row'[i].edits = row[i].edits /\ cover'[i] = cover[i] /\ kept' = kept
          BY <1>6, <1>7, <1>9, <1>26, <5>1, <5>3
        <5>5. SavedHere(Held)  BY <1>5, <3>1, <4>1, <4>4, <5>2 DEF SavedHere
        <5>6. QED  BY <3>1, <4>1, <4>4, <5>4, <5>5 DEF h, FormInv, SaveInv
      <4>5. QED  BY <4>3, <4>4
    <3>6. QED  BY <3>4, <3>5
  <2>5. QED  BY <1>12, <1>13, <2>1, <2>2, <2>3, <2>4 DEF SaveInv
<1>25. QED  BY <1>17, <1>18, <1>19, <1>20, <1>21, <1>23, <1>24 DEF FormInv

\* A request is gone, and an image may have come or gone with it.
LEMMA DropShape ==
  ASSUME FormInv, NEW r \in sent, sent' = sent \ {r}, page' \in Pages, SamePlace,
         page'.modal = page.modal, page'.text = page.text,
         page'.saved => page.saved /\ page'.cover = page.cover,
         page'.upload # 0 => page'.upload \in mine', mine \subseteq mine', stored' \subseteq Assets,
         PurgesItsOwn', RefusedOnlyIfStale', budget' \in Bounds,
         UNCHANGED <<me, copy, row, cover, texts, released, crossed, kept, elsewhere>>
  PROVE  FormInv'
<1>1. TypeOK  BY DEF FormInv
<1>2. \A q : Own(q)' <=> Own(q)  BY DEF Own, SamePlace
<1>3. sent' \subseteq sent  OBVIOUS
<1>4. TypeOK'  BY <1>1, <1>3 DEF TypeOK
<1>5. CallInv'  BY <1>2, <1>3 DEF FormInv, CallInv, SamePlace
<1>6. PageInv'  BY DEF FormInv, PageInv, SamePlace
<1>7. PurgeInv'  BY <1>2, <1>3 DEF FormInv, PurgeInv
<1>8. OfferInv'  BY <1>3 DEF FormInv, OfferInv, SamePlace
<1>9. OutInv'  BY <1>3 DEF FormInv, OutInv
<1>10. SaveInv'  BY <1>2, <1>3 DEF FormInv, SaveInv, SavedHere, Held, SamePlace
<1>11. QED  BY <1>4, <1>5, <1>6, <1>7, <1>8, <1>9, <1>10 DEF FormInv

LEMMA RefuseStep ==
  ASSUME FormInv, NEW r \in sent, Refuse(r)
  PROVE  FormInv'
<1>1. TypeOK  BY DEF FormInv
<1> DEFINE met == IF r.op = "create" THEN "NEW" ELSE row[r.id].status
<1>2. /\ r.op = "create" \/ (r.op \in Operations /\ row[r.id].status \notin Accepted(r.op))
      /\ sent' = (sent \ {r}) \cup Following(r, r.id, FALSE)
      /\ refused' = refused \cup {<<r.op, r.seen, met>>}
      /\ UNCHANGED <<me, page, copy, server, mine, purged, released, crossed, kept, elsewhere, budget>>
  BY DEF Refuse
<1>3. sent' = sent \ {r}  BY <1>2 DEF Following
<1>4. r.op # "create" => r.seen # met
  <2>1. ASSUME r.op # "create" PROVE r.seen # row[r.id].status
    <3>1. r.seen \in Required(r.op, me) \cup {"NEW"} /\ row[r.id].status # "NEW"
      BY <1>2, <2>1 DEF FormInv, OfferInv, CallInv
    <3>2. row[r.id].status \notin Required(r.op, me)
      BY <1>2, <2>1 DEF Accepted
    <3>3. QED  BY <3>1, <3>2
  <2>2. QED  BY <2>1
<1> HIDE DEF met
<1>5. RefusedOnlyIfStale'
  <2>1. ASSUME NEW t \in refused', t[1] # "create" PROVE t[2] # t[3]
    <3>1. CASE t \in refused  BY <2>1, <3>1 DEF FormInv, OfferInv, RefusedOnlyIfStale
    <3>2. CASE t = <<r.op, r.seen, met>>  BY <1>4, <2>1, <3>2
    <3>3. QED  BY <1>2, <2>1, <3>1, <3>2
  <2>2. QED  BY <2>1 DEF RefusedOnlyIfStale
<1>6. PurgesItsOwn'  BY <1>2 DEF FormInv, PurgeInv, PurgesItsOwn
<1>7. /\ UNCHANGED <<me, copy, row, cover, texts, released, crossed, kept, elsewhere>>
      /\ page' = page /\ mine' = mine /\ stored' \subseteq Assets /\ budget' \in Bounds
  BY <1>1, <1>2, FormTypes DEF server
<1>8. /\ page' \in Pages /\ SamePlace /\ page'.modal = page.modal /\ page'.text = page.text
      /\ page'.saved => page.saved /\ page'.cover = page.cover
      /\ page'.upload # 0 => page'.upload \in mine'
  BY <1>1, <1>7, FormTypes DEF SamePlace, FormInv, PurgeInv
<1>9. QED  BY <1>3, <1>5, <1>6, <1>7, <1>8, DropShape

LEMMA FailStep ==
  ASSUME FormInv, NEW r \in sent, Fail(r)
  PROVE  FormInv'
<1>1. TypeOK  BY DEF FormInv
<1>2. /\ Spend("lost") /\ sent' = (sent \ {r}) \cup Following(r, r.id, FALSE)
      /\ UNCHANGED <<me, page, copy, server, mine, history, elsewhere>>
  BY DEF Fail
<1>3. sent' = sent \ {r}  BY <1>2 DEF Following
<1>4. PurgesItsOwn' /\ RefusedOnlyIfStale'
  BY <1>2 DEF FormInv, PurgeInv, PurgesItsOwn, OfferInv, RefusedOnlyIfStale, history
<1>5. /\ UNCHANGED <<me, copy, row, cover, texts, released, crossed, kept, elsewhere>>
      /\ page' = page /\ mine' = mine /\ stored' \subseteq Assets
  BY <1>1, <1>2, FormTypes DEF server, history
<1>6. budget' \in Bounds  BY <1>1, <1>2, Spent
<1>7. /\ page' \in Pages /\ SamePlace /\ page'.modal = page.modal /\ page'.text = page.text
      /\ page'.saved => page.saved /\ page'.cover = page.cover
      /\ page'.upload # 0 => page'.upload \in mine'
  BY <1>1, <1>5, FormTypes DEF SamePlace, FormInv, PurgeInv
<1>8. QED  BY <1>3, <1>4, <1>5, <1>6, <1>7, DropShape

LEMMA TakeStep ==
  ASSUME FormInv, NEW r \in sent, Take(r)
  PROVE  FormInv'
<1>1. TypeOK  BY DEF FormInv
<1>2. /\ r.op = "upload" /\ stored' = stored \cup {r.cover}
      /\ mine' = IF r.visit = page.visit THEN mine \cup {r.cover} ELSE mine
      /\ sent' = sent \ {r} /\ page' = After(r, 0)
      /\ UNCHANGED <<me, copy, row, cover, texts, history, elsewhere, budget>>
  BY DEF Take
<1>3. r.cover \in Assets  BY <1>2 DEF FormInv, CallInv
<1>4. /\ page' \in Pages /\ SamePlace /\ page'.modal = page.modal /\ page'.text = page.text
      /\ page'.saved => page.saved /\ page'.cover = page.cover
      /\ page'.upload = page.upload \/ (r.visit = page.visit /\ page'.upload = r.cover)
  <2>1. CASE r.visit # page.visit \/ page.mode \notin Opened
    <3>1. page' = page  BY <1>2, <2>1 DEF After
    <3>2. QED  BY <1>1, <3>1, FormTypes DEF SamePlace
  <2>2. CASE r.visit = page.visit /\ page.mode \in Opened
    <3>1. page' = [page EXCEPT !.cover = r.cover, !.upload = r.cover, !.saved = FALSE]
      BY <1>2, <2>2 DEF After
    <3>2. QED  BY <1>1, <1>3, <2>2, <3>1, FormTypes DEF SamePlace, Pages
  <2>3. QED  BY <2>1, <2>2
<1>5. mine \subseteq mine' /\ (r.visit = page.visit => r.cover \in mine')  BY <1>2
<1>6. page'.upload # 0 => page'.upload \in mine'
  BY <1>4, <1>5 DEF FormInv, PurgeInv
<1>7. /\ UNCHANGED <<me, copy, row, cover, texts, released, crossed, kept, elsewhere>>
      /\ stored' \subseteq Assets /\ budget' \in Bounds
  BY <1>1, <1>2, <1>3, FormTypes DEF history
<1>8. PurgesItsOwn' /\ RefusedOnlyIfStale'
  BY <1>2 DEF FormInv, PurgeInv, PurgesItsOwn, OfferInv, RefusedOnlyIfStale, history
<1>9. sent' = sent \ {r}  BY <1>2
<1>10. QED  BY <1>4, <1>5, <1>6, <1>7, <1>8, <1>9, DropShape

LEMMA PurgeStep ==
  ASSUME FormInv, NEW r \in sent, Purge(r)
  PROVE  FormInv'
<1>1. TypeOK  BY DEF FormInv
<1>2. /\ r.op = "purge" /\ stored' = stored \ {r.cover}
      /\ purged' = purged \cup {<<r.cover, r.visit # page.visit \/ r.cover \in mine>>}
      /\ sent' = sent \ {r} /\ page' = After(r, 0)
      /\ UNCHANGED <<me, copy, row, cover, texts, mine, refused, released, crossed, kept, elsewhere, budget>>
  BY DEF Purge
<1>3. purged' = purged \cup {<<r.cover, TRUE>>}
  <2>1. r.visit # page.visit \/ r.cover \in mine  BY <1>2 DEF FormInv, PurgeInv, Own
  <2>2. (r.visit # page.visit \/ r.cover \in mine) = TRUE  BY <2>1
  <2>3. QED  BY <1>2, <2>2
<1>4. PurgesItsOwn'
  <2>1. ASSUME NEW p \in purged' PROVE p[2]
    <3>1. CASE p \in purged  BY <3>1 DEF FormInv, PurgeInv, PurgesItsOwn
    <3>2. CASE p = <<r.cover, TRUE>>  BY <3>2
    <3>3. QED  BY <1>3, <2>1, <3>1, <3>2
  <2>2. QED  BY <2>1 DEF PurgesItsOwn
<1>5. RefusedOnlyIfStale'  BY <1>2 DEF FormInv, OfferInv, RefusedOnlyIfStale
<1>6. /\ page' \in Pages /\ SamePlace /\ page'.modal = page.modal /\ page'.text = page.text
      /\ page'.saved => page.saved /\ page'.cover = page.cover
      /\ page'.upload \in {page.upload, 0}
  <2>1. CASE r.visit # page.visit \/ page.mode \notin Opened
    <3>1. page' = page  BY <1>2, <2>1 DEF After
    <3>2. QED  BY <1>1, <3>1, FormTypes DEF SamePlace
  <2>2. CASE r.visit = page.visit /\ page.mode \in Opened
    <3>1. page' = [page EXCEPT !.cover = NoCover, !.upload = 0, !.saved = FALSE]
      BY <1>2, <2>2 DEF After
    <3>2. QED  BY <1>1, <3>1, FormTypes DEF SamePlace, Pages
  <2>3. QED  BY <2>1, <2>2
<1>7. page'.upload # 0 => page'.upload \in mine'  BY <1>2, <1>6 DEF FormInv, PurgeInv
<1>8. /\ UNCHANGED <<me, copy, row, cover, texts, released, crossed, kept, elsewhere>> /\ mine' = mine
      /\ stored' \subseteq Assets /\ budget' \in Bounds /\ sent' = sent \ {r}
  BY <1>1, <1>2, FormTypes
<1>9. QED  BY <1>4, <1>5, <1>6, <1>7, <1>8, DropShape

LEMMA ElsewhereStep ==
  ASSUME FormInv, NEW i \in Ids, Elsewhere(i)
  PROVE  FormInv'
<1>1. TypeOK  BY DEF FormInv
<1>2. PICK op \in Operations \ {"pin"}, by \in Actors :
        /\ row[i].status \in Required(op, by)
        /\ op = "update" => budget.texts > 0
        /\ texts' = IF op = "update" THEN texts + 1 ELSE texts
        /\ budget' = [budget EXCEPT !.elsewhere = budget.elsewhere - 1,
                                    !.texts = budget.texts - (texts' - texts)]
        /\ row' = [row EXCEPT ![i] = Effect([op |-> op, text |-> texts + 1], row[i])]
  BY DEF Elsewhere
<1>3. /\ budget.elsewhere > 0 /\ elsewhere' = elsewhere \cup {i}
      /\ UNCHANGED <<me, page, copy, sent, cover, stored, mine, purged, refused, released, crossed,
                     kept>>
  BY DEF Elsewhere, history
<1>4. row[i].status \in Statuses /\ row[i].status \notin {"NEW", "DELETED"} /\ row[i] \in Rows
      /\ row[i].edits \in Nat /\ row[i].edits <= texts /\ texts \in Nat
  <2>1. row[i].status \in Statuses  BY <1>2, RequiredAreStatuses
  <2>2. QED  BY <1>1, <2>1, FormTypes DEF Statuses, Rows, FormInv, OutInv
<1>5. PICK s : s = [op |-> op, text |-> texts + 1]  OBVIOUS
<1>6. s.op = op /\ s.text = texts + 1 /\ s.op \in (Operations \ {"pin"}) \cup {"create"} /\ s.text \in Nat
  BY <1>4, <1>5
<1>7. PICK y : y = Effect(s, row[i])  OBVIOUS
<1>8. /\ y \in Rows /\ y.status # "NEW"
      /\ op = "update" => y.edits = texts + 1
      /\ op = "remove" => y.status = "DELETED" /\ y.edits = 0
      /\ op \notin {"update", "remove"} => y.edits = row[i].edits
  <2>1. op # "create"  BY DEF Operations
  <2>2. QED  BY <1>4, <1>6, <1>7, <2>1, EffectOnRow DEF Saving
<1>9. row' = [row EXCEPT ![i] = y]  BY <1>2, <1>5, <1>7
<1>10. /\ row'[i] = y /\ row' \in [Ids -> Rows]
       /\ \A j \in Ids : j # i => row'[j] = row[j]
  BY <1>1, <1>8, <1>9, FormTypes
<1>11. texts' \in Nat /\ texts <= texts' /\ (op = "update" => texts' = texts + 1)
  BY <1>2, <1>4
<1>12. budget' \in Bounds
  <2>1. budget \in Bounds  BY <1>1, FormTypes
  <2>2. budget.elsewhere \in Nat /\ budget.texts \in Nat  BY <2>1 DEF Bounds
  <2>3. budget.elsewhere - 1 \in Nat  BY <1>3, <2>2
  <2>4. budget.texts - (texts' - texts) \in Nat
    <3>1. CASE op = "update"
      <4>1. texts' - texts = 1  BY <1>2, <1>4, <3>1
      <4>2. QED  BY <1>2, <2>2, <3>1, <4>1
    <3>2. CASE op # "update"
      <4>1. texts' - texts = 0  BY <1>2, <1>4, <3>2
      <4>2. QED  BY <2>2, <4>1
    <3>3. QED  BY <3>1, <3>2
  <2>5. QED  BY <1>2, <2>1, <2>3, <2>4 DEF Bounds
<1>13. \A j \in Ids : row[j].status # "NEW" => row'[j].status # "NEW"
  BY <1>8, <1>10
<1>14. TypeOK'  BY <1>1, <1>3, <1>10, <1>11, <1>12 DEF TypeOK
<1>15. CallInv'  BY <1>3, <1>13 DEF FormInv, CallInv, Own
<1>16. PageInv'
  <2>1. page.next # 0 => page.next \in Ids  BY <1>1, FormTypes
  <2>2. QED  BY <1>3, <1>13, <2>1 DEF FormInv, PageInv
<1>17. PurgeInv'  BY <1>3 DEF FormInv, PurgeInv, PurgesItsOwn, Own
<1>18. OfferInv'  BY <1>3 DEF FormInv, OfferInv, RefusedOnlyIfStale
<1>19. OutInv'
  <2>1. page.text <= texts' /\ \A q \in sent : q.text <= texts'
    <3>1. page.text \in Nat /\ \A q \in sent : q.text \in Nat  BY <1>1, RequestTypes, FormTypes
    <3>2. QED  BY <1>4, <1>11, <3>1 DEF FormInv, OutInv
  <2>2. \A j \in Ids : row'[j].edits <= texts' /\ copy[j].text <= texts'
    <3>1. \A j \in Ids : row[j].edits \in Nat /\ copy[j].text \in Nat
      BY <1>1, FormTypes DEF Rows, Copies
    <3>2. \A j \in Ids : row[j].edits <= texts' /\ copy[j].text <= texts'
      BY <1>4, <1>11, <3>1 DEF FormInv, OutInv
    <3>3. y.edits <= texts'  BY <1>4, <1>8, <1>11
    <3>4. QED  BY <1>10, <3>2, <3>3
  <2>3. ASSUME NEW q \in sent, q.op \in {"submit", "publish"}, q.id \notin crossed,
               row'[q.id].status # "DELETED"
        PROVE  q.text <= row'[q.id].edits
    <3>1. q.id \in Ids  BY <2>3 DEF FormInv, CallInv, Operations
    <3>2. CASE q.id # i  BY <1>10, <2>3, <3>1, <3>2 DEF FormInv, OutInv
    <3>3. CASE q.id = i
      <4>1. q.text <= row[i].edits /\ q.text \in Nat
        BY <1>1, <1>4, <2>3, <3>3, RequestTypes DEF FormInv, OutInv
      <4>2. op # "remove"  BY <1>8, <1>10, <2>3, <3>3
      <4>3. row[i].edits <= y.edits  BY <1>4, <1>8, <4>2
      <4>4. y.edits \in Nat  BY <1>8 DEF Rows
      <4>5. QED  BY <1>4, <1>10, <3>3, <4>1, <4>3, <4>4
    <3>4. QED  BY <3>2, <3>3
  <2>4. QED  BY <1>3, <2>1, <2>2, <2>3 DEF FormInv, OutInv
<1>20. SaveInv'
  <2>1. Held' = Held  BY <1>3 DEF Held
  <2>2. ASSUME SavedHere(Held)'
        PROVE  /\ row'[Held].edits = page.text
               /\ cover[Held] = IF page.cover = NoCover THEN kept[Held] ELSE page.cover
    <3>1. page.saved /\ Held # 0 /\ Held \notin elsewhere /\ Held # i /\ row'[Held].status # "DELETED"
      BY <1>3, <2>1, <2>2 DEF SavedHere
    <3>2. Held \in Ids
      BY <1>1, <3>1, FormTypes DEF Held, FormInv, PageInv
    <3>3. row'[Held] = row[Held]  BY <1>10, <3>1, <3>2
    <3>4. SavedHere(Held)  BY <3>1, <3>3 DEF SavedHere
    <3>5. QED  BY <2>2, <3>3, <3>4 DEF FormInv, SaveInv
  <2>3. QED  BY <1>3, <2>1, <2>2 DEF FormInv, SaveInv, Own
<1>21. QED  BY <1>14, <1>15, <1>16, <1>17, <1>18, <1>19, <1>20 DEF FormInv

LEMMA FormStarts ==
  ASSUME Init
  PROVE  FormInv
<1>1. /\ me \in Actors /\ row = [i \in Ids |-> NoRow] /\ cover = [i \in Ids |-> NoCover]
      /\ page = Closed /\ sent = {} /\ copy = [i \in Ids |-> NoCopy] /\ stored = {} /\ texts = 0
      /\ mine = {} /\ purged = {} /\ refused = {} /\ released = {} /\ kept = [i \in Ids |-> NoCover]
      /\ budget \in Budgets
  BY DEF Init
<1>2. /\ page.mode = "none" /\ ~page.saved /\ page.next = 0 /\ page.modal = "none" /\ page.upload = 0
      /\ page.text = 0 /\ page \in Pages
  BY <1>1 DEF Closed, Pages, Covers
<1>3. \A i \in Ids : row[i] = NoRow /\ row[i].status = "NEW" /\ row[i].edits = 0
  BY <1>1 DEF NoRow
<1>4. \A i \in Ids : copy[i].shown = "NEW" /\ copy[i].text = 0
  BY <1>1 DEF NoCopy
<1>5. TypeOK
  <2>1. NoRow \in Rows  BY DEF NoRow, Rows
  <2>2. NoCopy \in Copies  BY DEF NoCopy, Copies, Covers
  <2>3. NoCover \in Covers  BY DEF Covers
  <2>4. Budgets \subseteq Bounds  BY ArticleFormAssumption
  <2>5. QED  BY <1>1, <1>2, <2>1, <2>2, <2>3, <2>4 DEF TypeOK
<1>6. CallInv  BY <1>1 DEF CallInv
<1>7. PageInv  BY <1>2, <1>4 DEF PageInv
<1>8. PurgeInv  BY <1>1, <1>2 DEF PurgeInv, PurgesItsOwn
<1>9. OfferInv  BY <1>1, <1>2 DEF OfferInv, RefusedOnlyIfStale
<1>10. OutInv  BY <1>1, <1>2, <1>3, <1>4 DEF OutInv
<1>11. SaveInv  BY <1>1, <1>2 DEF SaveInv, SavedHere
<1>12. QED  BY <1>5, <1>6, <1>7, <1>8, <1>9, <1>10, <1>11 DEF FormInv

LEMMA FormStep ==
  ASSUME FormInv, Next
  PROVE  FormInv'
<1>1. \/ New \/ Redirect \/ Fetch \/ Type \/ Paste
      \/ \E i \in Ids : Open(i) \/ OpenCopy(i) \/ Elsewhere(i)
      \/ \E then \in {"none", "submit", "publish"} : Save(then)
      \/ Feature \/ Unpublish
      \/ \E modal \in {"delete", "reject", "cover"} : Ask(modal)
      \/ Dismiss \/ Confirm \/ RemoveCover \/ Upload
      \/ \E r \in sent : Accept(r) \/ Refuse(r) \/ Take(r) \/ Purge(r) \/ Fail(r)
  BY DEF Next
<1>2. QED
  BY <1>1, VisitStep, OpenCopyStep, FetchStep, TypeStep, PasteStep, ElsewhereStep, SaveStep, EditorStep,
     AskStep, ConfirmStep, RemoveCoverStep, UploadStep, AcceptStep, RefuseStep, TakeStep, PurgeStep, FailStep

LEMMA FormAlways == PagesSpec => []FormInv
<1>1. PagesInit => FormInv  BY FormStarts DEF PagesInit, NoForm
<1>2. FormInv /\ [PagesNext]_<<part, vars, listVars, composerVars, playerVars, signInVars>> => FormInv'
  <2>1. ASSUME FormInv, UNCHANGED vars PROVE FormInv'
    <3>1. UNCHANGED <<me, row, cover, page, copy, sent, stored, texts, mine, purged, refused, released,
                      crossed, kept, elsewhere, budget>>
      BY <2>1 DEF vars, server, history
    <3>2. TypeOK' /\ CallInv' /\ PageInv' /\ PurgeInv'
      BY <2>1, <3>1 DEF FormInv, TypeOK, CallInv, PageInv, PurgeInv, PurgesItsOwn, Own
    <3>3. OfferInv' /\ OutInv'
      BY <2>1, <3>1 DEF FormInv, OfferInv, RefusedOnlyIfStale, OutInv
    <3>4. SaveInv'
      BY <2>1, <3>1 DEF FormInv, SaveInv, SavedHere, Held, Own
    <3>5. QED  BY <3>2, <3>3, <3>4 DEF FormInv
  <2>2. QED  BY <2>1, FormStep DEF PagesNext
<1>3. QED  BY <1>1, <1>2, PTL DEF PagesSpec

\* The form purges from Cloudinary only images that it uploaded itself, however late the answers
\* of the library come and whatever page is open by then.
THEOREM FormsPurgeTheirOwn == PagesSpec => []PurgesItsOwn
<1>1. FormInv => PurgesItsOwn  BY DEF FormInv, PurgeInv
<1>2. QED  BY <1>1, FormAlways, PTL

\* What the buttons of the form offer is what the server takes: a request about an article is
\* refused only when it is not any more in the status that the page showed at the click; only a
\* creation may also be refused for its fields.
THEOREM OffersAreTaken == PagesSpec => []RefusedOnlyIfStale
<1>1. FormInv => RefusedOnlyIfStale  BY DEF FormInv, OfferInv
<1>2. QED  BY <1>1, FormAlways, PTL

\* What goes to review or to readers is no older than the text at the click, unless two pages save
\* the article at once, and a form that says it is saved shows the text and the cover that are
\* stored; without a cover on the form, the article keeps the one it had.
THEOREM SavedIsStored == PagesSpec => []TypedIsStored
<1>1. FormInv => TypedIsStored  BY DEF FormInv, OutInv, SaveInv, TypedIsStored
<1>2. QED  BY <1>1, FormAlways, PTL

(***************************************************************************)
(* The lists                                                               *)
(***************************************************************************)
Match(table, s) ==
    {i \in Items : /\ table[i] # "none"
                   /\ s.tab = "some" => table[i] = "tab"
                   /\ s.search = "some" => i \in Named}

Total(table, s) == Cardinality(Match(table, s))

\* Page s.at is among those that a list of that many rows has.
Reaches(s, total) == s.at = 1 \/ (s.at - 1) * Limit < total

\* An answer is empty only if its page is past the end.
Answers == {d \in [of : L!Selections, ids : SUBSET Items, total : Nat] :
                d.ids = {} => d.total <= (d.of.at - 1) * Limit}

ListFlights == [key : L!Selections, of : L!Selections, read : BOOLEAN, got : Answers]

FlownTo(s) == \E f \in flights : f.key = s

CachedAt(s) == \E c \in cache : c.key = s

\* An answer for s has a row that the page has since removed.
Old(s) == \E c \in cache : c.key = s /\ c.data.ids \cap done # {}

\* What is kept under a key is an answer to it, and what is chosen is kept, failed or on its way.
KeyInv ==
    /\ sel \in L!Selections /\ cache \subseteq [key : L!Selections, data : Answers]
    /\ flights \subseteq ListFlights /\ last \in [none : BOOLEAN, data : Answers]
    /\ \A c \in cache : c.data.of = c.key
    /\ \A f \in flights : f.key = f.of /\ (f.read => f.got.of = f.of)
    /\ \A s \in fresh : CachedAt(s)
    /\ CachedAt(sel) \/ sel \in failed \/ FlownTo(sel)

\* A row that was removed is in no list any more, and an answer that has it all the same is about
\* to be replaced, or came for a list that was left.
DoneInv ==
    /\ done \subseteq Items
    /\ kind = "review" => sel.tab = "some" /\ ~timer
    /\ kind = "review" => \A f \in flights : f.of.tab = "some"
    /\ \A i \in done : \/ kind = "subscribers" /\ rows[i] = "none"
                       \/ kind = "review" /\ rows[i] = "other"
    /\ \A f \in flights : f.read /\ f.got.ids \cap done # {} => f.key \in overtaken
    /\ \A s \in fresh : Old(s) => s \in overtaken
    /\ Old(sel) => sel \in overtaken \/ sel \in failed \/ FlownTo(sel)

\* While nothing was moved lists only grow, and nobody is past their ends.
GrowInv ==
    /\ kind = "media" => \A i \in listSent : rows[i] = "none"
    /\ ~moved =>
        /\ Reaches(sel, Total(rows, sel))
        /\ \A f \in flights : Reaches(f.of, Total(rows, f.of))
        /\ \A f \in flights : f.read => Reaches(f.of, f.got.total) /\ f.got.total <= Total(rows, f.of)
        /\ \A c \in cache : Reaches(c.key, c.data.total) /\ c.data.total <= Total(rows, c.key)
        /\ last.data.total <= Total(rows, last.data.of)

ListInv == L!TypeOK /\ KeyInv /\ DoneInv /\ GrowInv

LEMMA ListCounts == \A S : L!Cardinality(S) = Cardinality(S) /\ (L!IsFiniteSet(S) <=> IsFiniteSet(S))
BY DEF L!Cardinality, Cardinality, L!IsFiniteSet, IsFiniteSet

LEMMA ListConstants ==
  /\ Items \subseteq Nat /\ IsFiniteSet(Items) /\ 0 \notin Items
  /\ Limit \in Nat /\ Limit > 0 /\ Named \subseteq Items
<1>1. L!ListsAssumption  BY PagesAssumption
<1>2. /\ L!IsFiniteSet(Items) /\ Items = 1..L!Cardinality(Items)
      /\ Named \subseteq Items /\ Limit \in Nat \ {0}
  BY <1>1 DEF L!ListsAssumption
<1>3. IsFiniteSet(Items) /\ Items = 1..Cardinality(Items)  BY <1>2, ListCounts
<1>4. Cardinality(Items) \in Nat  BY <1>3, FS_CardinalityType
<1>5. QED  BY <1>2, <1>3, <1>4

LEMMA MatchCounts ==
  ASSUME NEW table, NEW s
  PROVE  Match(table, s) \subseteq Items /\ IsFiniteSet(Match(table, s)) /\ Total(table, s) \in Nat
<1>1. Match(table, s) \subseteq Items  BY DEF Match
<1>2. IsFiniteSet(Match(table, s))  BY <1>1, ListConstants, FS_Subset
<1>3. QED  BY <1>1, <1>2, FS_CardinalityType DEF Total

\* Rows that come make no list shorter.
LEMMA TotalGrows ==
  ASSUME NEW table, NEW later, NEW s, \A i \in Items : table[i] # "none" => later[i] = table[i]
  PROVE  Total(table, s) <= Total(later, s)
<1>1. Match(table, s) \subseteq Match(later, s)  BY DEF Match
<1>2. QED  BY <1>1, MatchCounts, FS_Subset DEF Total

\* A page that is not past the end has rows: how many of the list come before a row tells all of
\* its rows apart, hence takes every value below their number.
LEMMA PagesFill ==
  ASSUME NEW all \in SUBSET Items, NEW at \in Nat \ {0}, (at - 1) * Limit < Cardinality(all)
  PROVE  L!PageOf(all, at) # {}
<1> DEFINE before(i) == {j \in all : j > i}
           rank(i) == Cardinality(before(i))
           n == Cardinality(all)
           range == 0..(n - 1)
           f == [i \in all |-> rank(i)]
           m == (at - 1) * Limit
<1>1. IsFiniteSet(all) /\ n \in Nat /\ all \subseteq Nat
  BY ListConstants, FS_Subset, FS_CardinalityType
<1>2. m \in Nat /\ m < at * Limit /\ m < n
  <2>1. PICK p \in Nat : at = p + 1
    <3>1. at - 1 \in Nat /\ at = (at - 1) + 1  OBVIOUS
    <3>2. QED  BY <3>1
  <2>2. Limit \in Nat /\ Limit > 0  BY ListConstants
  <2>3. at - 1 = p  BY <2>1
  <2>4. p * Limit \in Nat  BY <2>1, <2>2
  <2>5. at * Limit = p * Limit + Limit  BY <2>1, <2>2
  <2>6. QED  BY <2>2, <2>3, <2>4, <2>5
<1>3. ASSUME NEW i \in all PROVE IsFiniteSet(before(i)) /\ rank(i) \in range
  <2>1. before(i) \subseteq all \ {i}  BY <1>1
  <2>2. IsFiniteSet(all \ {i}) /\ Cardinality(all \ {i}) = n - 1  BY <1>1, FS_RemoveElement
  <2>3. IsFiniteSet(before(i)) /\ rank(i) <= n - 1  BY <2>1, <2>2, FS_Subset
  <2>4. rank(i) \in Nat  BY <2>3, FS_CardinalityType
  <2>5. QED  BY <1>1, <2>3, <2>4
<1>4. ASSUME NEW i \in all, NEW k \in all, i < k PROVE rank(k) < rank(i)
  <2>1. before(k) \cup {k} \subseteq before(i)
    <3>1. ASSUME NEW j \in all, j > k \/ j = k PROVE j > i
      <4>1. i \in Nat /\ j \in Nat /\ k \in Nat  BY <1>1
      <4>2. QED  BY <1>4, <3>1, <4>1
    <3>2. QED  BY <3>1
  <2>2. k \notin before(k)  BY <1>1
  <2>3. Cardinality(before(k) \cup {k}) = rank(k) + 1  BY <1>3, <2>2, FS_AddElement
  <2>4. Cardinality(before(k) \cup {k}) <= rank(i)  BY <1>3, <2>1, FS_Subset
  <2>5. rank(k) \in Nat /\ rank(i) \in Nat  BY <1>1, <1>3
  <2>6. QED  BY <2>3, <2>4, <2>5
<1>5. f \in Injection(all, range)
  <2>1. f \in [all -> range]  BY <1>3
  <2>2. ASSUME NEW i \in all, NEW k \in all, i # k PROVE f[i] # f[k]
    <3>1. rank(i) \in Nat /\ rank(k) \in Nat  BY <1>1, <1>3
    <3>2. CASE i < k
      <4>1. rank(k) < rank(i)  BY <1>4, <3>2
      <4>2. QED  BY <3>1, <4>1
    <3>3. CASE k < i
      <4>1. rank(i) < rank(k)  BY <1>4, <3>3
      <4>2. QED  BY <3>1, <4>1
    <3>4. QED  BY <1>1, <2>2, <3>2, <3>3
  <2>3. QED  BY <2>1, <2>2 DEF Injection, IsInjective
<1>6. IsFiniteSet(range) /\ Cardinality(range) = n
  <2>1. 0 \in Int /\ n - 1 \in Int /\ n # 0  BY <1>1, <1>2
  <2>2. QED  BY <1>1, <2>1, FS_Interval
<1>7. f \in Surjection(all, range)
  <2> HIDE DEF f, range, n
  <2>1. Cardinality(all) = Cardinality(range)  BY <1>6 DEF n
  <2>2. QED  BY <1>5, <1>6, <2>1, FS_Injection
<1>8. PICK i \in all : rank(i) = m
  <2>1. m \in range  BY <1>1, <1>2
  <2>2. \E i \in all : f[i] = m  BY <1>7, <2>1 DEF Surjection
  <2>3. QED  BY <2>2
<1>9. L!Cardinality({j \in all : j > i}) = m  BY <1>8, ListCounts
<1> HIDE DEF m
<1>10. i \in L!PageOf(all, at)
  <2>1. m <= m /\ m < at * Limit  BY <1>2
  <2>2. QED  BY <1>9, <2>1 DEF L!PageOf, m
<1>11. QED  BY <1>10

LEMMA ListTypes ==
  ASSUME ListInv
  PROVE  /\ kind \in L!Kinds /\ rows \in [Items -> {"none", "other", "tab"}]
         /\ typed \in {"all", "some"} /\ timer \in BOOLEAN
         /\ sel \in L!Selections /\ sel.tab \in {"all", "some"} /\ sel.search \in {"all", "some"}
         /\ sel.at \in Nat /\ sel.at > 0
         /\ fresh \subseteq L!Selections /\ failed \subseteq L!Selections
         /\ asked \in Items \cup {0} /\ listSent \subseteq Items /\ carried \subseteq Items
BY DEF ListInv, KeyInv, L!TypeOK, L!Selections, L!Wide

LEMMA ReachesMore ==
  ASSUME NEW s \in L!Selections, NEW a \in Nat, NEW b \in Nat, a <= b, Reaches(s, a)
  PROVE  Reaches(s, b)
<1>1. s.at \in Nat /\ s.at > 0  BY DEF L!Selections
<1>2. PICK p \in Nat : s.at = p + 1
  <2>1. s.at - 1 \in Nat /\ s.at = (s.at - 1) + 1  BY <1>1
  <2>2. QED  BY <2>1
<1>3. Limit \in Nat  BY ListConstants
<1>4. (s.at - 1) * Limit = p * Limit /\ p * Limit \in Nat  BY <1>2, <1>3
<1>5. QED  BY <1>4 DEF Reaches

\* What the server answers.
LEMMA ListedAnswers ==
  ASSUME NEW s \in L!Selections, NEW d \in L!Listings(s)
  PROVE  /\ d \in Answers /\ d.of = s /\ d.total = Total(rows, s)
         /\ d.ids \subseteq Match(rows, s)
<1> DEFINE all == Match(rows, s)
           first == L!PageOf(all, s.at)
<1>1. L!Matching(s) = all  BY DEF L!Matching, Match
<1>2. PICK p \in L!PagesOf(all, s.at) : d = [of |-> s, ids |-> p, total |-> Total(rows, s)]
  BY <1>1, ListCounts DEF L!Listings, Total
<1>3. all \subseteq Items /\ IsFiniteSet(all) /\ Total(rows, s) \in Nat  BY MatchCounts
<1>4. first \subseteq all  BY DEF L!PageOf
<1>5. p \subseteq all /\ Cardinality(p) = Cardinality(first)
  <2>1. CASE kind = "articles"
    <3>1. p \in SUBSET all /\ L!Cardinality(p) = L!Cardinality(first)  BY <2>1 DEF L!PagesOf
    <3>2. QED  BY <3>1, ListCounts
  <2>2. CASE kind # "articles"
    <3>1. p = first  BY <2>2 DEF L!PagesOf
    <3>2. QED  BY <1>4, <3>1
  <2>3. QED  BY <2>1, <2>2
<1>6. s.at \in Nat \ {0}  BY DEF L!Selections
<1>7. p = {} => Total(rows, s) <= (s.at - 1) * Limit
  <2>1. ~((s.at - 1) * Limit < Cardinality(all)) => Total(rows, s) <= (s.at - 1) * Limit
    <3>1. (s.at - 1) * Limit \in Int  BY <1>6, ListConstants
    <3>2. QED  BY <1>3, <3>1 DEF Total
  <2>2. first # {} \/ ~((s.at - 1) * Limit < Cardinality(all))  BY <1>3, <1>6, PagesFill
  <2>3. p = {} => first = {}
    <3>1. IsFiniteSet(first) /\ Cardinality({}) = 0  BY <1>3, <1>4, FS_Subset, FS_EmptySet
    <3>2. QED  BY <1>5, <3>1, FS_EmptySet
  <2>4. QED  BY <2>1, <2>2, <2>3
<1> HIDE DEF all, first
<1>8. QED  BY <1>2, <1>3, <1>5, <1>7 DEF Answers, all

\* A request for a list.
LEMMA FetchIs ==
  ASSUME NEW s \in L!Selections
  PROVE  /\ L!Fetch(s) \in ListFlights /\ L!Fetch(s).key = s /\ L!Fetch(s).of = s /\ ~L!Fetch(s).read
<1>1. L!Nothing \in Answers
  <2>1. L!Nothing.total <= (L!Nothing.of.at - 1) * Limit
    <3>1. L!Nothing.total = 0 /\ L!Nothing.of.at = 1  BY DEF L!Nothing
    <3>2. (1 - 1) * Limit = 0  BY ListConstants
    <3>3. QED  BY <3>1, <3>2
  <2>2. QED  BY <2>1 DEF L!Nothing, Answers, L!Selections, L!Wide
<1>2. L!Fetch(s) = [key |-> s, of |-> s, read |-> FALSE, got |-> L!Nothing]
  BY DEF L!Fetch, L!Key
<1>3. QED  BY <1>1, <1>2 DEF ListFlights

LEMMA HeldIs ==
  ASSUME NEW s, CachedAt(s)
  PROVE  \E c \in cache : c.key = s /\ L!Held(s) = c.data
<1>1. (CHOOSE c \in cache : c.key = s) \in cache /\ (CHOOSE c \in cache : c.key = s).key = s
  BY DEF CachedAt
<1>2. QED  BY <1>1 DEF L!Held

\* Nothing but the fields, the dialog and the requests of the page; answers may have got old.
LEMMA IdleShape ==
  ASSUME ListInv, typed' \in L!Wide, timer' \in BOOLEAN, kind = "review" => ~timer',
         fresh' \subseteq fresh, asked' \in Items \cup {0}, listSent' \subseteq Items,
         carried' = carried,
         kind = "media" => \A i \in listSent' : rows[i] = "none",
         UNCHANGED <<kind, rows, sel, cache, failed, flights, last, done, overtaken, moved>>
  PROVE  ListInv'
<1>1. L!TypeOK'  BY DEF ListInv, L!TypeOK
<1>2. KeyInv'  BY DEF ListInv, KeyInv, CachedAt, FlownTo
<1>3. DoneInv'  BY DEF ListInv, DoneInv, Old, FlownTo
<1>4. GrowInv'  BY DEF ListInv, GrowInv
<1>5. QED  BY <1>1, <1>2, <1>3, <1>4 DEF ListInv

\* Another list is chosen.
LEMMA SelectShape ==
  ASSUME ListInv, NEW s \in L!Selections, L!Select(s), kind # "review",
         typed' \in L!Wide, timer' \in BOOLEAN,
         ~moved' => ~moved /\ Reaches(s, Total(rows, s))
  PROVE  ListInv'
<1>1. /\ sel' = s
      /\ last' = IF CachedAt(sel) THEN [none |-> FALSE, data |-> L!Held(sel)] ELSE last
      /\ IF s = sel \/ s \in fresh \/ FlownTo(s)
         THEN UNCHANGED <<flights, failed, overtaken>>
         ELSE /\ flights' = flights \cup {L!Fetch(s)}
              /\ failed' = failed \ {s} /\ overtaken' = overtaken \ {s}
      /\ UNCHANGED <<kind, rows, cache, fresh, asked, listSent, carried, done>>
  BY DEF L!Select, L!Key, L!Cached, CachedAt, FlownTo
<1>2. PICK n : n = L!Fetch(s)  OBVIOUS
<1>3. n \in ListFlights /\ n.key = s /\ n.of = s /\ ~n.read  BY <1>2, FetchIs
<1>4. /\ flights \subseteq flights' /\ flights' \subseteq flights \cup {n} /\ failed' \subseteq failed
      /\ \/ s = sel /\ failed' = failed
         \/ s \in fresh
         \/ FlownTo(s)'
      /\ n \in flights' => n \in flights \/ ~FlownTo(s)
      /\ \/ overtaken' = overtaken
         \/ overtaken' = overtaken \ {s} /\ s \notin fresh /\ ~FlownTo(s)
      /\ s = sel /\ failed' = failed => overtaken' = overtaken \/ FlownTo(s)'
  BY <1>1, <1>2, <1>3 DEF FlownTo
<1>5. /\ last' \in [none : BOOLEAN, data : Answers]
      /\ ~moved => last'.data.total <= Total(rows, last'.data.of)
  <2>1. CASE CachedAt(sel)
    <3>1. PICK c \in cache : c.key = sel /\ L!Held(sel) = c.data  BY <2>1, HeldIs
    <3>2. last' = [none |-> FALSE, data |-> c.data]  BY <1>1, <2>1, <3>1
    <3>3. c.data \in Answers /\ c.data.of = c.key  BY DEF ListInv, KeyInv
    <3>4. ~moved => c.data.total <= Total(rows, c.key)  BY DEF ListInv, GrowInv
    <3>5. QED  BY <3>2, <3>3, <3>4
  <2>2. CASE ~CachedAt(sel)
    BY <1>1, <2>2 DEF ListInv, KeyInv, GrowInv
  <2>3. QED  BY <2>1, <2>2
<1>6. L!TypeOK'
  <2>1. \A f, g \in flights' : f.key = g.key => f = g
    <3>1. \A f, g \in flights : f.key = g.key => f = g  BY DEF ListInv, L!TypeOK
    <3>2. QED  BY <1>3, <1>4, <3>1 DEF FlownTo
  <2>2. QED  BY <1>1, <1>4, <2>1 DEF ListInv, L!TypeOK
<1>7. KeyInv'
  <2>1. \A x : CachedAt(x)' <=> CachedAt(x)  BY <1>1 DEF CachedAt
  <2>2. CachedAt(sel)' \/ sel' \in failed' \/ FlownTo(sel)'
    <3>1. CASE s = sel /\ failed' = failed
      BY <1>1, <1>4, <2>1, <3>1 DEF ListInv, KeyInv, FlownTo, CachedAt
    <3>2. CASE s \in fresh
      <4>1. CachedAt(s)  BY <3>2 DEF ListInv, KeyInv
      <4>2. QED  BY <1>1, <4>1 DEF CachedAt
    <3>3. CASE FlownTo(s)'  BY <1>1, <3>3 DEF FlownTo
    <3>4. QED  BY <1>4, <3>1, <3>2, <3>3
  <2>3. flights' \subseteq ListFlights /\ \A f \in flights' : f.key = f.of /\ (f.read => f.got.of = f.of)
    BY <1>3, <1>4 DEF ListInv, KeyInv
  <2>4. \A x \in fresh' : CachedAt(x)'  BY <1>1, <2>1 DEF ListInv, KeyInv
  <2>5. QED  BY <1>1, <1>5, <2>2, <2>3, <2>4 DEF ListInv, KeyInv
<1>8. DoneInv'
  <2>1. \A x : Old(x)' <=> Old(x)  BY <1>1 DEF Old
  <2>2. Old(sel)' => sel' \in overtaken' \/ sel' \in failed' \/ FlownTo(sel)'
    <3>1. CASE s = sel /\ failed' = failed
      <4>1. FlownTo(s) => FlownTo(s)'  BY <1>4 DEF FlownTo
      <4>2. Old(sel)' => Old(sel)  BY <1>1, <3>1 DEF Old
      <4>3. FlownTo(sel)' <=> FlownTo(s)'  BY <1>1 DEF FlownTo
      <4>4. Old(s) => s \in overtaken \/ s \in failed \/ FlownTo(s)  BY <3>1 DEF ListInv, DoneInv
      <4>5. QED  BY <1>1, <1>4, <3>1, <4>1, <4>2, <4>3, <4>4
    <3>2. CASE s \in fresh
      BY <1>1, <3>2 DEF ListInv, DoneInv, Old
    <3>3. CASE FlownTo(s)'  BY <1>1, <3>3 DEF FlownTo
    <3>4. QED  BY <1>4, <3>1, <3>2, <3>3
  <2>3. \A f \in flights' : f.read /\ f.got.ids \cap done # {} => f.key \in overtaken'
    <3>1. ASSUME NEW f \in flights', f.read, f.got.ids \cap done # {} PROVE f.key \in overtaken'
      <4>1. f \in flights /\ f.key \in overtaken  BY <1>3, <1>4, <3>1 DEF ListInv, DoneInv
      <4>2. f.key = s => FlownTo(s)  BY <4>1 DEF FlownTo
      <4>3. QED  BY <1>4, <4>1, <4>2
    <3>2. QED  BY <3>1
  <2>4. \A x \in fresh' : Old(x)' => x \in overtaken'
    BY <1>1, <1>4, <2>1 DEF ListInv, DoneInv
  <2>5. QED  BY <1>1, <2>2, <2>3, <2>4 DEF ListInv, DoneInv
<1>9. GrowInv'
  <2>1. ASSUME ~moved'
        PROVE  /\ Reaches(s, Total(rows, s))
               /\ \A f \in flights' : Reaches(f.of, Total(rows, f.of))
               /\ \A f \in flights' : f.read => Reaches(f.of, f.got.total) /\ f.got.total <= Total(rows, f.of)
               /\ last'.data.total <= Total(rows, last'.data.of)
    BY <1>3, <1>4, <1>5, <2>1 DEF ListInv, GrowInv
  <2>2. ~moved' => \A c \in cache : Reaches(c.key, c.data.total) /\ c.data.total <= Total(rows, c.key)
    BY DEF ListInv, GrowInv
  <2>3. QED  BY <1>1, <2>1, <2>2 DEF ListInv, GrowInv
<1>10. QED  BY <1>6, <1>7, <1>8, <1>9 DEF ListInv

LEMMA ListTabStep ==
  ASSUME ListInv, NEW w \in L!Wide, L!Tab(w)
  PROVE  ListInv'
<1> DEFINE s == [sel EXCEPT !.tab = w, !.at = 1]
<1>1. s \in L!Selections /\ s.at = 1
  <2>1. sel \in L!Selections /\ w \in L!Wide /\ 1 \in Nat \ {0}  BY ListTypes
  <2>2. QED  BY <2>1 DEF L!Selections
<1>2. /\ kind # "review" /\ L!Select(s) /\ typed' = typed /\ timer' = timer /\ moved' = moved
  BY DEF L!Tab
<1>3. typed' \in L!Wide /\ timer' \in BOOLEAN  BY <1>2, ListTypes DEF L!Wide
<1> HIDE DEF s
<1>4. Reaches(s, Total(rows, s))  BY <1>1 DEF Reaches
<1>5. ~moved' => ~moved /\ Reaches(s, Total(rows, s))  BY <1>2, <1>4
<1>6. QED  BY <1>1, <1>2, <1>3, <1>5, SelectShape

LEMMA ListTypeStep ==
  ASSUME ListInv, NEW w \in L!Wide, L!Type(w)
  PROVE  ListInv'
<1>1. kind \in {"users", "subscribers", "articles", "media", "review"}  BY ListTypes DEF L!Kinds
<1>2. typed' = w /\ moved' = moved  BY DEF L!Type
<1>3. CASE kind = "articles"
  <2> DEFINE s == [sel EXCEPT !.search = w, !.at = 1]
  <2>1. s \in L!Selections /\ s.at = 1
    <3>1. sel \in L!Selections /\ w \in L!Wide /\ 1 \in Nat \ {0}  BY ListTypes
    <3>2. QED  BY <3>1 DEF L!Selections
  <2>2. L!Select(s) /\ timer' = timer  BY <1>3 DEF L!Type
  <2> HIDE DEF s
  <2>3. Reaches(s, Total(rows, s))  BY <2>1 DEF Reaches
  <2>4. ~moved' => ~moved /\ Reaches(s, Total(rows, s))  BY <1>2, <2>3
  <2>5. typed' \in L!Wide /\ timer' \in BOOLEAN /\ kind # "review"  BY <1>2, <1>3, <2>2, ListTypes
  <2>6. QED  BY <2>1, <2>2, <2>4, <2>5, SelectShape
<1>4. CASE kind \in {"users", "subscribers"}
  <2>1. /\ timer' = TRUE
        /\ UNCHANGED <<kind, rows, sel, cache, fresh, failed, flights, last, asked, listSent, carried, done,
                       overtaken>>
    BY <1>4 DEF L!Type
  <2>2. /\ kind # "review" /\ kind # "media" /\ typed' \in L!Wide
        /\ asked' \in Items \cup {0} /\ listSent' \subseteq Items
    BY <1>2, <1>4, <2>1, ListTypes
  <2>3. QED  BY <1>2, <2>1, <2>2, IdleShape
<1>5. CASE kind \in {"media", "review"}  BY <1>5 DEF L!Type
<1>6. QED  BY <1>1, <1>3, <1>4, <1>5

LEMMA ListDebounceStep ==
  ASSUME ListInv, L!Debounce
  PROVE  ListInv'
<1> DEFINE s == [sel EXCEPT !.search = typed, !.at = 1]
<1>1. s \in L!Selections /\ s.at = 1
  <2>1. sel \in L!Selections /\ typed \in L!Wide /\ 1 \in Nat \ {0}  BY ListTypes DEF L!Wide
  <2>2. QED  BY <2>1 DEF L!Selections
<1>2. timer /\ timer' = FALSE /\ L!Select(s) /\ typed' = typed /\ moved' = moved
  BY DEF L!Debounce
<1>3. kind # "review"  BY <1>2 DEF ListInv, DoneInv
<1> HIDE DEF s
<1>4. Reaches(s, Total(rows, s))  BY <1>1 DEF Reaches
<1>5. ~moved' => ~moved /\ Reaches(s, Total(rows, s))  BY <1>2, <1>4
<1>6. typed' \in L!Wide /\ timer' \in BOOLEAN  BY <1>2, ListTypes DEF L!Wide
<1>7. QED  BY <1>1, <1>2, <1>3, <1>5, <1>6, SelectShape

LEMMA Divided ==
  ASSUME NEW a \in Nat, NEW n \in Nat, n > 0
  PROVE  a \div n \in Nat /\ (a \div n) * n <= a
<1>1. a \div n \in Nat  OBVIOUS
<1>2. (a \div n) * n <= a  OBVIOUS
<1>3. QED  BY <1>1, <1>2

\* A page that is followed by another is full.
LEMMA PagesBefore ==
  ASSUME NEW total \in Nat, NEW at \in Nat, at < L!Pages(total)
  PROVE  at * Limit < total
<1>1. Limit \in Nat /\ Limit > 0  BY ListConstants
<1>2. PICK n \in Nat : n = Limit /\ n > 0  BY <1>1
<1> DEFINE a == total + n - 1
           q == a \div n
<1>3. a \in Nat  BY <1>2
<1>4. q \in Nat /\ q * n <= a  BY <1>2, <1>3, Divided
<1>5. L!Pages(total) = q  BY <1>2 DEF L!Pages
<1> HIDE DEF q
<1>6. PICK d \in Nat : q = at + 1 + d
  <2>1. q - at - 1 \in Nat /\ q = at + 1 + (q - at - 1)  BY <1>4, <1>5
  <2>2. QED  BY <2>1
<1>7. (at + 1 + d) * n = at * n + n + d * n /\ at * n \in Nat /\ d * n \in Nat  BY <1>2
<1>8. at * n < total  BY <1>2, <1>4, <1>6, <1>7
<1>9. QED  BY <1>2, <1>8

\* What is shown is no longer than the list was ever since.
LEMMA ShownIsNoMore ==
  ASSUME ListInv, ~moved, L!Shown.of = sel
  PROVE  L!Shown.total \in Nat /\ L!Shown.total <= Total(rows, sel)
<1>1. Total(rows, sel) \in Nat  BY MatchCounts
<1>2. L!Shown = IF CachedAt(sel) THEN L!Held(sel) ELSE IF sel \in failed THEN L!Nothing ELSE last.data
  BY DEF L!Shown, L!Cached, CachedAt, L!Key
<1>3. CASE CachedAt(sel)
  <2>1. PICK c \in cache : c.key = sel /\ L!Held(sel) = c.data  BY <1>3, HeldIs
  <2>2. c.data.total \in Nat /\ c.data.total <= Total(rows, c.key)
    BY DEF ListInv, KeyInv, GrowInv, Answers
  <2>3. QED  BY <1>2, <1>3, <2>1, <2>2
<1>4. CASE ~CachedAt(sel) /\ sel \in failed
  <2>1. L!Shown.total = 0  BY <1>2, <1>4 DEF L!Nothing
  <2>2. QED  BY <1>1, <2>1
<1>5. CASE ~CachedAt(sel) /\ sel \notin failed
  <2>1. L!Shown = last.data  BY <1>2, <1>5
  <2>2. last.data.total \in Nat /\ last.data.total <= Total(rows, last.data.of)
    BY DEF ListInv, KeyInv, GrowInv, Answers
  <2>3. QED  BY <2>1, <2>2
<1>6. QED  BY <1>3, <1>4, <1>5

LEMMA ListTurnStep ==
  ASSUME ListInv, NEW at \in Nat \ {0}, L!Turn(at)
  PROVE  ListInv'
<1> DEFINE s == [sel EXCEPT !.at = at]
<1>1. s \in L!Selections /\ s.at = at /\ s.tab = sel.tab /\ s.search = sel.search
  BY ListTypes DEF L!Selections
<1>2. /\ kind # "review" /\ L!Select(s) /\ typed' = typed /\ timer' = timer
      /\ at \in {sel.at - 1, sel.at + 1}
      /\ at > sel.at => sel.at < L!Pages(L!Shown.total)
      /\ moved' = (moved \/ L!Shown.of # sel)
  BY DEF L!Turn
<1> HIDE DEF s
<1>3. Total(rows, s) = Total(rows, sel)  BY <1>1 DEF Total, Match
<1>4. ASSUME ~moved, L!Shown.of = sel PROVE Reaches(s, Total(rows, s))
  <2>1. L!Shown.total \in Nat /\ L!Shown.total <= Total(rows, sel)  BY <1>4, ShownIsNoMore
  <2>2. Total(rows, sel) \in Nat  BY MatchCounts
  <2>3. sel.at \in Nat /\ sel.at > 0 /\ Limit \in Nat /\ Limit > 0  BY ListTypes, ListConstants
  <2>4. CASE at = sel.at + 1
    <3>1. sel.at < L!Pages(L!Shown.total)  BY <1>2, <2>3, <2>4
    <3>2. sel.at * Limit < L!Shown.total  BY <2>1, <2>3, <3>1, PagesBefore
    <3>3. s.at - 1 = sel.at  BY <1>1, <2>3, <2>4
    <3>4. sel.at * Limit \in Nat  BY <2>3
    <3>5. sel.at * Limit < Total(rows, sel)  BY <2>1, <2>2, <3>2, <3>4
    <3>6. QED  BY <1>3, <3>3, <3>5 DEF Reaches
  <2>5. CASE at = sel.at - 1
    <3>1. PICK p \in Nat : sel.at = p + 2
      <4>1. sel.at - 2 \in Nat /\ sel.at = (sel.at - 2) + 2  BY <2>3, <2>5
      <4>2. QED  BY <4>1
    <3>2. Reaches(sel, Total(rows, sel))  BY <1>4 DEF ListInv, GrowInv
    <3>3. sel.at - 1 = p + 1 /\ s.at - 1 = p /\ sel.at # 1  BY <1>1, <2>5, <3>1
    <3>4. (p + 1) * Limit < Total(rows, sel)  BY <3>2, <3>3 DEF Reaches
    <3>5. (p + 1) * Limit = p * Limit + Limit /\ p * Limit \in Nat  BY <2>3
    <3>6. p * Limit < Total(rows, sel)  BY <2>2, <2>3, <3>4, <3>5
    <3>7. QED  BY <1>3, <3>3, <3>6 DEF Reaches
  <2>6. QED  BY <1>2, <2>4, <2>5
<1>5. ~moved' => ~moved /\ Reaches(s, Total(rows, s))  BY <1>2, <1>4
<1>6. typed' \in L!Wide /\ timer' \in BOOLEAN  BY <1>2, ListTypes DEF L!Wide
<1>7. QED  BY <1>1, <1>2, <1>5, <1>6, SelectShape

LEMMA ListReadStep ==
  ASSUME ListInv, NEW f \in flights, L!Read(f)
  PROVE  ListInv'
<1>1. /\ ~f.read
      /\ UNCHANGED <<kind, rows, typed, timer, sel, cache, fresh, failed, last, asked, listSent,
                     carried, done, overtaken, moved>>
  BY DEF L!Read
<1>2. f \in ListFlights /\ f.key = f.of /\ f.of \in L!Selections
  BY DEF ListInv, KeyInv, ListFlights
<1>3. PICK d \in Answers : /\ d.of = f.of /\ d.total = Total(rows, f.of)
                           /\ d.ids \subseteq Match(rows, f.of)
                           /\ flights' = (flights \ {f}) \cup {[f EXCEPT !.read = TRUE, !.got = d]}
  <2>1. PICK d \in L!Listings(f.of) :
            flights' = (flights \ {f}) \cup {[f EXCEPT !.read = TRUE, !.got = d]}
    BY DEF L!Read
  <2>2. QED  BY <1>2, <2>1, ListedAnswers
<1>4. PICK g \in ListFlights : /\ g.key = f.key /\ g.of = f.of /\ g.read /\ g.got = d
                               /\ flights' = (flights \ {f}) \cup {g}
  <2>1. PICK g : g = [f EXCEPT !.read = TRUE, !.got = d]  OBVIOUS
  <2>2. g \in ListFlights /\ g.key = f.key /\ g.of = f.of /\ g.read = TRUE /\ g.got = d
    BY <1>2, <2>1 DEF ListFlights
  <2>3. flights' = (flights \ {f}) \cup {g}  BY <1>3, <2>1
  <2>4. QED  BY <2>2, <2>3
<1>5. \A x : (CachedAt(x)' <=> CachedAt(x)) /\ (Old(x)' <=> Old(x))  BY <1>1 DEF CachedAt, Old
<1>6. \A x : FlownTo(x) => FlownTo(x)'  BY <1>4 DEF FlownTo
<1>7. L!TypeOK'
  <2>1. \A a, b \in flights' : a.key = b.key => a = b
    <3>1. \A a, b \in flights : a.key = b.key => a = b  BY DEF ListInv, L!TypeOK
    <3>2. QED  BY <1>4, <3>1
  <2>2. QED  BY <1>1, <2>1 DEF ListInv, L!TypeOK
<1>8. KeyInv'
  <2>1. flights' \subseteq ListFlights /\ \A h \in flights' : h.key = h.of /\ (h.read => h.got.of = h.of)
    BY <1>2, <1>3, <1>4 DEF ListInv, KeyInv
  <2>2. QED  BY <1>1, <1>5, <1>6, <2>1 DEF ListInv, KeyInv
<1>9. d.ids \cap done = {}
  <2>1. ASSUME NEW i \in d.ids, i \in done PROVE FALSE
    <3>1. rows[i] # "none" /\ (f.of.tab = "some" => rows[i] = "tab")  BY <1>3, <2>1 DEF Match
    <3>2. kind = "review" => f.of.tab = "some"  BY DEF ListInv, DoneInv
    <3>3. rows[i] = "none" \/ (kind = "review" /\ rows[i] = "other")  BY <2>1 DEF ListInv, DoneInv
    <3>4. QED  BY <3>1, <3>2, <3>3
  <2>2. QED  BY <2>1
<1>10. DoneInv'
  <2>1. \A h \in flights' : h.read /\ h.got.ids \cap done # {} => h.key \in overtaken
    BY <1>4, <1>9 DEF ListInv, DoneInv
  <2>2. kind = "review" => \A h \in flights' : h.of.tab = "some"
    BY <1>4 DEF ListInv, DoneInv
  <2>3. QED  BY <1>1, <1>5, <1>6, <2>1, <2>2 DEF ListInv, DoneInv
<1>11. GrowInv'
  <2>1. ASSUME ~moved
        PROVE  /\ \A h \in flights' : Reaches(h.of, Total(rows, h.of))
               /\ \A h \in flights' : h.read => Reaches(h.of, h.got.total) /\ h.got.total <= Total(rows, h.of)
    <3>1. Total(rows, f.of) <= Total(rows, f.of)  BY MatchCounts
    <3>2. QED  BY <1>3, <1>4, <2>1, <3>1 DEF ListInv, GrowInv
  <2>2. QED  BY <1>1, <2>1 DEF ListInv, GrowInv
<1>12. QED  BY <1>7, <1>8, <1>10, <1>11 DEF ListInv

LEMMA ListArriveStep ==
  ASSUME ListInv, NEW f \in flights, L!Arrive(f)
  PROVE  ListInv'
<1>1. /\ f.read /\ flights' = flights \ {f} /\ fresh' = fresh \cup {f.key}
      /\ cache' = {c \in cache : c.key # f.key} \cup {[key |-> f.key, data |-> f.got]}
      /\ UNCHANGED <<kind, rows, typed, timer, sel, failed, last, asked, listSent, carried, done,
                     overtaken, moved>>
  BY DEF L!Arrive
<1>2. /\ f.key \in L!Selections /\ f.got \in Answers /\ f.key = f.of /\ f.got.of = f.key
  BY <1>1 DEF ListInv, KeyInv, ListFlights
<1>3. PICK n \in [key : L!Selections, data : Answers] :
          /\ n.key = f.key /\ n.data = f.got
          /\ cache' = {c \in cache : c.key # f.key} \cup {n}
  BY <1>1, <1>2
<1>4. \A x : CachedAt(x) \/ x = f.key => CachedAt(x)'  BY <1>3 DEF CachedAt
<1>5. \A x : FlownTo(x) => x = f.key \/ FlownTo(x)'  BY <1>1 DEF FlownTo
<1>6. \A x : Old(x)' => IF x = f.key THEN f.got.ids \cap done # {} ELSE Old(x)
  BY <1>1, <1>3 DEF Old
<1>7. f.got.ids \cap done # {} => f.key \in overtaken  BY <1>1 DEF ListInv, DoneInv
<1>8. L!TypeOK'
  <2>1. n.data.ids \subseteq Items  BY <1>3 DEF Answers
  <2>2. fresh' \cup failed' \subseteq L!Selections  BY <1>1, <1>2 DEF ListInv, L!TypeOK
  <2>3. \A c \in cache' : c.key \in L!Selections /\ c.data.ids \subseteq Items
    BY <1>3, <2>1 DEF ListInv, L!TypeOK
  <2>4. QED  BY <1>1, <2>2, <2>3 DEF ListInv, L!TypeOK
<1>9. KeyInv'
  <2>1. cache' \subseteq [key : L!Selections, data : Answers] /\ \A c \in cache' : c.data.of = c.key
    BY <1>2, <1>3 DEF ListInv, KeyInv
  <2>2. \A x \in fresh' : CachedAt(x)'  BY <1>1, <1>4 DEF ListInv, KeyInv
  <2>3. CachedAt(sel)' \/ sel' \in failed' \/ FlownTo(sel)'
    <3>1. CachedAt(sel) \/ sel \in failed \/ FlownTo(sel)  BY DEF ListInv, KeyInv
    <3>2. CachedAt(sel)' \/ sel \in failed \/ FlownTo(sel)'
      <4>1. CASE CachedAt(sel) \/ sel = f.key
        <5>1. \E c \in cache' : c.key = sel  BY <1>3, <4>1 DEF CachedAt
        <5>2. QED  BY <1>1, <5>1 DEF CachedAt
      <4>2. CASE FlownTo(sel) /\ sel # f.key
        <5>1. \E h \in flights' : h.key = sel  BY <1>1, <4>2 DEF FlownTo
        <5>2. QED  BY <1>1, <5>1 DEF FlownTo
      <4>3. QED  BY <3>1, <4>1, <4>2
    <3>3. QED  BY <1>1, <3>2
  <2>4. QED  BY <1>1, <2>1, <2>2, <2>3 DEF ListInv, KeyInv
<1>10. DoneInv'
  <2>1. \A x \in fresh' : Old(x)' => x \in overtaken
    BY <1>1, <1>6, <1>7 DEF ListInv, DoneInv
  <2>2. Old(sel)' => sel \in overtaken \/ sel \in failed \/ FlownTo(sel)'
    <3>1. CASE sel = f.key
      <4>1. Old(sel)' => f.got.ids \cap done # {}
        BY <1>1, <1>3, <3>1 DEF Old
      <4>2. QED  BY <1>7, <3>1, <4>1
    <3>2. CASE sel # f.key
      <4>1. Old(sel)' => Old(sel)  BY <1>1, <1>3, <3>2 DEF Old
      <4>2. FlownTo(sel) => FlownTo(sel)'  BY <1>1, <3>2 DEF FlownTo
      <4>3. QED  BY <4>1, <4>2 DEF ListInv, DoneInv
    <3>3. QED  BY <3>1, <3>2
  <2>3. QED  BY <1>1, <2>1, <2>2 DEF ListInv, DoneInv
<1>11. GrowInv'
  <2>1. ASSUME ~moved
        PROVE  \A c \in cache' : Reaches(c.key, c.data.total) /\ c.data.total <= Total(rows, c.key)
    BY <1>1, <1>2, <1>3, <2>1 DEF ListInv, GrowInv
  <2>2. QED  BY <1>1, <2>1 DEF ListInv, GrowInv
<1>12. QED  BY <1>8, <1>9, <1>10, <1>11 DEF ListInv

LEMMA ListLoseStep ==
  ASSUME ListInv, NEW f \in flights, L!Lose(f)
  PROVE  ListInv'
<1>1. /\ flights' = flights \ {f} /\ failed' = failed \cup {f.key}
      /\ UNCHANGED <<kind, rows, typed, timer, sel, cache, fresh, last, asked, listSent, carried, done,
                     overtaken, moved>>
  BY DEF L!Lose
<1>2. f.key \in L!Selections  BY DEF ListInv, KeyInv, ListFlights
<1>3. \A x : (CachedAt(x)' <=> CachedAt(x)) /\ (Old(x)' <=> Old(x))  BY <1>1 DEF CachedAt, Old
<1>4. FlownTo(sel) => sel' \in failed' \/ FlownTo(sel)'  BY <1>1 DEF FlownTo
<1>5. L!TypeOK'  BY <1>1, <1>2 DEF ListInv, L!TypeOK
<1>6. KeyInv'  BY <1>1, <1>3, <1>4 DEF ListInv, KeyInv, CachedAt
<1>7. DoneInv'  BY <1>1, <1>3, <1>4 DEF ListInv, DoneInv, Old
<1>8. GrowInv'  BY <1>1 DEF ListInv, GrowInv
<1>9. QED  BY <1>5, <1>6, <1>7, <1>8 DEF ListInv

\* While rows only come, what held of the lengths of lists still does.
LEMMA RowsShape ==
  ASSUME ListInv, \A i \in Items : rows[i] # "none" => rows'[i] = rows[i],
         NEW s \in L!Selections
  PROVE  /\ Total(rows, s) \in Nat /\ Total(rows', s) \in Nat /\ Total(rows, s) <= Total(rows', s)
         /\ Reaches(s, Total(rows, s)) => Reaches(s, Total(rows', s))
<1>1. PICK later : later = rows'  OBVIOUS
<1>2. Total(rows, s) <= Total(later, s)  BY <1>1, TotalGrows
<1>3. Total(rows, s) \in Nat /\ Total(later, s) \in Nat  BY MatchCounts
<1>4. Reaches(s, Total(rows, s)) => Reaches(s, Total(later, s))  BY <1>2, <1>3, ReachesMore
<1>5. QED  BY <1>1, <1>2, <1>3, <1>4

LEMMA ListPageStep ==
  ASSUME ListInv,
         \/ L!Age \/ L!Close \/ L!Upload
         \/ \E i \in Items : L!Ask(i) \/ L!Mutate(i) \/ L!Refuse(i)
  PROVE  ListInv'
<1>1. kind = "review" => ~timer  BY DEF ListInv, DoneInv
<1>2. kind = "media" => \A i \in listSent : rows[i] = "none"  BY DEF ListInv, GrowInv
<1>3. /\ UNCHANGED <<kind, rows, sel, cache, failed, flights, last, carried, done, overtaken, moved>>
      /\ typed' = typed /\ timer' = timer
  BY DEF L!Age, L!Close, L!Upload, L!Ask, L!Mutate, L!Refuse
<1>4. /\ typed' \in L!Wide /\ timer' \in BOOLEAN
  BY <1>3, ListTypes DEF L!Wide
<1>5. fresh' \subseteq fresh
  BY DEF L!Age, L!Close, L!Upload, L!Ask, L!Mutate, L!Refuse
<1>6. asked' \in Items \cup {0}
  BY ListTypes DEF L!Age, L!Close, L!Upload, L!Ask, L!Mutate, L!Refuse
<1>7. listSent' \subseteq Items /\ (kind = "media" => \A i \in listSent' : rows[i] = "none")
  <2>1. CASE L!Age \/ L!Close \/ \E i \in Items : L!Ask(i)
    BY <1>2, <2>1, ListTypes DEF L!Age, L!Close, L!Ask
  <2>2. CASE L!Upload
    BY <2>2 DEF L!Upload
  <2>3. ASSUME NEW i \in Items, L!Mutate(i)
        PROVE  listSent' \subseteq Items /\ (kind = "media" => \A k \in listSent' : rows[k] = "none")
    <3>1. kind # "media"  BY <2>3 DEF L!Mutate
    <3>2. listSent' = listSent \cup {i}  BY <2>3 DEF L!Mutate
    <3>3. QED  BY <3>1, <3>2, ListTypes
  <2>4. ASSUME NEW i \in Items, L!Refuse(i)
        PROVE  listSent' \subseteq Items /\ (kind = "media" => \A k \in listSent' : rows[k] = "none")
    BY <1>2, <2>4, ListTypes DEF L!Refuse
  <2>5. QED  BY <2>1, <2>2, <2>3, <2>4
<1>8. kind = "review" => ~timer'  BY <1>1, <1>3
<1>9. QED  BY <1>3, <1>4, <1>5, <1>6, <1>7, <1>8, IdleShape

LEMMA ListCarryStep ==
  ASSUME ListInv, NEW i \in Items, L!Carry(i)
  PROVE  ListInv'
<1>1. /\ i \in listSent /\ rows' = L!Carried(i) /\ listSent' = listSent \ {i}
      /\ carried' = carried \cup {i} /\ moved' = (moved \/ kind \in {"subscribers", "review"})
      /\ UNCHANGED <<kind, typed, timer, sel, cache, fresh, failed, flights, last, asked, done, overtaken>>
  BY DEF L!Carry
<1>2. kind \in {"users", "subscribers", "articles", "media", "review"}  BY ListTypes DEF L!Kinds
<1>3. /\ rows' \in [Items -> {"none", "other", "tab"}]
      /\ \A k \in Items \ {i} : rows'[k] = rows[k]
      /\ kind = "subscribers" => rows'[i] = "none"
      /\ kind = "review" => rows'[i] = "other"
      /\ kind = "media" => rows'[i] = "other"
      /\ kind \in {"users", "articles"} => rows' = rows
  <2>1. rows \in [Items -> {"none", "other", "tab"}]  BY ListTypes
  <2>2. CASE kind = "subscribers"  BY <1>1, <2>1, <2>2 DEF L!Carried
  <2>3. CASE kind \in {"review", "media"}  BY <1>1, <2>1, <2>3 DEF L!Carried
  <2>4. CASE kind \in {"users", "articles"}  BY <1>1, <2>1, <2>4 DEF L!Carried
  <2>5. QED  BY <1>2, <2>2, <2>3, <2>4
<1>4. L!TypeOK' /\ KeyInv'
  <2>1. listSent' \subseteq Items /\ carried' \subseteq Items  BY <1>1, ListTypes
  <2>2. L!TypeOK'  BY <1>1, <1>3, <2>1 DEF ListInv, L!TypeOK
  <2>3. KeyInv'  BY <1>1 DEF ListInv, KeyInv, CachedAt, FlownTo
  <2>4. QED  BY <2>2, <2>3
<1>5. DoneInv'
  <2>1. ASSUME NEW k \in done
        PROVE  \/ kind = "subscribers" /\ rows'[k] = "none"
               \/ kind = "review" /\ rows'[k] = "other"
    <3>1. k \in Items  BY DEF ListInv, DoneInv
    <3>2. \/ kind = "subscribers" /\ rows[k] = "none"
          \/ kind = "review" /\ rows[k] = "other"
      BY DEF ListInv, DoneInv
    <3>3. QED  BY <1>3, <3>1, <3>2
  <2>2. \A f \in flights : f.read /\ f.got.ids \cap done # {} => f.key \in overtaken
    BY DEF ListInv, DoneInv
  <2>3. (\A s : Old(s)' <=> Old(s)) /\ (FlownTo(sel)' <=> FlownTo(sel))  BY <1>1 DEF Old, FlownTo
  <2>4. (\A s \in fresh : Old(s) => s \in overtaken)
        /\ (Old(sel) => sel \in overtaken \/ sel \in failed \/ FlownTo(sel))
    BY DEF ListInv, DoneInv
  <2>5. Old(sel)' => Old(sel)  BY <1>1 DEF Old
  <2>6. QED  BY <1>1, <2>1, <2>2, <2>3, <2>4, <2>5 DEF ListInv, DoneInv
<1>6. GrowInv'
  <2>1. kind = "media" => \A k \in listSent' : rows'[k] = "none"
    BY <1>1, <1>3, ListTypes DEF ListInv, GrowInv
  <2>2. ASSUME ~moved'
        PROVE  ~moved /\ \A k \in Items : rows[k] # "none" => rows'[k] = rows[k]
    <3>1. ~moved /\ kind \in {"users", "articles", "media"}  BY <1>1, <1>2, <2>2
    <3>2. kind = "media" => rows[i] = "none"  BY <1>1 DEF ListInv, GrowInv
    <3>3. QED  BY <1>3, <3>1, <3>2
  <2>3. ASSUME ~moved'
        PROVE  /\ Reaches(sel, Total(rows', sel))
               /\ \A f \in flights : Reaches(f.of, Total(rows', f.of))
               /\ \A f \in flights : f.read => Reaches(f.of, f.got.total) /\ f.got.total <= Total(rows', f.of)
               /\ \A c \in cache : Reaches(c.key, c.data.total) /\ c.data.total <= Total(rows', c.key)
               /\ last.data.total <= Total(rows', last.data.of)
    <3>1. ~moved /\ \A k \in Items : rows[k] # "none" => rows'[k] = rows[k]  BY <2>2, <2>3
    <3>2. \A s \in L!Selections :
              /\ Total(rows, s) \in Nat /\ Total(rows', s) \in Nat /\ Total(rows, s) <= Total(rows', s)
              /\ Reaches(s, Total(rows, s)) => Reaches(s, Total(rows', s))
      BY <3>1, RowsShape
    <3>3. Reaches(sel, Total(rows', sel))  BY <3>1, <3>2, ListTypes DEF ListInv, GrowInv
    <3>4. \A f \in flights : /\ f.of \in L!Selections /\ f.got.total \in Nat
                             /\ Reaches(f.of, Total(rows, f.of))
                             /\ f.read => Reaches(f.of, f.got.total) /\ f.got.total <= Total(rows, f.of)
      BY <3>1 DEF ListInv, KeyInv, ListFlights, Answers, GrowInv
    <3>5. \A f \in flights : Reaches(f.of, Total(rows', f.of))
      BY <3>2, <3>4
    <3>6. \A f \in flights : f.read => Reaches(f.of, f.got.total) /\ f.got.total <= Total(rows', f.of)
      BY <3>2, <3>4
    <3>7. \A c \in cache : /\ c.key \in L!Selections /\ c.data.total \in Nat
                           /\ Reaches(c.key, c.data.total) /\ c.data.total <= Total(rows, c.key)
      BY <3>1 DEF ListInv, KeyInv, Answers, GrowInv
    <3>8. \A c \in cache : Reaches(c.key, c.data.total) /\ c.data.total <= Total(rows', c.key)
      BY <3>2, <3>7
    <3>9. last.data.of \in L!Selections /\ last.data.total \in Nat
          /\ last.data.total <= Total(rows, last.data.of)
      BY <3>1 DEF ListInv, KeyInv, Answers, GrowInv
    <3>10. last.data.total <= Total(rows', last.data.of)  BY <3>2, <3>9
    <3>11. QED  BY <3>3, <3>5, <3>6, <3>8, <3>10
  <2>4. QED  BY <1>1, <2>1, <2>3 DEF GrowInv
<1>7. QED  BY <1>4, <1>5, <1>6 DEF ListInv

\* The answer is heard: what is shown is fetched anew, or on its way for the first time.
LEMMA ListHearStep ==
  ASSUME ListInv, NEW i \in Items, L!Hear(i)
  PROVE  ListInv'
<1> DEFINE joined == {f \in flights : f.key # sel \/ ~CachedAt(sel)}
<1>1. /\ i \in carried /\ carried' = carried \ {i}
      /\ asked' = IF asked = i THEN 0 ELSE asked
      /\ done' = IF kind \in {"subscribers", "review"} /\ rows = L!Carried(i)
                 THEN done \cup {i} ELSE done
      /\ fresh' = {} /\ failed' = failed \ {sel}
      /\ flights' = IF \E f \in joined : f.key = sel THEN joined ELSE joined \cup {L!Fetch(sel)}
      /\ overtaken' = (overtaken \ {sel}) \cup {f.key : f \in {g \in joined : g.read}}
      /\ UNCHANGED <<kind, rows, typed, timer, sel, cache, last, listSent, moved>>
  BY DEF L!Hear, L!Invalidate, L!Key, L!Cached, CachedAt
<1>2. PICK n : n = L!Fetch(sel)  OBVIOUS
<1>3. n \in ListFlights /\ n.key = sel /\ n.of = sel /\ ~n.read  BY <1>2, FetchIs, ListTypes
<1>4. \A f \in flights' : \/ f = n /\ \A g \in flights' : g.key = sel => g = n
                          \/ f \in flights /\ (f.read => f.key \in overtaken')
  <2>1. \A f \in joined : f \in flights /\ (f.read => f.key \in overtaken')  BY <1>1
  <2>2. QED  BY <1>1, <1>2, <1>3, <2>1
<1>5. FlownTo(sel)'
  <2>1. \E f \in flights' : f.key = sel  BY <1>1, <1>2, <1>3
  <2>2. QED  BY <1>1, <2>1 DEF FlownTo
<1> HIDE DEF joined
<1>6. /\ kind = "review" /\ rows = L!Carried(i) => rows[i] = "other"
      /\ kind = "subscribers" /\ rows = L!Carried(i) => rows[i] = "none"
  <2>1. rows \in [Items -> {"none", "other", "tab"}]  BY ListTypes
  <2>2. QED  BY <2>1 DEF L!Carried
<1>7. L!TypeOK'
  <2>1. asked' \in Items \cup {0} /\ carried' \subseteq Items  BY <1>1, ListTypes
  <2>2. \A f, g \in flights' : f.key = g.key => f = g
    <3>1. \A f, g \in flights : f.key = g.key => f = g  BY DEF ListInv, L!TypeOK
    <3>2. QED  BY <1>3, <1>4, <3>1
  <2>3. fresh' \cup failed' \subseteq L!Selections  BY <1>1, ListTypes
  <2>4. QED  BY <1>1, <2>1, <2>2, <2>3 DEF ListInv, L!TypeOK
<1>8. KeyInv'
  <2>1. flights' \subseteq ListFlights /\ \A f \in flights' : f.key = f.of /\ (f.read => f.got.of = f.of)
    BY <1>3, <1>4 DEF ListInv, KeyInv
  <2>2. QED  BY <1>1, <1>5, <2>1 DEF ListInv, KeyInv
<1>9. DoneInv'
  <2>1. kind = "review" => \A f \in flights' : f.of.tab = "some"
    BY <1>3, <1>4 DEF ListInv, DoneInv
  <2>2. ASSUME NEW k \in done'
        PROVE  \/ kind = "subscribers" /\ rows[k] = "none"
               \/ kind = "review" /\ rows[k] = "other"
    <3>1. CASE k \in done  BY <3>1 DEF ListInv, DoneInv
    <3>2. CASE k \notin done
      <4>1. k = i /\ kind \in {"subscribers", "review"} /\ rows = L!Carried(i)  BY <1>1, <2>2, <3>2
      <4>2. QED  BY <1>6, <4>1
    <3>3. QED  BY <3>1, <3>2
  <2>3. \A f \in flights' : f.read => f.key \in overtaken'  BY <1>3, <1>4
  <2>4. done' \subseteq Items  BY <1>1 DEF ListInv, DoneInv
  <2>5. QED  BY <1>1, <1>5, <2>1, <2>2, <2>3, <2>4 DEF ListInv, DoneInv
<1>10. GrowInv'
  <2>1. ASSUME ~moved
        PROVE  /\ \A f \in flights' : Reaches(f.of, Total(rows, f.of))
               /\ \A f \in flights' : f.read => Reaches(f.of, f.got.total) /\ f.got.total <= Total(rows, f.of)
    BY <1>3, <1>4, <2>1 DEF ListInv, GrowInv
  <2>2. QED  BY <1>1, <2>1 DEF ListInv, GrowInv
<1>11. QED  BY <1>7, <1>8, <1>9, <1>10 DEF ListInv

LEMMA ListElsewhereStep ==
  ASSUME ListInv, NEW i \in Items, NEW w \in {"none", "other", "tab"}, L!Elsewhere(i, w)
  PROVE  ListInv'
<1>1. /\ i \notin listSent /\ rows' = [rows EXCEPT ![i] = w] /\ done' = done \ {i}
      /\ moved' = (moved \/ rows[i] # "none")
      /\ UNCHANGED <<kind, typed, timer, sel, cache, fresh, failed, flights, last, asked, listSent,
                     carried, overtaken>>
  BY DEF L!Elsewhere
<1>2. rows' \in [Items -> {"none", "other", "tab"}] /\ \A k : k # i /\ k \in Items => rows'[k] = rows[k]
  BY <1>1, ListTypes
<1>3. L!TypeOK'  BY <1>1, <1>2 DEF ListInv, L!TypeOK
<1>4. KeyInv'  BY <1>1 DEF ListInv, KeyInv, CachedAt, FlownTo
<1>5. DoneInv'
  <2>1. ASSUME NEW k \in done'
        PROVE  \/ kind = "subscribers" /\ rows'[k] = "none"
               \/ kind = "review" /\ rows'[k] = "other"
    <3>1. k \in done /\ k # i  BY <1>1, <2>1
    <3>2. \/ kind = "subscribers" /\ rows[k] = "none"
          \/ kind = "review" /\ rows[k] = "other"
      BY <3>1 DEF ListInv, DoneInv
    <3>3. k \in Items  BY <3>1 DEF ListInv, DoneInv
    <3>4. QED  BY <1>2, <3>1, <3>2, <3>3
  <2>2. \A f \in flights : f.read /\ f.got.ids \cap done' # {} => f.key \in overtaken
    BY <1>1 DEF ListInv, DoneInv
  <2>3. \A s \in fresh : Old(s)' => s \in overtaken
    BY <1>1 DEF Old, ListInv, DoneInv
  <2>4. Old(sel)' => sel \in overtaken \/ sel \in failed \/ FlownTo(sel)'
    <3>1. (Old(sel)' => Old(sel)) /\ (FlownTo(sel) => FlownTo(sel)')  BY <1>1 DEF Old, FlownTo
    <3>2. QED  BY <3>1 DEF ListInv, DoneInv
  <2>5. done' \subseteq Items  BY <1>1 DEF ListInv, DoneInv
  <2>6. QED  BY <1>1, <2>1, <2>2, <2>3, <2>4, <2>5 DEF ListInv, DoneInv
<1>6. GrowInv'
  <2>1. kind = "media" => \A k \in listSent : rows'[k] = "none"
    BY <1>1, <1>2, ListTypes DEF ListInv, GrowInv
  <2>2. ASSUME ~moved'
        PROVE  /\ Reaches(sel, Total(rows', sel))
               /\ \A f \in flights : Reaches(f.of, Total(rows', f.of))
               /\ \A f \in flights : f.read => Reaches(f.of, f.got.total) /\ f.got.total <= Total(rows', f.of)
               /\ \A c \in cache : Reaches(c.key, c.data.total) /\ c.data.total <= Total(rows', c.key)
               /\ last.data.total <= Total(rows', last.data.of)
    <3>1. ~moved /\ rows[i] = "none"  BY <1>1, <2>2
    <3>2. \A k \in Items : rows[k] # "none" => rows'[k] = rows[k]  BY <1>2, <3>1
    <3>3. \A s \in L!Selections :
              /\ Total(rows, s) \in Nat /\ Total(rows', s) \in Nat /\ Total(rows, s) <= Total(rows', s)
              /\ Reaches(s, Total(rows, s)) => Reaches(s, Total(rows', s))
      BY <3>2, RowsShape
    <3>4. Reaches(sel, Total(rows', sel))  BY <3>1, <3>3, ListTypes DEF ListInv, GrowInv
    <3>5. \A f \in flights : /\ f.of \in L!Selections /\ f.got.total \in Nat
                             /\ Reaches(f.of, Total(rows, f.of))
                             /\ f.read => Reaches(f.of, f.got.total) /\ f.got.total <= Total(rows, f.of)
      BY <3>1 DEF ListInv, KeyInv, ListFlights, Answers, GrowInv
    <3>6. /\ \A f \in flights : Reaches(f.of, Total(rows', f.of))
          /\ \A f \in flights : f.read => Reaches(f.of, f.got.total) /\ f.got.total <= Total(rows', f.of)
      BY <3>3, <3>5
    <3>7. \A c \in cache : /\ c.key \in L!Selections /\ c.data.total \in Nat
                           /\ Reaches(c.key, c.data.total) /\ c.data.total <= Total(rows, c.key)
      BY <3>1 DEF ListInv, KeyInv, Answers, GrowInv
    <3>8. \A c \in cache : Reaches(c.key, c.data.total) /\ c.data.total <= Total(rows', c.key)
      BY <3>3, <3>7
    <3>9. last.data.of \in L!Selections /\ last.data.total \in Nat
          /\ last.data.total <= Total(rows, last.data.of)
      BY <3>1 DEF ListInv, KeyInv, Answers, GrowInv
    <3>10. last.data.total <= Total(rows', last.data.of)  BY <3>3, <3>9
    <3>11. QED  BY <3>4, <3>6, <3>8, <3>10
  <2>3. QED  BY <1>1, <2>1, <2>2 DEF GrowInv
<1>7. QED  BY <1>3, <1>4, <1>5, <1>6 DEF ListInv

LEMMA ListStarts ==
  ASSUME L!Init
  PROVE  ListInv
<1>1. /\ kind \in L!Kinds /\ typed = "all" /\ sel = L!Start
      /\ timer = (kind \in {"users", "subscribers"})
      /\ cache = {} /\ fresh = {} /\ failed = {} /\ last = [none |-> TRUE, data |-> L!Nothing]
      /\ flights = {L!Fetch(sel)}
      /\ asked = 0 /\ listSent = {} /\ carried = {} /\ done = {}
      /\ rows \in [Items -> {"none", "other", "tab"}]
  <2>1. rows \in [Items -> {"none", "other", "tab"}]  BY DEF L!Init
  <2>2. QED  BY <2>1 DEF L!Init, L!Fetch
<1>2. sel \in L!Selections /\ sel.at = 1 /\ (kind = "review" => sel.tab = "some" /\ ~timer)
  <2>1. /\ sel = [tab |-> sel.tab, search |-> "all", at |-> 1] /\ sel.tab \in {"all", "some"}
        /\ kind = "review" => sel.tab = "some"
    BY <1>1 DEF L!Start
  <2>2. sel.at = 1 /\ 1 \in Nat \ {0}  BY <2>1
  <2>3. sel \in L!Selections  BY <2>1, <2>2 DEF L!Selections, L!Wide
  <2>4. kind = "review" => ~timer  BY <1>1
  <2>5. QED  BY <2>1, <2>2, <2>3, <2>4
<1>3. PICK n \in ListFlights : flights = {n} /\ n.key = sel /\ n.of = sel /\ ~n.read
  BY <1>1, <1>2, FetchIs
<1>4. /\ L!Nothing \in Answers /\ L!Nothing.total = 0
  <2>1. L!Fetch(sel).got = L!Nothing /\ L!Fetch(sel) \in ListFlights  BY <1>2, FetchIs DEF L!Fetch
  <2>2. QED  BY <2>1 DEF ListFlights, L!Nothing
<1>5. \A s : Total(rows, s) \in Nat  BY MatchCounts
<1>6. L!TypeOK  BY <1>1, <1>2, <1>3 DEF L!TypeOK, L!Wide
<1>7. KeyInv  BY <1>1, <1>2, <1>3, <1>4 DEF KeyInv, FlownTo
<1>8. DoneInv  BY <1>1, <1>2, <1>3 DEF DoneInv, Old
<1>9. GrowInv
  <2>1. last.data.total <= Total(rows, last.data.of)
    <3>1. last.data.total = 0  BY <1>1, <1>4
    <3>2. QED  BY <1>5, <3>1
  <2>2. QED  BY <1>1, <1>2, <1>3, <2>1 DEF GrowInv, Reaches
<1>10. QED  BY <1>6, <1>7, <1>8, <1>9 DEF ListInv

LEMMA ListStep ==
  ASSUME ListInv, L!Next
  PROVE  ListInv'
<1>1. \/ \E w \in L!Wide : L!Tab(w) \/ L!Type(w)
      \/ L!Debounce
      \/ \E at \in Nat \ {0} : L!Turn(at)
      \/ \E f \in flights : L!Read(f) \/ L!Arrive(f) \/ L!Lose(f)
      \/ L!Age \/ L!Close \/ L!Upload
      \/ \E i \in Items : L!Ask(i) \/ L!Mutate(i) \/ L!Refuse(i)
      \/ \E i \in Items : L!Carry(i) \/ L!Hear(i)
      \/ \E i \in Items, w \in {"none", "other", "tab"} : L!Elsewhere(i, w)
  <2>1. ASSUME NEW at \in 1..L!Cardinality(Items) PROVE at \in Nat \ {0}
    <3>1. L!Cardinality(Items) \in Nat  BY ListConstants, ListCounts, FS_CardinalityType
    <3>2. QED  BY <3>1
  <2>2. QED  BY <2>1 DEF L!Next
<1>2. QED
  BY <1>1, ListTabStep, ListTypeStep, ListDebounceStep, ListTurnStep, ListReadStep,
     ListArriveStep, ListLoseStep, ListPageStep, ListCarryStep, ListHearStep,
     ListElsewhereStep

LEMMA ListAlways == PagesSpec => []ListInv
<1>1. PagesInit => ListInv  BY ListStarts DEF PagesInit, NoList
<1>2. ListInv /\ [PagesNext]_<<part, vars, listVars, composerVars, playerVars, signInVars>> => ListInv'
  <2>1. ASSUME ListInv, UNCHANGED listVars PROVE ListInv'
    BY <2>1 DEF listVars, ListInv, L!TypeOK, KeyInv, DoneInv, GrowInv, CachedAt, FlownTo, Old
  <2>2. QED  BY <2>1, ListStep DEF PagesNext
<1>3. QED  BY <1>1, <1>2, PTL DEF PagesSpec

LEMMA ListShown ==
  ASSUME ListInv
  PROVE  L!ShowsTheList
<1>1. SUFFICES ASSUME L!Settled, sel \notin failed
               PROVE  /\ ~L!Loading => L!Shown.of = sel
                      /\ sel \notin overtaken => L!Shown.ids \cap done = {}
                      /\ L!SaysEmpty /\ ~moved => L!Shown.total = 0
  BY DEF L!ShowsTheList, L!Key
<1>2. ~FlownTo(sel)  BY <1>1 DEF L!Settled, L!Key, FlownTo
<1>3. CachedAt(sel)  BY <1>1, <1>2 DEF ListInv, KeyInv
<1>4. PICK c \in cache : c.key = sel /\ L!Held(sel) = c.data  BY <1>3, HeldIs
<1>5. L!Shown = c.data  BY <1>3, <1>4 DEF L!Shown, L!Cached, CachedAt, L!Key
<1>6. c.data \in Answers /\ c.data.of = sel  BY <1>4 DEF ListInv, KeyInv
<1>7. sel \notin overtaken => c.data.ids \cap done = {}
  BY <1>1, <1>2, <1>4 DEF ListInv, DoneInv, Old
<1>8. c.data.ids = {} /\ ~moved => c.data.total = 0
  <2>1. SUFFICES ASSUME c.data.ids = {}, ~moved PROVE c.data.total = 0
    OBVIOUS
  <2>2. c.data.total \in Nat /\ c.data.total <= (sel.at - 1) * Limit
    BY <1>6, <2>1 DEF Answers
  <2>3. sel.at = 1 \/ (sel.at - 1) * Limit < c.data.total
    BY <1>4, <2>1 DEF ListInv, GrowInv, Reaches
  <2>4. PICK p \in Nat : sel.at = p + 1
    <3>1. sel.at - 1 \in Nat /\ sel.at = (sel.at - 1) + 1  BY ListTypes
    <3>2. QED  BY <3>1
  <2>5. sel.at - 1 = p /\ p * Limit \in Nat /\ 0 * Limit = 0  BY <2>4, ListConstants
  <2>6. p * Limit < c.data.total => FALSE
    BY <2>2, <2>5
  <2>7. p = 0  BY <2>3, <2>4, <2>5, <2>6
  <2>8. QED  BY <2>2, <2>5, <2>7
<1>9. QED  BY <1>5, <1>6, <1>7, <1>8 DEF L!SaysEmpty

\* Of Lists.tla: what is shown is an answer to what was chosen; it is without the rows that the page
\* removed, but for an answer that was on its way when the page heard of it and that nothing
\* replaced; and it is empty only if the list is.
THEOREM ListsShowTheChoice == PagesSpec => []ShowsTheList
<1>1. ListInv => ShowsTheList  BY ListShown DEF ShowsTheList
<1>2. QED  BY <1>1, ListAlways, PTL

(***************************************************************************)
(* The pages to sign in                                                    *)
(***************************************************************************)
GuestPages == {"login", "register"}

\* The studio is not asked for with a goal of its own.
Proper(p) == p \in G!Pages /\ (p.at = "studio" => p.to = "home")

\* Where who is signed in gets for asking for p.
Led(p, forced) ==
    IF p.at = "studio" THEN IF forced THEN G!To("change", "studio") ELSE p
    ELSE IF p.at \in GuestPages THEN IF forced THEN G!To("change", p.to) ELSE G!Page(p.to)
    ELSE p

\* Page go is on the way to page b, for whom the tab takes for m.
OnWay(go, b, push, m, told) ==
    \/ go = b
    \/ b.at = "studio" /\ go = G!To("login", "studio")
    \/ m.at = "user" /\ go = Led(b, m.forced)
    \/ m.at = "user" /\ told /\ go = Led(b, ~m.forced)
    \/ /\ m.at = "user" /\ go = push
       /\ go = G!Page("sent") \/ (b.at \in GuestPages /\ go = G!Page(b.to))

\* The page to sign in has pushed the goal for m, and its guard is yet to have its turn.
Pushing(m) ==
    /\ due /\ m.at = "user" /\ where.at \in GuestPages
    /\ bound = where /\ going = G!Page(where.to)

\* No guard sends on from p who is known as m, or being asked for.
Stays(p, m, ask) ==
    /\ p.at \in GuestPages => m.at # "user"
    /\ p.at = "studio" => ~(m.at = "user" /\ m.forced)
    /\ p.at \in {"studio", "change"} => m.at = "user" \/ (m.at = "unknown" /\ ask.pc # "none")

PlaceTypes == G!TypeOK /\ Proper(where) /\ Proper(going) /\ Proper(bound)

\* What is granted tells who the person is, and has its page still.
AnswerInv ==
    /\ \A c \in calls : c.pc = "granted" => c.user.at = "user"
    /\ \A c \in calls : c.here /\ c.op \in G!SignIns => where.at \in GuestPages
    /\ \A c \in calls : c.here /\ c.op = "change" => where.at = "change"
    /\ \A c \in calls : c.here /\ c.op = "reset" => where.at = "reset"
    /\ asking.pc = "served" => asking.user.at # "unknown"

\* Only who has an account is known to anybody.
MadeInv ==
    /\ person.at = "user" \/ asking.user.at = "user" \/ session = "live" => account.made
    /\ \A c \in calls : c.op \in G!SignIns \cup {"change"} /\ c.user.at = "user" => account.made

\* What the tab knows is right, or old, or about to be told.
ToldInv ==
    person.at = "user" /\ session = "live" /\ ~stale =>
        \/ person = G!User(account)
        \/ asking.pc # "none"
        \/ \E c \in calls : c.pc = "granted" /\ c.op \in {"change", "verify", "google"}

\* Between its effects a page that is not being left is one to stay on, and on the way.
GuardInv == ~due /\ going = where => Stays(where, person, asking)
WayInv == OnWay(going, bound, ahead, person, learnt) \/ Pushing(person)

\* Only a page that does not know the person has the Google button.
ButtonInv == \A c \in calls : c.here /\ c.op = "google" => due \/ person.at # "user"

SignInv == PlaceTypes /\ AnswerInv /\ MadeInv /\ ToldInv /\ GuardInv /\ WayInv

LEMMA SignTypes ==
  ASSUME SignInv
  PROVE  /\ account \in G!Rows /\ session \in {"none", "live", "dead"}
         /\ person \in G!Known /\ person.at \in {"unknown", "nobody", "user"}
         /\ person.forced \in BOOLEAN
         /\ asking \in [pc : {"none", "sent", "served"}, user : G!Known]
         /\ where \in G!Pages /\ going \in G!Pages /\ bound \in G!Pages /\ ahead \in G!Pages
         /\ calls \subseteq G!Calls
         /\ due \in BOOLEAN /\ learnt \in BOOLEAN /\ stale \in BOOLEAN
BY DEF SignInv, PlaceTypes, G!TypeOK, G!Known

LEMMA SignKnown ==
  /\ G!Unknown \in G!Known /\ G!Unknown.at = "unknown"
  /\ G!Nothing("nobody") \in G!Known /\ G!Nothing("nobody").at = "nobody"
  /\ \A r \in G!Rows : G!User(r) \in G!Known /\ G!User(r).at = "user"
  /\ \A r \in G!Rows, s \in G!Rows : G!User(r) = G!User(s) => r.forced = s.forced
BY DEF G!Unknown, G!Nothing, G!Known, G!User, G!Rows

LEMMA SignPages ==
  /\ \A at \in {"login", "register", "forgot", "reset", "verify", "sent", "home", "article", "studio", "change"} :
        Proper(G!Page(at)) /\ G!Page(at).at = at /\ G!Page(at).to = "home"
  /\ \A at \in {"login", "change"}, goal \in G!Goals :
        Proper(G!To(at, goal)) /\ G!To(at, goal).at = at /\ G!To(at, goal).to = goal
BY DEF Proper, G!Page, G!To, G!Pages, G!Goals

\* Page p is loaded.
LEMMA SignLoad ==
  ASSUME SignInv, NEW p, Proper(p), NEW begins, G!Load(p, begins),
         begins \subseteq {c \in G!Calls : c.pc = "sent" /\ c.op = "verify" /\ c.user = G!Unknown}
  PROVE  SignInv'
<1>1. /\ where' = p /\ going' = p /\ bound' = p /\ ahead' = p
      /\ person' = G!Unknown /\ due' = TRUE /\ calls' = begins
      /\ learnt' = FALSE /\ stale' = FALSE /\ account' = account /\ session' = session
      /\ says' \in {"verifying", ""}
  BY DEF G!Load
<1>2. asking' \in {G!Sent, G!NotAsking}  BY DEF G!Load
<1>3. /\ asking' \in [pc : {"none", "sent", "served"}, user : G!Known]
      /\ asking'.pc # "served" /\ asking'.user.at = "unknown"
  BY <1>2, SignKnown DEF G!Sent, G!NotAsking
<1>4. person' \in G!Known /\ person'.at = "unknown"  BY <1>1, SignKnown
<1>5. p \in G!Pages  BY DEF Proper
<1>6. G!TypeOK'  BY <1>1, <1>3, <1>4, <1>5, SignTypes DEF G!TypeOK
<1>7. PlaceTypes'  BY <1>1, <1>6 DEF PlaceTypes, Proper
<1>8. AnswerInv'  BY <1>1, <1>3 DEF AnswerInv, G!SignIns
<1>9. MadeInv'  BY <1>1, <1>3, <1>4 DEF SignInv, MadeInv, G!SignIns
<1>10. ToldInv'  BY <1>4 DEF ToldInv
<1>11. GuardInv' /\ WayInv'  BY <1>1 DEF GuardInv, WayInv, OnWay
<1>12. QED  BY <1>7, <1>8, <1>9, <1>10, <1>11 DEF SignInv

LEMMA SignVisitStep ==
  ASSUME SignInv, NEW p \in G!Addresses, NEW right \in BOOLEAN, G!Visit(p, right)
  PROVE  SignInv'
<1>1. Proper(p)  BY SignPages DEF G!Addresses, G!Goals
<1>2. G!Call("verify", right) \in {c \in G!Calls : c.pc = "sent" /\ c.op = "verify" /\ c.user = G!Unknown}
  BY SignKnown DEF G!Call, G!Calls, G!Ops
<1>3. PICK b : /\ b = IF p.at = "verify" THEN {G!Call("verify", right)} ELSE {}
               /\ G!Load(p, b)
  BY DEF G!Visit
<1>4. QED  BY <1>1, <1>2, <1>3, SignLoad

LEMMA SignClickStep ==
  ASSUME SignInv, NEW p \in G!Links, G!Click(p)
  PROVE  SignInv'
<1>1. /\ going' = p /\ bound' = p /\ ahead' = p
      /\ UNCHANGED <<account, session, person, asking, where, due, says, calls, learnt, stale>>
      /\ p # where
  BY DEF G!Click
<1>2. Proper(p)
  <2>1. where.at \in {"login", "register", "forgot", "reset", "verify", "sent", "home", "article",
                      "studio", "change"}
    BY SignTypes DEF G!Pages, G!Goals
  <2>2. \/ \E at \in {"home", "article", "studio", "login", "register", "forgot"} : p = G!Page(at)
        \/ \E at \in {"home", "article"} : p = G!To("login", at)
    BY <2>1 DEF G!Links
  <2>3. QED  BY <2>2, SignPages DEF G!Goals
<1>3. p \in G!Pages  BY <1>2 DEF Proper
<1>4. PlaceTypes'  BY <1>1, <1>2, <1>3 DEF SignInv, PlaceTypes, G!TypeOK, Proper
<1>5. AnswerInv'  BY <1>1 DEF SignInv, AnswerInv
<1>6. MadeInv'  BY <1>1 DEF SignInv, MadeInv
<1>7. ToldInv'  BY <1>1 DEF SignInv, ToldInv
<1>8. GuardInv' /\ WayInv'  BY <1>1 DEF GuardInv, WayInv, OnWay
<1>9. QED  BY <1>4, <1>5, <1>6, <1>7, <1>8 DEF SignInv

LEMMA SignArriveStep ==
  ASSUME SignInv, G!Arrive
  PROVE  SignInv'
<1>1. /\ where' = going /\ due' = TRUE
      /\ calls' = {[c EXCEPT !.here = FALSE] : c \in calls}
      /\ says' \in {says, ""}
      /\ ahead' = IF due /\ where.at \in GuestPages /\ person.at = "user" /\ going # G!SentOn
                  THEN going ELSE ahead
      /\ UNCHANGED <<account, session, person, asking, going, bound, learnt, stale>>
  BY DEF G!Arrive, GuestPages, G!SignedIn
<1>2. \A c \in calls : /\ [c EXCEPT !.here = FALSE] \in G!Calls
                       /\ [c EXCEPT !.here = FALSE].here = FALSE
                       /\ [c EXCEPT !.here = FALSE].pc = c.pc
                       /\ [c EXCEPT !.here = FALSE].op = c.op
                       /\ [c EXCEPT !.here = FALSE].user = c.user
  <2>1. TAKE c \in calls
  <2>2. c \in G!Calls  BY SignTypes
  <2>3. QED  BY <2>2 DEF G!Calls
<1>3. /\ \A d \in calls' : d \in G!Calls /\ ~d.here
      /\ \A d \in calls' : \E c \in calls : c.pc = d.pc /\ c.op = d.op /\ c.user = d.user
      /\ \A c \in calls : \E d \in calls' : c.pc = d.pc /\ c.op = d.op /\ c.user = d.user
  BY <1>1, <1>2
<1>4. PlaceTypes'
  <2>1. calls' \subseteq G!Calls  BY <1>3
  <2>2. ahead' \in G!Pages  BY <1>1, SignTypes
  <2>3. QED  BY <1>1, <2>1, <2>2 DEF SignInv, PlaceTypes, G!TypeOK, Proper
<1>5. AnswerInv'
  <2>1. \A d \in calls' : d.pc = "granted" => d.user.at = "user"
    BY <1>3 DEF SignInv, AnswerInv
  <2>2. \A d \in calls' : ~d.here  BY <1>3
  <2>3. QED  BY <1>1, <2>1, <2>2 DEF SignInv, AnswerInv
<1>6. MadeInv'  BY <1>1, <1>3 DEF SignInv, MadeInv
<1>7. ToldInv'  BY <1>1, <1>3 DEF SignInv, ToldInv
<1>8. GuardInv'  BY <1>1 DEF GuardInv
<1>9. OnWay(going, bound, ahead', person, learnt)
  <2>1. CASE OnWay(going, bound, ahead, person, learnt)  BY <1>1, <2>1 DEF OnWay
  <2>2. CASE Pushing(person)
    <3>1. CASE going # G!SentOn
      <4>1. ahead' = going  BY <1>1, <2>2, <3>1 DEF Pushing
      <4>2. QED  BY <2>2, <4>1 DEF OnWay, Pushing
    <3>2. CASE going = G!SentOn
      <4>1. G!SentOn = IF person.forced THEN G!To("change", where.to) ELSE G!Page(where.to)
        BY <2>2 DEF Pushing, G!SentOn, GuestPages, G!SignedIn
      <4>2. going = Led(bound, person.forced)
        BY <2>2, <3>2, <4>1 DEF Pushing, Led, GuestPages
      <4>3. QED  BY <2>2, <4>2 DEF OnWay, Pushing
    <3>3. QED  BY <3>1, <3>2
  <2>3. QED  BY <2>1, <2>2 DEF SignInv, WayInv
<1>10. WayInv'  BY <1>1, <1>9 DEF WayInv
<1>11. QED  BY <1>4, <1>5, <1>6, <1>7, <1>8, <1>10 DEF SignInv

LEMMA SignMeServedStep ==
  ASSUME SignInv, G!MeServed
  PROVE  SignInv'
<1>1. /\ asking.pc = "sent"
      /\ UNCHANGED <<account, session, person, where, going, due, says, calls, bound, ahead, learnt,
                     stale>>
  BY DEF G!MeServed
<1>2. PICK m \in G!Known : /\ asking' = [pc |-> "served", user |-> m] /\ m.at # "unknown"
                           /\ m.at = "user" => session = "live"
  BY SignTypes, SignKnown DEF G!MeServed
<1>3. asking'.pc = "served" /\ asking'.user = m
      /\ asking' \in [pc : {"none", "sent", "served"}, user : G!Known]
  BY <1>2
<1>4. PlaceTypes'  BY <1>1, <1>3 DEF SignInv, PlaceTypes, G!TypeOK
<1>5. AnswerInv'  BY <1>1, <1>2, <1>3 DEF SignInv, AnswerInv
<1>6. MadeInv'  BY <1>1, <1>2, <1>3 DEF SignInv, MadeInv
<1>7. ToldInv'  BY <1>1, <1>3 DEF SignInv, ToldInv
<1>8. GuardInv' /\ WayInv'  BY <1>1, <1>3 DEF SignInv, GuardInv, WayInv, Pushing, Stays
<1>9. QED  BY <1>4, <1>5, <1>6, <1>7, <1>8 DEF SignInv

\* The guards of a page.
LEMMA SignGuardStep ==
  ASSUME SignInv, G!Guard
  PROVE  SignInv'
<1> DEFINE to == G!SentOn
           guest == ~(person.at = "unknown" /\ asking.pc # "none") /\ person.at # "user"
<1>1. /\ due' = FALSE /\ going' = to
      /\ bound' = IF where.at = "change" /\ guest THEN to
                  ELSE IF going \notin {where, to} THEN where ELSE bound
      /\ calls' = {IF c.op = "google" /\ where.at \in GuestPages /\ ~guest
                   THEN [c EXCEPT !.here = FALSE] ELSE c : c \in calls}
      /\ UNCHANGED <<account, session, person, asking, where, says, ahead, learnt, stale>>
  BY DEF G!Guard, G!Guest, G!Loading, G!SignedIn, GuestPages
<1>2. /\ where.at \in GuestPages /\ person.at = "user" =>
            to = IF person.forced THEN G!To("change", where.to) ELSE G!Page(where.to)
      /\ where.at = "studio" /\ guest => to = G!To("login", "studio")
      /\ where.at = "studio" /\ person.at = "user" /\ person.forced => to = G!To("change", "studio")
      /\ where.at = "change" /\ guest => to = G!To("login", "change")
      /\ ~(where.at \in GuestPages /\ person.at = "user") /\ ~(where.at = "studio" /\ guest)
            /\ ~(where.at = "studio" /\ person.at = "user" /\ person.forced)
            /\ ~(where.at = "change" /\ guest)
         => to = going
  BY DEF G!SentOn, G!Guest, G!Loading, G!SignedIn, GuestPages
<1> HIDE DEF to
<1>c. /\ \A d \in calls' : /\ d \in G!Calls
                           /\ \E c \in calls : /\ c.pc = d.pc /\ c.op = d.op /\ c.user = d.user
                                             /\ (d.here => c.here)
      /\ \A c \in calls : \E d \in calls' : c.pc = d.pc /\ c.op = d.op /\ c.user = d.user
  <2>1. \A c \in calls : c \in G!Calls  BY SignTypes
  <2>2. \A c \in G!Calls : /\ [c EXCEPT !.here = FALSE] \in G!Calls
                          /\ [c EXCEPT !.here = FALSE].here = FALSE
                          /\ [c EXCEPT !.here = FALSE].pc = c.pc
                          /\ [c EXCEPT !.here = FALSE].op = c.op
                          /\ [c EXCEPT !.here = FALSE].user = c.user
    BY DEF G!Calls
  <2>3. \A d \in calls' : \E c \in calls : d = c \/ d = [c EXCEPT !.here = FALSE]  BY <1>1
  <2>4. \A c \in calls : c \in calls' \/ [c EXCEPT !.here = FALSE] \in calls'  BY <1>1
  <2>5. QED  BY <2>1, <2>2, <2>3, <2>4
<1>3. where.to \in G!Goals /\ "studio" \in G!Goals /\ "change" \in G!Goals
  BY SignTypes DEF G!Pages, G!Goals
<1>4. Proper(to)
  <2>1. Proper(G!To("change", where.to)) /\ Proper(G!To("login", "studio"))
        /\ Proper(G!To("change", "studio")) /\ Proper(G!To("login", "change"))
    BY <1>3, SignPages
  <2>2. Proper(G!Page(where.to))  BY <1>3, SignPages DEF G!Goals
  <2>3. Proper(going)  BY DEF SignInv, PlaceTypes
  <2>4. QED  BY <1>2, <2>1, <2>2, <2>3
<1>5. PlaceTypes'
  <2>1. Proper(where) /\ Proper(bound)  BY DEF SignInv, PlaceTypes
  <2>2. Proper(going') /\ Proper(bound')  BY <1>1, <1>4, <2>1
  <2>3. going' \in G!Pages /\ bound' \in G!Pages  BY <2>2 DEF Proper
  <2>4. calls' \subseteq G!Calls  BY <1>c
  <2>5. QED  BY <1>1, <2>1, <2>2, <2>3, <2>4 DEF SignInv, PlaceTypes, G!TypeOK, Proper
<1>6. AnswerInv'
  <2>1. \A d \in calls' : d.pc = "granted" => d.user.at = "user"
    BY <1>c DEF SignInv, AnswerInv
  <2>2. /\ \A d \in calls' : d.here /\ d.op \in G!SignIns => where.at \in GuestPages
        /\ \A d \in calls' : d.here /\ d.op = "change" => where.at = "change"
        /\ \A d \in calls' : d.here /\ d.op = "reset" => where.at = "reset"
    BY <1>c DEF SignInv, AnswerInv
  <2>3. QED  BY <1>1, <2>1, <2>2 DEF SignInv, AnswerInv
<1>u. UNCHANGED <<account, session, person, asking, stale>>  BY <1>1
<1>d. /\ \A d \in calls' : \E c \in calls : c.op = d.op /\ c.user = d.user
      /\ \A c \in calls : \E d \in calls' : c.pc = d.pc /\ c.op = d.op
  BY <1>c
<1>7. MadeInv'
  <2>1. \A d \in calls' : d.op \in G!SignIns \cup {"change"} /\ d.user.at = "user" => account.made
    BY <1>d DEF SignInv, MadeInv
  <2>2. QED  BY <1>u, <2>1 DEF SignInv, MadeInv
<1>8. ToldInv'  BY <1>u, <1>d DEF SignInv, ToldInv
<1>9. GuardInv'
  <2>1. SUFFICES ASSUME going' = where PROVE Stays(where, person, asking)
    BY <1>1 DEF GuardInv
  <2>2. to = where  BY <1>1, <2>1
  <2>3. /\ G!To("change", where.to).at = "change" /\ G!To("change", where.to).to = where.to
        /\ G!To("login", "studio").at = "login" /\ G!To("change", "studio").at = "change"
        /\ G!To("login", "change").at = "login"
    BY <1>3, SignPages
  <2>4. G!Page(where.to).at = where.to /\ where.to \notin GuestPages
    BY <1>3, SignPages DEF G!Goals, GuestPages
  <2>5. ~(where.at \in GuestPages /\ person.at = "user")
    BY <1>2, <2>2, <2>3, <2>4 DEF GuestPages
  <2>6. ~(where.at = "studio" /\ guest) /\ ~(where.at = "studio" /\ person.at = "user" /\ person.forced)
        /\ ~(where.at = "change" /\ guest)
    BY <1>2, <2>2, <2>3
  <2>7. QED  BY <2>5, <2>6 DEF Stays
<1>10. WayInv'
  <2>1. SUFFICES OnWay(to, bound', ahead, person, learnt)
    BY <1>1 DEF WayInv
  <2>0. Pushing(person) => OnWay(to, bound', ahead, person, learnt)
    <3>1. SUFFICES ASSUME Pushing(person) PROVE OnWay(to, bound', ahead, person, learnt)
      OBVIOUS
    <3>2. person.at = "user" /\ where.at \in GuestPages /\ bound = where  BY <3>1 DEF Pushing
    <3>3. to = Led(where, person.forced)  BY <1>2, <3>2 DEF Led, GuestPages
    <3>4. bound' = where  BY <1>1, <3>2 DEF GuestPages
    <3>5. QED  BY <3>2, <3>3, <3>4 DEF OnWay
  <2>2. CASE where.at = "change" /\ guest
    BY <1>1, <2>2 DEF OnWay
  <2>3. CASE ~(where.at = "change" /\ guest) /\ going \notin {where, to}
    <3>1. bound' = where /\ to # going  BY <1>1, <2>3
    <3>2. CASE where.at \in GuestPages /\ person.at = "user"
      <4>1. to = Led(where, person.forced)
        BY <1>2, <3>2 DEF Led, GuestPages
      <4>2. QED  BY <3>1, <3>2, <4>1 DEF OnWay
    <3>3. CASE where.at = "studio" /\ guest  BY <1>2, <3>1, <3>3 DEF OnWay
    <3>4. CASE where.at = "studio" /\ person.at = "user" /\ person.forced
      <4>1. to = Led(where, person.forced)  BY <1>2, <3>4 DEF Led
      <4>2. QED  BY <3>1, <3>4, <4>1 DEF OnWay
    <3>5. QED  BY <1>2, <2>3, <3>1, <3>2, <3>3, <3>4
  <2>4. CASE ~(where.at = "change" /\ guest) /\ going = to
    <3>1. to = where => bound' = bound  BY <1>1, <2>4
    <3>2. bound' = bound  BY <1>1, <2>4
    <3>3. QED  BY <2>0, <2>4, <3>2 DEF SignInv, WayInv
  <2>5. CASE ~(where.at = "change" /\ guest) /\ going = where /\ to # where
    <3>1. bound' = bound  BY <1>1, <2>5
    <3>2. SUFFICES ASSUME OnWay(where, bound, ahead, person, learnt)
                   PROVE  OnWay(to, bound', ahead, person, learnt)
      BY <2>0, <2>5 DEF SignInv, WayInv
    <3>3. bound.at = "studio" => bound = G!Page("studio")
      BY DEF SignInv, PlaceTypes, Proper, G!Pages, G!Page, G!To
    <3>4. bound.to \in G!Goals /\ where.to \in G!Goals
      BY SignTypes DEF G!Pages, G!Goals
    <3>5. /\ G!Page(bound.to).at = bound.to /\ G!Page("sent").at = "sent"
          /\ G!To("change", bound.to).at = "change" /\ G!To("change", "studio").at = "change"
          /\ G!To("login", "studio").at = "login" /\ G!To("login", "studio").to = "studio"
          /\ G!Page("studio").at = "studio"
      BY <3>4, SignPages DEF G!Goals
    <3>6. CASE where.at \in GuestPages /\ person.at = "user"
      <4>1. to = Led(where, person.forced)  BY <1>2, <3>6 DEF Led, GuestPages
      <4>2. where = bound \/ (bound.at = "studio" /\ where = G!To("login", "studio"))
        BY <3>2, <3>4, <3>5, <3>6 DEF OnWay, Led, GuestPages, G!Goals
      <4>3. CASE where = bound  BY <3>1, <3>6, <4>1, <4>3 DEF OnWay
      <4>4. CASE bound.at = "studio" /\ where = G!To("login", "studio")
        <5>1. to = IF person.forced THEN G!To("change", "studio") ELSE G!Page("studio")
          BY <1>2, <3>5, <3>6, <4>4
        <5>2. to = Led(bound, person.forced)  BY <3>3, <4>4, <5>1 DEF Led
        <5>3. QED  BY <3>1, <3>6, <5>2 DEF OnWay
      <4>5. QED  BY <4>2, <4>3, <4>4
    <3>7. CASE where.at = "studio" /\ guest
      <4>1. where = bound  BY <3>2, <3>5, <3>7 DEF OnWay
      <4>2. QED  BY <1>2, <3>1, <3>7, <4>1 DEF OnWay
    <3>8. CASE where.at = "studio" /\ person.at = "user" /\ person.forced
      <4>1. bound.at = "studio" \/ (bound.at \in GuestPages /\ bound.to = "studio")
        BY <3>2, <3>4, <3>5, <3>8 DEF OnWay, Led, GuestPages, G!Goals
      <4>2. Led(bound, TRUE) = G!To("change", "studio")
        BY <4>1 DEF Led, GuestPages
      <4>3. to = Led(bound, person.forced)
        BY <1>2, <3>8, <4>2, SignTypes
      <4>4. QED  BY <3>1, <3>8, <4>3 DEF OnWay
    <3>9. QED  BY <1>2, <2>5, <3>6, <3>7, <3>8
  <2>6. QED  BY <2>2, <2>3, <2>4, <2>5
<1>11. QED  BY <1>5, <1>6, <1>7, <1>8, <1>9, <1>10 DEF SignInv

\* The tab is told m, or that it is to ask, while the page stays.
LEMMA SignToldKeeps ==
  ASSUME SignInv, NEW m, G!Learn(m),
         asking' \in {asking, G!NotAsking, G!Sent}, UNCHANGED <<where, going>>
  PROVE  GuardInv'
<1>1. person' = m /\ due' = (due \/ m # person \/ G!Loading)  BY DEF G!Learn
<1>2. CASE due'  BY <1>2 DEF GuardInv
<1>3. CASE ~due'
  <2>1. ~due /\ m = person /\ ~(person.at = "unknown" /\ asking.pc # "none")
    BY <1>1, <1>3, SignTypes DEF G!Loading
  <2>2. going = where => Stays(where, person, asking)  BY <2>1 DEF SignInv, GuardInv
  <2>3. going = where => Stays(where, person, asking')  BY <2>1, <2>2 DEF Stays, G!Sent
  <2>4. QED  BY <1>1, <2>1, <2>3 DEF GuardInv
<1>4. QED  BY <1>2, <1>3

\* Whoever the tab comes to know, the page is on the way: it knows that it was told otherwise.
LEMMA SignToldWay ==
  ASSUME SignInv, NEW m \in G!Known, NEW told \in BOOLEAN,
         person.at = "user" => m.at = "user",
         learnt => told, person.at = "user" /\ m.forced # person.forced => told
  PROVE  OnWay(going, bound, ahead, m, told) \/ Pushing(m)
<1>0. CASE Pushing(person)  BY <1>0 DEF Pushing
<1>1. SUFFICES ASSUME OnWay(going, bound, ahead, person, learnt)
               PROVE  OnWay(going, bound, ahead, m, told)
  BY <1>0 DEF SignInv, WayInv
<1>2. CASE person.at = "user"
  <2>1. m.at = "user"  BY <1>2
  <2>2. person.forced \in BOOLEAN /\ m.forced \in BOOLEAN  BY SignTypes DEF G!Known
  <2>3. CASE m.forced = person.forced
    BY <1>1, <1>2, <2>1, <2>3 DEF OnWay
  <2>4. CASE m.forced # person.forced
    <3>1. told  BY <1>2, <2>4
    <3>2. \/ person.forced = TRUE /\ m.forced = FALSE /\ (~m.forced) = TRUE /\ (~person.forced) = FALSE
          \/ person.forced = FALSE /\ m.forced = TRUE /\ (~m.forced) = FALSE /\ (~person.forced) = TRUE
      BY <2>2, <2>4
    <3>3. /\ Led(bound, person.forced) = Led(bound, ~m.forced)
          /\ Led(bound, ~person.forced) = Led(bound, m.forced)
      BY <3>2
    <3>4. QED  BY <1>1, <2>1, <3>1, <3>3 DEF OnWay
  <2>5. QED  BY <2>3, <2>4
<1>3. CASE person.at # "user"
  BY <1>1, <1>3 DEF OnWay
<1>4. QED  BY <1>2, <1>3

LEMMA SignMeAnsweredStep ==
  ASSUME SignInv, G!MeAnswered
  PROVE  SignInv'
<1>1. /\ asking.pc = "served" /\ asking' = G!NotAsking
      /\ UNCHANGED <<account, session, where, going, says, calls, bound, ahead>>
  BY DEF G!MeAnswered
<1>2. asking.user \in G!Known /\ asking.user.at \in {"nobody", "user"}
  BY <1>1, SignTypes DEF SignInv, AnswerInv, G!Known
<1>3. asking' \in [pc : {"none", "sent", "served"}, user : G!Known] /\ asking'.pc = "none"
      /\ asking'.user.at = "unknown"
  BY <1>1, SignKnown DEF G!NotAsking
<1>4. /\ person' \in G!Known /\ person'.at \in {"nobody", "user"} /\ due' \in BOOLEAN
      /\ person.at = "user" => person'.at = "user"
      /\ person'.at = "user" => account.made
      /\ stale' \in BOOLEAN
      /\ person'.at = "user" /\ ~stale' => person' = G!User(account)
      /\ learnt' \in BOOLEAN /\ (learnt => learnt')
      /\ person.at = "user" /\ person'.forced # person.forced => learnt'
      /\ GuardInv' /\ (due => due')
  <2>1. CASE asking.user.at = "nobody" /\ person.at = "user"
    <3>1. person' = person /\ due' = due /\ stale' = TRUE
      BY <2>1 DEF G!MeAnswered, G!SignedIn
    <3>2. learnt' = (learnt \/ G!Otherwise(asking.user))  BY DEF G!MeAnswered
    <3>3. GuardInv'
      BY <1>1, <1>3, <2>1, <3>1 DEF SignInv, GuardInv, Stays
    <3>4. QED  BY <2>1, <3>1, <3>2, <3>3, SignTypes DEF SignInv, MadeInv, G!Otherwise
  <2>2. CASE ~(asking.user.at = "nobody" /\ person.at = "user")
    <3>1. G!Learn(asking.user)  BY <2>2 DEF G!MeAnswered, G!SignedIn
    <3>2. /\ person' = asking.user /\ due' = (due \/ asking.user # person \/ G!Loading)
          /\ stale' = (asking.user.at = "user" /\ asking.user # G!User(account))
      BY <3>1 DEF G!Learn
    <3>3. learnt' = (learnt \/ (person.at = "user" /\ asking.user.at = "user"
                                  /\ asking.user.forced # person.forced))
      BY DEF G!MeAnswered, G!Otherwise, G!SignedIn
    <3>4. due' \in BOOLEAN /\ learnt' \in BOOLEAN /\ stale' \in BOOLEAN
      BY <3>2, <3>3, SignTypes DEF G!Loading
    <3>5. person'.at = "user" => account.made  BY <3>2 DEF SignInv, MadeInv
    <3>6. GuardInv'  BY <1>1, <3>1, <3>2, SignToldKeeps
    <3>7. QED  BY <1>2, <2>2, <3>2, <3>3, <3>4, <3>5, <3>6
  <2>3. QED  BY <2>1, <2>2
<1>5. PlaceTypes'  BY <1>1, <1>3, <1>4 DEF SignInv, PlaceTypes, G!TypeOK
<1>6. AnswerInv'  BY <1>1, <1>3 DEF SignInv, AnswerInv
<1>7. MadeInv'  BY <1>1, <1>3, <1>4 DEF SignInv, MadeInv
<1>8. ToldInv'  BY <1>1, <1>4 DEF ToldInv
<1>9. WayInv'
  <2>1. OnWay(going, bound, ahead, person', learnt') \/ Pushing(person')  BY <1>4, SignToldWay
  <2>2. QED  BY <1>1, <1>4, <2>1 DEF WayInv, Pushing
<1>10. QED  BY <1>4, <1>5, <1>6, <1>7, <1>8, <1>9 DEF SignInv

LEMMA SignMeLostStep ==
  ASSUME SignInv, G!MeLost
  PROVE  SignInv'
<1>1. /\ asking' = G!NotAsking
      /\ UNCHANGED <<account, session, where, going, says, calls, bound, ahead, learnt>>
  BY DEF G!MeLost
<1>2. asking' \in [pc : {"none", "sent", "served"}, user : G!Known] /\ asking'.pc = "none"
      /\ asking'.user.at = "unknown"
  BY <1>1, SignKnown DEF G!NotAsking
<1>3. /\ person' \in G!Known /\ due' \in BOOLEAN
      /\ IF person.at = "user" THEN person' = person ELSE person'.at = "nobody"
      /\ stale' \in BOOLEAN /\ (person'.at = "user" => stale')
      /\ GuardInv' /\ (due => due')
  <2>1. CASE person.at = "user"
    <3>1. person' = person /\ due' = due /\ stale' = TRUE  BY <2>1 DEF G!MeLost, G!SignedIn
    <3>2. GuardInv'  BY <1>1, <1>2, <2>1, <3>1 DEF SignInv, GuardInv, Stays
    <3>3. QED  BY <2>1, <3>1, <3>2, SignTypes
  <2>2. CASE person.at # "user"
    <3>1. G!Learn(G!Nothing("nobody"))  BY <2>2 DEF G!MeLost, G!SignedIn
    <3>2. person' = G!Nothing("nobody") /\ due' = (due \/ G!Nothing("nobody") # person \/ G!Loading)
          /\ stale' = (G!Nothing("nobody").at = "user" /\ G!Nothing("nobody") # G!User(account))
      BY <3>1 DEF G!Learn
    <3>3. GuardInv'  BY <1>1, <3>1, <3>2, SignToldKeeps
    <3>4. QED  BY <2>2, <3>2, <3>3, SignTypes, SignKnown DEF G!Loading
  <2>3. QED  BY <2>1, <2>2
<1>4. PlaceTypes'  BY <1>1, <1>2, <1>3 DEF SignInv, PlaceTypes, G!TypeOK
<1>5. AnswerInv'  BY <1>1, <1>2 DEF SignInv, AnswerInv
<1>6. MadeInv'  BY <1>1, <1>2, <1>3 DEF SignInv, MadeInv
<1>7. ToldInv'  BY <1>3 DEF ToldInv
<1>8. WayInv'
  <2>1. OnWay(going, bound, ahead, person', learnt) \/ Pushing(person')
    BY <1>3, SignToldWay, SignTypes
  <2>2. QED  BY <1>1, <1>3, <2>1 DEF WayInv, Pushing
<1>9. QED  BY <1>3, <1>4, <1>5, <1>6, <1>7, <1>8 DEF SignInv

LEMMA SignAskAgainStep ==
  ASSUME SignInv, G!AskAgain
  PROVE  SignInv'
<1>1. /\ asking.pc = "none" /\ asking' = G!Sent
      /\ person' = IF person.at = "user" THEN person ELSE G!Unknown
      /\ due' = (due \/ person.at # "user")
      /\ UNCHANGED <<account, session, where, going, says, calls, bound, ahead, learnt, stale>>
  BY DEF G!AskAgain, G!SignedIn
<1>2. asking' \in [pc : {"none", "sent", "served"}, user : G!Known] /\ asking'.pc = "sent"
      /\ asking'.user.at = "unknown"
  BY <1>1, SignKnown DEF G!Sent
<1>3. person' \in G!Known /\ due' \in BOOLEAN /\ (person.at # "user" => person'.at = "unknown")
  BY <1>1, SignTypes, SignKnown
<1>4. PlaceTypes'  BY <1>1, <1>2, <1>3 DEF SignInv, PlaceTypes, G!TypeOK
<1>5. AnswerInv'  BY <1>1, <1>2 DEF SignInv, AnswerInv
<1>6. MadeInv'  BY <1>1, <1>2, <1>3 DEF SignInv, MadeInv
<1>7. ToldInv'  BY <1>2 DEF ToldInv
<1>8. GuardInv'
  <2>1. CASE person.at = "user"  BY <1>1, <2>1 DEF SignInv, GuardInv, Stays
  <2>2. CASE person.at # "user"  BY <1>1, <2>2 DEF GuardInv
  <2>3. QED  BY <2>1, <2>2
<1>9. WayInv'
  <2>1. OnWay(going, bound, ahead, person', learnt) \/ Pushing(person')
    BY <1>1, <1>3, SignToldWay, SignTypes
  <2>2. QED  BY <1>1, <2>1 DEF WayInv, Pushing
<1>10. QED  BY <1>4, <1>5, <1>6, <1>7, <1>8, <1>9 DEF SignInv

LEMMA SignSubmitStep ==
  ASSUME SignInv, NEW op \in G!Ops, NEW right \in BOOLEAN, G!Submit(op, right)
  PROVE  SignInv'
<1>1. /\ G!Offered(op) /\ bound' = going
      /\ UNCHANGED <<account, session, person, asking, where, going, due, says, ahead, learnt, stale>>
  BY DEF G!Submit
<1>2. PICK n \in G!Calls : /\ n.op = op /\ n.pc = "sent" /\ n.user.at = "unknown"
                           /\ calls' = calls \cup {n}
  <2>1. PICK n : n = G!Call(op, right)  OBVIOUS
  <2>2. n \in G!Calls /\ n.op = op /\ n.pc = "sent" /\ n.user.at = "unknown"
    BY <2>1, SignKnown DEF G!Call, G!Calls
  <2>3. QED  BY <2>1, <2>2 DEF G!Submit
<1>3. /\ op \in G!SignIns => where.at \in GuestPages
      /\ op = "change" => where.at = "change"
      /\ op = "reset" => where.at = "reset"
  BY <1>1 DEF G!Offered, G!SignIns, GuestPages
<1>4. PlaceTypes'  BY <1>1, <1>2 DEF SignInv, PlaceTypes, G!TypeOK, Proper
<1>5. AnswerInv'  BY <1>1, <1>2, <1>3 DEF SignInv, AnswerInv
<1>6. MadeInv'  BY <1>1, <1>2 DEF SignInv, MadeInv
<1>7. ToldInv'  BY <1>1, <1>2 DEF SignInv, ToldInv
<1>8. GuardInv' /\ WayInv'  BY <1>1 DEF SignInv, GuardInv, WayInv, OnWay
<1>9. QED  BY <1>4, <1>5, <1>6, <1>7, <1>8 DEF SignInv

LEMMA SignServeStep ==
  ASSUME SignInv, NEW c \in calls, G!Serve(c)
  PROVE  SignInv'
<1>1. /\ c.pc = "sent" /\ c \in G!Calls
      /\ UNCHANGED <<person, asking, where, going, due, says, bound, ahead, learnt, stale>>
  BY SignTypes DEF G!Serve
<1>2. /\ account' \in G!Rows /\ (account.made => account'.made)
      /\ session' \in {session, "dead"}
  <2>1. CASE G!Granted(c) = {}
    BY <2>1, SignTypes DEF G!Serve
  <2>2. CASE G!Granted(c) # {}
    <3>1. account' \in G!Granted(c)  BY <2>2 DEF G!Serve
    <3>2. account \in G!Rows /\ c.op \in G!Ops  BY <1>1, SignTypes DEF G!Calls
    <3>3. /\ [account EXCEPT !.verified = TRUE] \in G!Rows
          /\ [account EXCEPT !.verified = TRUE].made = account.made
          /\ [account EXCEPT !.forced = FALSE] \in G!Rows
          /\ [account EXCEPT !.forced = FALSE].made = account.made
          /\ \A v \in BOOLEAN : G!Row(FALSE, v) \in G!Rows /\ G!Row(FALSE, v).made
      BY <3>2 DEF G!Rows, G!Row
    <3>4. \/ account' \in {account, [account EXCEPT !.verified = TRUE], [account EXCEPT !.forced = FALSE]}
          \/ \E v \in BOOLEAN : account' = G!Row(FALSE, v)
      BY <3>1, <3>2 DEF G!Granted, G!Ops, G!SignIns
    <3>5. session' \in {session, "dead"}  BY <2>2 DEF G!Serve
    <3>6. QED  BY <3>2, <3>3, <3>4, <3>5
  <2>3. QED  BY <2>1, <2>2
<1>3. PICK n \in G!Calls :
          /\ n.op = c.op /\ n.here = c.here /\ calls' = (calls \ {c}) \cup {n}
          /\ \/ n.pc = "refused" /\ n.user = c.user /\ account' = account /\ session' = session
             \/ /\ n.pc = "granted" /\ n.user = G!User(account') /\ n.user.at = "user"
                /\ account' \in G!Granted(c)
  <2>1. CASE G!Granted(c) = {}
    <3>1. PICK n : n = [c EXCEPT !.pc = "refused"]  OBVIOUS
    <3>2. /\ n \in G!Calls /\ n.op = c.op /\ n.here = c.here /\ n.pc = "refused" /\ n.user = c.user
      BY <1>1, <3>1 DEF G!Calls
    <3>3. calls' = (calls \ {c}) \cup {n} /\ account' = account /\ session' = session
      BY <2>1, <3>1 DEF G!Serve
    <3>4. QED  BY <3>2, <3>3
  <2>2. CASE G!Granted(c) # {}
    <3>1. PICK u : u = G!User(account')  OBVIOUS
    <3>2. u \in G!Known /\ u.at = "user"  BY <1>2, <3>1, SignKnown
    <3>3. PICK n : n = [c EXCEPT !.pc = "granted", !.user = u]  OBVIOUS
    <3>4. n \in G!Calls /\ n.op = c.op /\ n.here = c.here /\ n.pc = "granted" /\ n.user = u
      BY <1>1, <3>2, <3>3 DEF G!Calls
    <3>5. calls' = (calls \ {c}) \cup {n} /\ account' \in G!Granted(c)
      BY <2>2, <3>1, <3>3 DEF G!Serve
    <3>6. QED  BY <3>1, <3>2, <3>4, <3>5
  <2>3. QED  BY <2>1, <2>2
<1>4. n.pc = "granted" =>
          /\ c.op \in G!SignIns \cup {"change"} => account'.made
          /\ account' # account /\ account.made => c.op \in {"change", "verify", "google"}
  <2>1. SUFFICES ASSUME n.pc = "granted"
                 PROVE  /\ c.op \in G!SignIns \cup {"change"} => account'.made
                        /\ account' # account /\ account.made => c.op \in {"change", "verify", "google"}
    OBVIOUS
  <2>2. account' \in G!Granted(c) /\ c.op \in G!Ops  BY <1>1, <1>3, <2>1 DEF G!Calls
  <2>3. c.op \in {"login", "register", "google"} => account'.made
    <3>1. \A v \in BOOLEAN : G!Row(FALSE, v).made  BY DEF G!Row
    <3>2. [account EXCEPT !.verified = TRUE].made = account.made  BY SignTypes DEF G!Rows
    <3>3. QED  BY <2>2, <3>1, <3>2 DEF G!Granted
  <2>4. c.op = "change" => account'.made
    <3>1. c.op = "change" => session = "live"  BY <2>2 DEF G!Granted
    <3>2. session = "live" => account.made  BY DEF SignInv, MadeInv
    <3>3. QED  BY <1>2, <3>1, <3>2
  <2>5. account' # account /\ account.made => c.op \in {"change", "verify", "google"}
    BY <2>2 DEF G!Granted, G!Ops, G!SignIns
  <2>6. QED  BY <2>3, <2>4, <2>5 DEF G!SignIns
<1>5. PlaceTypes'
  <2>1. session' \in {"none", "live", "dead"} /\ calls' \subseteq G!Calls  BY <1>2, <1>3, SignTypes
  <2>2. QED  BY <1>1, <1>2, <2>1 DEF SignInv, PlaceTypes, G!TypeOK, Proper
<1>6. AnswerInv'
  <2>1. n.pc = "granted" => n.user.at = "user"  BY <1>3
  <2>2. QED  BY <1>1, <1>3, <2>1 DEF SignInv, AnswerInv
<1>7. MadeInv'
  <2>1. person.at = "user" \/ asking.user.at = "user" \/ session' = "live" => account'.made
    BY <1>2 DEF SignInv, MadeInv
  <2>2. \A d \in calls \ {c} : d.op \in G!SignIns \cup {"change"} /\ d.user.at = "user" => account'.made
    BY <1>2 DEF SignInv, MadeInv
  <2>3. n.op \in G!SignIns \cup {"change"} /\ n.user.at = "user" => account'.made
    <3>1. CASE n.pc = "granted"  BY <1>3, <1>4, <3>1
    <3>2. CASE n.pc # "granted"
      <4>1. n.user = c.user /\ account' = account  BY <1>3, <3>2
      <4>2. QED  BY <1>3, <4>1 DEF SignInv, MadeInv
    <3>3. QED  BY <3>1, <3>2
  <2>4. QED  BY <1>1, <1>3, <2>1, <2>2, <2>3 DEF MadeInv
<1>8. ToldInv'
  <2>1. SUFFICES ASSUME person.at = "user", session' = "live", ~stale, asking.pc = "none",
                        \A d \in calls' : ~(d.pc = "granted" /\ d.op \in {"change", "verify", "google"})
                 PROVE  person = G!User(account')
    BY <1>1 DEF ToldInv
  <2>2. session = "live"  BY <1>2, <2>1
  <2>3. \A d \in calls : ~(d.pc = "granted" /\ d.op \in {"change", "verify", "google"})
    BY <1>1, <1>3, <2>1
  <2>4. person = G!User(account)  BY <2>1, <2>2, <2>3 DEF SignInv, ToldInv
  <2>5. account.made  BY <2>1 DEF SignInv, MadeInv
  <2>6. n.pc = "granted" => n.op \notin {"change", "verify", "google"}  BY <1>3, <2>1
  <2>7. account' = account  BY <1>3, <1>4, <2>5, <2>6
  <2>8. QED  BY <2>4, <2>7
<1>9. GuardInv' /\ WayInv'  BY <1>1 DEF SignInv, GuardInv, WayInv, Pushing
<1>10. QED  BY <1>5, <1>6, <1>7, <1>8, <1>9 DEF SignInv

LEMMA SignAcceptStep ==
  ASSUME SignInv, ButtonInv, NEW c \in calls, G!Accept(c)
  PROVE  SignInv'
<1>1. /\ c.pc = "granted" /\ calls' = calls \ {c} /\ account' = account /\ where' = where
      /\ session' = CASE c.op \in G!SignIns -> "live" [] c.op = "logout" -> "none" [] OTHER -> session
      /\ says' = G!Said(c, TRUE)
      /\ going' = IF c.here THEN G!Following(c) ELSE going
      /\ bound' = CASE c.here /\ c.op \in G!SignIns -> where
                    [] c.here /\ c.op \in {"change", "reset"} -> G!Following(c)
                    [] c.op = "logout" -> going
                    [] OTHER -> bound
      /\ ahead' = IF c.here /\ c.op = "register" THEN G!Following(c) ELSE ahead
  BY DEF G!Accept
<1>2. /\ c \in G!Calls /\ c.user \in G!Known /\ c.user.at = "user" /\ c.here \in BOOLEAN
      /\ c.op \in {"login", "register", "google", "change", "logout", "verify", "resend", "forgot", "reset"}
  BY <1>1, SignTypes DEF SignInv, AnswerInv, G!Calls, G!Ops, G!SignIns
<1>3. where.to \in G!Goals /\ where \in G!Pages  BY SignTypes DEF G!Pages
<1>4. Proper(G!Following(c))
  <2>1. Proper(G!To("change", where.to)) /\ Proper(G!Page(where.to)) /\ Proper(G!Page("sent"))
        /\ Proper(G!Page("login"))
    BY <1>3, SignPages DEF G!Goals
  <2>2. Proper(going)  BY DEF SignInv, PlaceTypes
  <2>3. QED  BY <1>2, <2>1, <2>2 DEF G!Following
<1>5. says' \in {says, "verified", "failed", "sent"}  BY <1>1 DEF G!Said
<1>6. /\ Proper(going') /\ Proper(bound') /\ Proper(where') /\ ahead' \in G!Pages
      /\ going' \in G!Pages /\ bound' \in G!Pages
  <2>1. Proper(going) /\ Proper(bound) /\ Proper(where)  BY DEF SignInv, PlaceTypes
  <2>2. Proper(going') /\ Proper(bound')  BY <1>1, <1>2, <1>4, <2>1 DEF G!SignIns
  <2>3. ahead' \in G!Pages  BY <1>1, <1>4, SignTypes DEF Proper
  <2>4. Proper(where')  BY <1>1, <2>1
  <2>5. QED  BY <2>2, <2>3, <2>4 DEF Proper
<1>7. /\ \A d \in calls' : d \in calls
      /\ c.op \in G!SignIns \cup {"change"} => account.made
  BY <1>1, <1>2 DEF SignInv, MadeInv
<1>8. SUFFICES /\ person' \in G!Known /\ asking' \in [pc : {"none", "sent", "served"}, user : G!Known]
               /\ due' \in BOOLEAN /\ learnt' \in BOOLEAN /\ stale' \in BOOLEAN
               /\ session' \in {"none", "live", "dead"} /\ (session' = "live" => account.made)
               /\ person'.at = "user" => account.made
               /\ asking'.user.at = "user" => account.made
               /\ asking'.pc = "served" => asking'.user.at # "unknown"
               /\ ToldInv' /\ GuardInv' /\ WayInv'
  <2>1. SUFFICES ASSUME person' \in G!Known, asking' \in [pc : {"none", "sent", "served"}, user : G!Known],
                        due' \in BOOLEAN, learnt' \in BOOLEAN, stale' \in BOOLEAN,
                        session' \in {"none", "live", "dead"}, session' = "live" => account.made,
                        person'.at = "user" => account.made,
                        asking'.user.at = "user" => account.made,
                        asking'.pc = "served" => asking'.user.at # "unknown",
                        ToldInv', GuardInv', WayInv'
                 PROVE  SignInv'
    OBVIOUS
  <2>2. PlaceTypes'
    <3>1. calls' \subseteq G!Calls  BY <1>7, SignTypes
    <3>2. account' \in G!Rows /\ where' \in G!Pages  BY <1>1, <1>3, SignTypes
    <3>3. says' \in {"", "verifying", "verified", "failed", "sent"}
      BY <1>5 DEF SignInv, PlaceTypes, G!TypeOK
    <3>4. QED  BY <1>6, <2>1, <3>1, <3>2, <3>3 DEF PlaceTypes, G!TypeOK
  <2>3. AnswerInv'  BY <1>1, <1>7, <2>1 DEF SignInv, AnswerInv
  <2>4. MadeInv'  BY <1>1, <1>7, <2>1 DEF SignInv, MadeInv
  <2>5. QED  BY <2>1, <2>2, <2>3, <2>4 DEF SignInv
<1>9. CASE c.op \in G!SignIns \cup {"change"}
  <2>1. G!Learn(c.user) /\ asking' = asking  BY <1>9 DEF G!Accept, G!TellTab, G!SignIns
  <2>2. /\ person' = c.user /\ due' = (due \/ c.user # person \/ G!Loading)
        /\ stale' = (c.user.at = "user" /\ c.user # G!User(account))
    BY <2>1 DEF G!Learn
  <2>3. learnt' = (learnt \/ IF c.op = "change" THEN ~c.here
                             ELSE person.at = "user" /\ c.user.at = "user" /\ c.user.forced # person.forced)
    BY <2>2 DEF G!Accept, G!Otherwise, G!SignedIn
  <2>4. due' \in BOOLEAN /\ learnt' \in BOOLEAN /\ stale' \in BOOLEAN
    BY <1>2, <2>2, <2>3, SignTypes DEF G!Loading
  <2>5. session' \in {"none", "live", "dead"}  BY <1>1, <1>9, SignTypes DEF G!SignIns
  <2>6. ToldInv'  BY <1>1, <1>2, <2>2 DEF ToldInv
  <2>7. ASSUME c.here PROVE going' # where /\ WayInv'
    <3>1. /\ G!Page(where.to).at = where.to /\ G!Page(where.to).to = "home"
          /\ G!To("change", where.to).at = "change" /\ G!Page("sent").at = "sent"
      BY <1>3, SignPages DEF G!Goals
    <3>2. going' = G!Following(c)  BY <1>1, <2>7
    <3>3. CASE c.op = "change"
      <4>1. where.at = "change"  BY <2>7, <3>3 DEF SignInv, AnswerInv
      <4>2. going' = G!Page(where.to) /\ bound' = going'
        BY <1>1, <2>7, <3>2, <3>3 DEF G!Following, G!SignIns
      <4>3. going' # where
        <5>1. SUFFICES ASSUME G!Page(where.to) = where PROVE FALSE  BY <4>2
        <5>2. where.to = "change" /\ where.to = "home"  BY <3>1, <4>1, <5>1
        <5>3. QED  BY <5>2
      <4>4. QED  BY <4>2, <4>3 DEF WayInv, OnWay
    <3>4. CASE c.op \in G!SignIns
      <4>1. where.at \in GuestPages  BY <2>7, <3>4 DEF SignInv, AnswerInv
      <4>2. bound' = where  BY <1>1, <2>7, <3>4 DEF G!SignIns
      <4>3. \/ c.op = "login" /\ going' = IF c.user.forced THEN G!To("change", where.to) ELSE G!Page(where.to)
            \/ c.op = "google" /\ going' = G!Page(where.to)
            \/ c.op = "register" /\ going' = G!Page("sent") /\ ahead' = going'
        BY <1>1, <2>7, <3>2, <3>4 DEF G!Following, G!SignIns
      <4>4. going'.at \notin GuestPages
        BY <1>3, <3>1, <4>3 DEF G!Goals, GuestPages
      <4>5. c.op = "login" => going' = Led(where, c.user.forced)
        BY <4>1, <4>3 DEF Led, GuestPages
      <4>6. c.op # "google" => OnWay(going', where, ahead', c.user, learnt')
        BY <1>2, <4>1, <4>3, <4>5 DEF OnWay
      <4>7. ASSUME c.op = "google" PROVE WayInv'
        <5>1. due'
          <6>1. due \/ person.at # "user"  BY <2>7, <4>7 DEF ButtonInv
          <6>2. QED  BY <1>2, <2>2, <6>1
        <5>2. going' = G!Page(where.to) /\ where' = where /\ person' = c.user
          BY <1>1, <2>2, <4>3, <4>7
        <5>3. QED  BY <1>2, <4>1, <4>2, <5>1, <5>2 DEF WayInv, Pushing
      <4>8. QED  BY <2>2, <4>1, <4>2, <4>4, <4>6, <4>7 DEF WayInv
    <3>5. QED  BY <1>9, <3>3, <3>4
  <2>8. ASSUME ~c.here PROVE GuardInv' /\ WayInv'
    <3>1. going' = going /\ ahead' = ahead  BY <1>1, <2>8
    <3>2. bound' = bound  BY <1>1, <1>9, <2>8 DEF G!SignIns
    <3>3. GuardInv'  BY <1>1, <2>1, <3>1, SignToldKeeps
    <3>4. /\ learnt => learnt'
          /\ person.at = "user" /\ c.user.forced # person.forced => learnt'
      BY <1>2, <2>3, <2>8
    <3>5. OnWay(going, bound, ahead, c.user, learnt') \/ Pushing(c.user)
      BY <1>2, <2>4, <3>4, SignToldWay
    <3>6. QED  BY <1>1, <2>2, <3>1, <3>2, <3>3, <3>5 DEF WayInv, Pushing
  <2>9. GuardInv' /\ WayInv'
    <3>1. CASE c.here  BY <1>1, <2>7, <3>1 DEF GuardInv
    <3>2. CASE ~c.here  BY <2>8, <3>2
    <3>3. QED  BY <3>1, <3>2
  <2>10. asking.user.at = "user" => account.made  BY DEF SignInv, MadeInv
  <2>11. asking.pc = "served" => asking.user.at # "unknown"  BY DEF SignInv, AnswerInv
  <2>12. QED
    BY <1>2, <1>7, <1>9, <2>1, <2>2, <2>4, <2>5, <2>6, <2>9, <2>10, <2>11, SignTypes
<1>10. CASE c.op = "logout"
  <2>1. G!Learn(G!Unknown) /\ asking' = G!NotAsking  BY <1>10 DEF G!Accept, G!TellTab, G!SignIns
  <2>2. /\ person' = G!Unknown /\ due' = (due \/ G!Unknown # person \/ G!Loading)
        /\ stale' = (G!Unknown.at = "user" /\ G!Unknown # G!User(account))
    BY <2>1 DEF G!Learn
  <2>3. person' \in G!Known /\ person'.at = "unknown"  BY <2>2, SignKnown
  <2>4. asking' \in [pc : {"none", "sent", "served"}, user : G!Known] /\ asking'.pc = "none"
        /\ asking'.user.at = "unknown"
    BY <2>1, SignKnown DEF G!NotAsking
  <2>5. due' \in BOOLEAN /\ stale' \in BOOLEAN  BY <2>2, SignTypes DEF G!Loading
  <2>6. learnt' \in BOOLEAN  BY <1>10, SignTypes DEF G!Accept, G!Otherwise, G!SignedIn
  <2>7. going' = going /\ bound' = going  BY <1>1, <1>10 DEF G!Following, G!SignIns
  <2>8. session' = "none"  BY <1>1, <1>10 DEF G!SignIns
  <2>9. GuardInv'  BY <1>1, <2>1, <2>7, SignToldKeeps
  <2>10. WayInv'  BY <2>7 DEF WayInv, OnWay
  <2>11. ToldInv'  BY <2>3 DEF ToldInv
  <2>12. QED  BY <2>3, <2>4, <2>5, <2>6, <2>8, <2>9, <2>10, <2>11
<1>11. CASE c.op \in {"verify", "resend", "forgot", "reset"}
  <2>1. session' = session  BY <1>1, <1>11 DEF G!SignIns
  <2>2. session \in {"none", "live", "dead"} /\ (session = "live" => account.made)
        /\ (person.at = "user" => account.made) /\ (asking.user.at = "user" => account.made)
        /\ (asking.pc = "served" => asking.user.at # "unknown")
    BY SignTypes DEF SignInv, MadeInv, AnswerInv
  <2>3. learnt' = (learnt \/ G!Otherwise(person'))  BY <1>11 DEF G!Accept
  <2>4. CASE c.op = "verify" /\ session # "none" /\ person.at # "unknown"
    <3>1. /\ asking' = G!Sent
          /\ IF person.at = "user" THEN UNCHANGED <<person, due, stale>> ELSE G!Learn(G!Unknown)
      BY <2>4 DEF G!Accept, G!TellTab, G!SignIns, G!Marker, G!SignedIn
    <3>2. asking' \in [pc : {"none", "sent", "served"}, user : G!Known] /\ asking'.pc = "sent"
          /\ asking'.user.at = "unknown"
      BY <3>1, SignKnown DEF G!Sent
    <3>3. going' = going /\ bound' = bound /\ ahead' = ahead
      BY <1>1, <2>4 DEF G!Following, G!SignIns
    <3>4. ToldInv'  BY <3>2 DEF ToldInv
    <3>5. CASE person.at = "user"
      <4>1. person' = person /\ due' = due /\ stale' = stale  BY <3>1, <3>5
      <4>2. learnt' = learnt  BY <2>3, <4>1, SignTypes DEF G!Otherwise
      <4>3. GuardInv'  BY <1>1, <3>3, <3>5, <4>1 DEF SignInv, GuardInv, Stays
      <4>4. WayInv'  BY <1>1, <3>3, <4>1, <4>2 DEF SignInv, WayInv, Pushing
      <4>5. QED  BY <2>1, <2>2, <3>2, <3>4, <4>1, <4>2, <4>3, <4>4, SignTypes
    <3>6. CASE person.at # "user"
      <4>1. G!Learn(G!Unknown)  BY <3>1, <3>6
      <4>2. /\ person' = G!Unknown /\ due' = (due \/ G!Unknown # person \/ G!Loading)
            /\ stale' = (G!Unknown.at = "user" /\ G!Unknown # G!User(account))
        BY <4>1 DEF G!Learn
      <4>3. person' \in G!Known /\ person'.at = "unknown" /\ due' \in BOOLEAN /\ stale' \in BOOLEAN
        BY <4>2, SignKnown, SignTypes DEF G!Loading
      <4>4. learnt' = learnt  BY <2>3, <3>6, SignTypes DEF G!Otherwise, G!SignedIn
      <4>5. GuardInv'  BY <1>1, <3>1, <3>3, <4>1, SignToldKeeps
      <4>6. OnWay(going, bound, ahead, person', learnt) \/ Pushing(person')
        BY <3>6, <4>3, SignToldWay, SignTypes
      <4>7. WayInv'  BY <3>3, <4>3, <4>4, <4>6 DEF WayInv, Pushing
      <4>8. QED  BY <2>1, <2>2, <3>2, <3>4, <4>3, <4>4, <4>5, <4>7, SignTypes
    <3>7. QED  BY <3>5, <3>6
  <2>5. CASE ~(c.op = "verify" /\ session # "none" /\ person.at # "unknown")
    <3>1. UNCHANGED <<person, due, stale, asking>>
      BY <1>11, <2>5 DEF G!Accept, G!TellTab, G!SignIns, G!Marker
    <3>2. learnt' = learnt  BY <2>3, <3>1, SignTypes DEF G!Otherwise
    <3>3. ToldInv'
      <4>1. \A d \in calls : d.op \in {"change", "verify", "google"} /\ session = "live" /\ person.at = "user"
                                => d \in calls'
        BY <1>1, <1>11, <2>5
      <4>2. QED  BY <1>1, <2>1, <3>1, <4>1 DEF SignInv, ToldInv
    <3>4. CASE c.here /\ c.op = "reset"
      <4>1. where.at = "reset"  BY <3>4 DEF SignInv, AnswerInv
      <4>2. going' = G!Page("login") /\ bound' = going'
        BY <1>1, <3>4 DEF G!Following, G!SignIns
      <4>3. G!Page("login").at = "login"  BY SignPages
      <4>4. going' # where'  BY <1>1, <4>1, <4>2, <4>3
      <4>5. GuardInv' /\ WayInv'  BY <4>2, <4>4 DEF GuardInv, WayInv, OnWay
      <4>6. QED  BY <2>1, <2>2, <3>1, <3>2, <3>3, <4>5, SignTypes
    <3>5. CASE ~(c.here /\ c.op = "reset")
      <4>1. going' = going /\ bound' = bound /\ ahead' = ahead
        BY <1>1, <1>11, <3>5 DEF G!Following, G!SignIns
      <4>2. GuardInv' /\ WayInv'
        BY <1>1, <3>1, <3>2, <4>1 DEF SignInv, GuardInv, WayInv, Pushing
      <4>3. QED  BY <2>1, <2>2, <3>1, <3>2, <3>3, <4>2, SignTypes
    <3>6. QED  BY <3>4, <3>5
  <2>6. QED  BY <2>4, <2>5
<1>12. QED  BY <1>2, <1>9, <1>10, <1>11 DEF G!SignIns

LEMMA SignGiveUp ==
  ASSUME SignInv, NEW c \in calls, G!GiveUp(c)
  PROVE  SignInv'
<1>1. /\ calls' = calls \ {c} /\ says' = G!Said(c, FALSE)
      /\ UNCHANGED <<account, session, where, going, ahead, learnt>>
  BY DEF G!GiveUp
<1>2. says' \in {says, "verified", "failed", "sent"}  BY <1>1 DEF G!Said
<1>3. c \in G!Calls /\ \A d \in calls' : d \in calls  BY <1>1, SignTypes
<1>4. CASE c.op = "logout"
  <2>1. G!Learn(G!Unknown) /\ asking' \in {G!Sent, G!NotAsking} /\ bound' = going
    BY <1>4 DEF G!GiveUp
  <2>2. /\ person' = G!Unknown /\ due' = (due \/ G!Unknown # person \/ G!Loading)
        /\ stale' = (G!Unknown.at = "user" /\ G!Unknown # G!User(account))
    BY <2>1 DEF G!Learn
  <2>3. person' \in G!Known /\ person'.at = "unknown" /\ due' \in BOOLEAN /\ stale' \in BOOLEAN
    BY <2>2, SignKnown, SignTypes DEF G!Loading
  <2>4. asking' \in [pc : {"none", "sent", "served"}, user : G!Known] /\ asking'.pc # "served"
        /\ asking'.user.at = "unknown"
    BY <2>1, SignKnown DEF G!NotAsking, G!Sent
  <2>5. PlaceTypes'  BY <1>1, <1>2, <2>1, <2>3, <2>4 DEF SignInv, PlaceTypes, G!TypeOK, Proper
  <2>6. AnswerInv'  BY <1>1, <2>4 DEF SignInv, AnswerInv
  <2>7. MadeInv'  BY <1>1, <2>3, <2>4 DEF SignInv, MadeInv
  <2>8. ToldInv'  BY <2>3 DEF ToldInv
  <2>9. GuardInv'  BY <1>1, <2>1, SignToldKeeps
  <2>10. WayInv'  BY <1>1, <2>1 DEF WayInv, OnWay
  <2>11. QED  BY <2>5, <2>6, <2>7, <2>8, <2>9, <2>10 DEF SignInv
<1>5. CASE c.op # "logout"
  <2>1. /\ stale' = (stale \/ (c.pc = "granted" /\ c.op \in {"change", "verify", "google"}))
        /\ UNCHANGED <<person, due, asking, bound>>
    BY <1>5 DEF G!GiveUp
  <2>2. stale' \in BOOLEAN  BY <2>1, SignTypes
  <2>3. PlaceTypes'  BY <1>1, <1>2, <2>1, <2>2 DEF SignInv, PlaceTypes, G!TypeOK, Proper
  <2>4. AnswerInv'  BY <1>1, <2>1 DEF SignInv, AnswerInv
  <2>5. MadeInv'  BY <1>1, <2>1 DEF SignInv, MadeInv
  <2>6. ToldInv'
    <3>1. ~stale' => \A d \in calls : d.pc = "granted" /\ d.op \in {"change", "verify", "google"} => d \in calls'
      BY <1>1, <2>1
    <3>2. ~stale' => ~stale  BY <2>1
    <3>3. QED  BY <1>1, <2>1, <3>1, <3>2 DEF SignInv, ToldInv
  <2>7. GuardInv' /\ WayInv'  BY <1>1, <2>1 DEF SignInv, GuardInv, WayInv, Pushing
  <2>8. QED  BY <2>3, <2>4, <2>5, <2>6, <2>7 DEF SignInv
<1>6. QED  BY <1>4, <1>5

LEMMA SignOutStep ==
  ASSUME SignInv,
         G!StudioRefused \/ \E c \in calls : G!Refuse(c) \/ G!Lose(c)
  PROVE  SignInv'
<1>1. G!Load(G!Page("login"), {}) \/ \E c \in calls : G!GiveUp(c)
  BY DEF G!StudioRefused, G!Refuse, G!Lose
<1>2. Proper(G!Page("login"))  BY SignPages
<1>3. G!Load(G!Page("login"), {}) => SignInv'  BY <1>2, SignLoad
<1>4. QED  BY <1>1, <1>3, SignGiveUp

LEMMA SignElsewhereStep ==
  ASSUME SignInv, G!Elsewhere
  PROVE  SignInv'
<1>1. /\ stale' = TRUE
      /\ UNCHANGED <<person, asking, where, going, due, says, calls, bound, ahead, learnt>>
  BY DEF G!Elsewhere
<1>2. /\ account' \in G!Rows /\ account'.made = account.made
      /\ session' \in {"none", "live", "dead"} /\ (session' = "live" => session = "live")
  <2>1. account \in G!Rows /\ session \in {"none", "live", "dead"}  BY SignTypes
  <2>2. /\ [account EXCEPT !.forced = FALSE] \in G!Rows /\ [account EXCEPT !.forced = FALSE].made = account.made
        /\ [account EXCEPT !.verified = TRUE] \in G!Rows /\ [account EXCEPT !.verified = TRUE].made = account.made
    BY <2>1 DEF G!Rows
  <2>3. \/ session' \in {"dead", "none"} /\ account' = account
        \/ /\ session' = session
           /\ account' \in {[account EXCEPT !.forced = FALSE], [account EXCEPT !.verified = TRUE]}
    BY DEF G!Elsewhere
  <2>4. QED  BY <2>1, <2>2, <2>3
<1>3. PlaceTypes'  BY <1>1, <1>2 DEF SignInv, PlaceTypes, G!TypeOK, Proper
<1>4. AnswerInv'  BY <1>1 DEF SignInv, AnswerInv
<1>5. MadeInv'  BY <1>1, <1>2 DEF SignInv, MadeInv
<1>6. ToldInv'  BY <1>1 DEF ToldInv
<1>7. GuardInv' /\ WayInv'  BY <1>1 DEF SignInv, GuardInv, WayInv, Pushing
<1>8. QED  BY <1>3, <1>4, <1>5, <1>6, <1>7 DEF SignInv

LEMMA SignStarts ==
  ASSUME G!Init
  PROVE  SignInv
<1>1. /\ person = G!Unknown /\ asking \in {G!Sent, G!NotAsking}
      /\ where = G!Page("home") /\ going = where /\ bound = where
      /\ due = TRUE /\ says = "" /\ calls = {} /\ ahead = where /\ learnt = FALSE /\ stale = FALSE
  BY DEF G!Init
<1>2. account \in G!Rows /\ session \in {"none", "live", "dead"} /\ (session = "live" => account.made)
  <2>1. G!NoRow \in G!Rows /\ \A f \in BOOLEAN, v \in BOOLEAN : G!Row(f, v) \in G!Rows
    BY DEF G!NoRow, G!Row, G!Rows
  <2>2. account \in {G!NoRow, G!Row(FALSE, FALSE), G!Row(TRUE, TRUE)}
        /\ session \in IF account.made THEN {"none", "live", "dead"} ELSE {"none"}
    BY DEF G!Init
  <2>3. account \in G!Rows  BY <2>1, <2>2
  <2>4. CASE account.made  BY <2>2, <2>3, <2>4
  <2>5. CASE ~account.made  BY <2>2, <2>3, <2>5
  <2>6. QED  BY <2>4, <2>5
<1>3. person \in G!Known /\ person.at = "unknown"  BY <1>1, SignKnown
<1>4. asking \in [pc : {"none", "sent", "served"}, user : G!Known] /\ asking.pc # "served"
      /\ asking.user.at = "unknown"
  <2>1. asking = [pc |-> "sent", user |-> G!Unknown] \/ asking = [pc |-> "none", user |-> G!Unknown]
    BY <1>1 DEF G!NotAsking, G!Sent
  <2>2. G!Unknown \in G!Known /\ G!Unknown.at = "unknown"  BY SignKnown
  <2>3. QED  BY <2>1, <2>2
<1>5. Proper(where) /\ where \in G!Pages  BY <1>1, SignPages DEF Proper
<1>6. PlaceTypes  BY <1>1, <1>2, <1>3, <1>4, <1>5 DEF PlaceTypes, G!TypeOK
<1>7. AnswerInv  BY <1>1, <1>4 DEF AnswerInv
<1>8. MadeInv  BY <1>1, <1>2, <1>3, <1>4 DEF MadeInv
<1>9. ToldInv  BY <1>3 DEF ToldInv
<1>10. GuardInv /\ WayInv  BY <1>1 DEF GuardInv, WayInv, OnWay
<1>11. QED  BY <1>6, <1>7, <1>8, <1>9, <1>10 DEF SignInv

LEMMA SignStep ==
  ASSUME SignInv, ButtonInv, G!Next
  PROVE  SignInv'
BY SignVisitStep, SignClickStep, SignArriveStep, SignGuardStep, SignMeServedStep, SignMeAnsweredStep,
   SignMeLostStep, SignAskAgainStep, SignSubmitStep, SignServeStep, SignAcceptStep, SignOutStep,
   SignElsewhereStep DEF G!Next

\* A tab that is told m has its page's effects to come, or knew m already.
LEMMA SignButtonTold ==
  ASSUME ButtonInv, NEW m, G!Learn(m), calls' \subseteq calls
  PROVE  ButtonInv'
<1>1. person' = m /\ due' = (due \/ m # person \/ G!Loading)  BY DEF G!Learn
<1>2. QED  BY <1>1 DEF ButtonInv

LEMMA SignButtonKept ==
  ASSUME ButtonInv, UNCHANGED <<person, due>>,
         \A d \in calls' : d.here /\ d.op = "google" => \E c \in calls : c.here /\ c.op = "google"
  PROVE  ButtonInv'
BY DEF ButtonInv

LEMMA SignButtonStep ==
  ASSUME SignInv, ButtonInv, G!Next
  PROVE  ButtonInv'
<1>1. ASSUME NEW p, NEW b, G!Load(p, b), \A c \in b : c.op # "google" PROVE ButtonInv'
  BY <1>1 DEF G!Load, ButtonInv
<1>2. ASSUME NEW p, NEW right, G!Visit(p, right) PROVE ButtonInv'
  <2>1. G!Call("verify", right).op # "google"  BY DEF G!Call
  <2>2. G!Load(p, IF p.at = "verify" THEN {G!Call("verify", right)} ELSE {})
    BY <1>2 DEF G!Visit
  <2>3. QED  BY <1>1, <2>1, <2>2
<1>3. ASSUME NEW p, G!Click(p) PROVE ButtonInv'
  BY <1>3, SignButtonKept DEF G!Click
<1>4. CASE G!Arrive  BY <1>4 DEF G!Arrive, ButtonInv
<1>5. CASE G!Guard
  <2>1. /\ person' = person
        /\ calls' = {IF c.op = "google" /\ where.at \in {"login", "register"} /\ ~G!Guest
                     THEN [c EXCEPT !.here = FALSE] ELSE c : c \in calls}
    BY <1>5 DEF G!Guard
  <2>2. SUFFICES ASSUME NEW d \in calls', d.here, d.op = "google", person.at = "user"
                 PROVE  FALSE
    BY <2>1 DEF ButtonInv
  <2>3. ~G!Guest  BY <2>2 DEF G!Guest, G!SignedIn
  <2>4. PICK c \in calls : d = IF c.op = "google" /\ where.at \in {"login", "register"} /\ ~G!Guest
                               THEN [c EXCEPT !.here = FALSE] ELSE c
    BY <2>1
  <2>5. c \in G!Calls  BY SignTypes
  <2>6. d = c  BY <2>2, <2>4, <2>5 DEF G!Calls
  <2>7. where.at \in {"login", "register"}
    BY <2>2, <2>6 DEF SignInv, AnswerInv, G!SignIns, GuestPages
  <2>8. QED  BY <2>2, <2>3, <2>4, <2>5, <2>6, <2>7 DEF G!Calls
<1>6. CASE G!MeServed  BY <1>6, SignButtonKept DEF G!MeServed
<1>7. CASE G!MeAnswered
  BY <1>7, SignButtonKept, SignButtonTold DEF G!MeAnswered
<1>8. CASE G!MeLost
  BY <1>8, SignButtonKept, SignButtonTold DEF G!MeLost
<1>9. CASE G!AskAgain
  BY <1>9 DEF G!AskAgain, ButtonInv, G!SignedIn
<1>10. ASSUME NEW op, NEW right, G!Submit(op, right) PROVE ButtonInv'
  <2>1. G!Call(op, right).op = op  BY DEF G!Call
  <2>2. op = "google" => person.at # "user"
    BY <1>10 DEF G!Submit, G!Offered, G!Guest, G!SignedIn, G!SignIns
  <2>3. calls' = calls \cup {G!Call(op, right)} /\ UNCHANGED <<person, due>>
    BY <1>10 DEF G!Submit
  <2>4. QED  BY <2>1, <2>2, <2>3 DEF ButtonInv
<1>11. ASSUME NEW c \in calls, G!Serve(c) PROVE ButtonInv'
  <2>1. c \in G!Calls  BY SignTypes
  <2>2. \A u : /\ [c EXCEPT !.pc = "granted", !.user = u].here = c.here
               /\ [c EXCEPT !.pc = "granted", !.user = u].op = c.op
               /\ [c EXCEPT !.pc = "refused"].here = c.here
               /\ [c EXCEPT !.pc = "refused"].op = c.op
    BY <2>1 DEF G!Calls
  <2>3. /\ \E u : calls' \in {(calls \ {c}) \cup {[c EXCEPT !.pc = "refused"]},
                              (calls \ {c}) \cup {[c EXCEPT !.pc = "granted", !.user = u]}}
        /\ UNCHANGED <<person, due>>
    BY <1>11 DEF G!Serve
  <2>4. QED  BY <2>2, <2>3, SignButtonKept
<1>12. ASSUME NEW c \in calls, G!Accept(c) PROVE ButtonInv'
  <2>1. calls' \subseteq calls /\ G!TellTab(c)  BY <1>12 DEF G!Accept
  <2>2. (\E m : G!Learn(m)) \/ UNCHANGED <<person, due>>  BY <2>1 DEF G!TellTab
  <2>3. QED  BY <2>1, <2>2, SignButtonTold, SignButtonKept
<1>13. ASSUME NEW c \in calls, G!GiveUp(c) PROVE ButtonInv'
  BY <1>13, SignButtonTold, SignButtonKept DEF G!GiveUp
<1>14. ASSUME G!StudioRefused \/ \E c \in calls : G!Refuse(c) \/ G!Lose(c) PROVE ButtonInv'
  BY <1>1, <1>13, <1>14 DEF G!StudioRefused, G!Refuse, G!Lose
<1>15. CASE G!Elsewhere  BY <1>15, SignButtonKept DEF G!Elsewhere
<1>16. QED
  BY <1>2, <1>3, <1>4, <1>5, <1>6, <1>7, <1>8, <1>9, <1>10, <1>11, <1>12, <1>14, <1>15 DEF G!Next

LEMMA SignAlways == PagesSpec => []SignInv
<1>1. PagesInit => SignInv /\ ButtonInv
  <2>1. G!Init => ButtonInv  BY DEF G!Init, ButtonInv
  <2>2. QED  BY <2>1, SignStarts DEF PagesInit, NoSignIn
<1>2. SignInv /\ ButtonInv /\ [PagesNext]_<<part, vars, listVars, composerVars, playerVars, signInVars>>
      => SignInv' /\ ButtonInv'
  <2>1. ASSUME SignInv, ButtonInv, UNCHANGED signInVars PROVE SignInv' /\ ButtonInv'
    BY <2>1 DEF signInVars, SignInv, PlaceTypes, G!TypeOK, AnswerInv, MadeInv, ToldInv, GuardInv, WayInv,
                Pushing, ButtonInv
  <2>2. QED  BY <2>1, SignStep, SignButtonStep DEF PagesNext
<1>3. QED  BY <1>1, <1>2, PTL DEF PagesSpec

LEMMA SignEnds ==
  ASSUME SignInv
  PROVE  G!EndsUpRight
<1>1. SUFFICES ASSUME calls = {}, going = where, ~due, asking.pc = "none"
               PROVE  /\ \/ where = G!Due(bound, person.forced)
                         \/ /\ person.at = "user" /\ where = ahead
                            /\ where.at \notin {"studio", "login", "register"}
                         \/ learnt /\ where = G!Due(bound, ~person.forced)
                      /\ person.at = "user" /\ session = "live" /\ ~stale => person = G!User(account)
  BY DEF G!EndsUpRight, G!AtRest, G!SignedIn
<1>2. person.at = "user" /\ session = "live" /\ ~stale => person = G!User(account)
  BY <1>1 DEF SignInv, ToldInv
<1>3. Stays(where, person, asking) /\ OnWay(where, bound, ahead, person, learnt)
  BY <1>1 DEF SignInv, GuardInv, WayInv, Pushing
<1>4. CASE person.at = "user"
  <2>1. \A f \in BOOLEAN : G!Due(bound, f) = Led(bound, f)
    BY <1>4 DEF G!Due, Led, GuestPages, G!SignedIn
  <2>2. person.forced \in BOOLEAN /\ (~person.forced) \in BOOLEAN  BY SignTypes
  <2>3. G!Due(bound, person.forced) = Led(bound, person.forced)
        /\ G!Due(bound, ~person.forced) = Led(bound, ~person.forced)
    BY <2>1, <2>2
  <2>4. where # G!To("login", "studio")
    <3>1. G!To("login", "studio").at = "login"  BY SignPages DEF G!Goals
    <3>2. QED  BY <1>3, <1>4, <3>1 DEF Stays, GuestPages
  <2>5. where = bound => where = Led(bound, person.forced)
    BY <1>3, <1>4 DEF Stays, Led
  <2>6. where.at \notin GuestPages  BY <1>3, <1>4 DEF Stays
  <2>7. ASSUME where = ahead, where.at = "studio", bound.at \in GuestPages, where = G!Page(bound.to)
        PROVE  where = Led(bound, person.forced)
    BY <1>3, <1>4, <2>7 DEF Stays, Led, GuestPages
  <2>8. where.at = "studio" => where # G!Page("sent")
    <3>1. G!Page("sent").at = "sent"  BY SignPages
    <3>2. QED  BY <3>1
  <2>9. QED  BY <1>2, <1>3, <1>4, <2>3, <2>4, <2>5, <2>6, <2>7, <2>8 DEF OnWay, GuestPages
<1>5. CASE person.at # "user"
  <2>1. where.at \notin {"studio", "change"}  BY <1>1, <1>3, <1>5 DEF Stays
  <2>2. where = bound \/ (bound.at = "studio" /\ where = G!To("login", "studio"))
    BY <1>3, <1>5 DEF OnWay
  <2>3. where = G!Due(bound, person.forced)
    <3>1. CASE bound.at = "studio"
      <4>1. where = G!To("login", "studio")  BY <2>1, <2>2, <3>1
      <4>2. QED  BY <1>5, <3>1, <4>1 DEF G!Due, G!SignedIn
    <3>2. CASE bound.at # "studio"
      BY <1>5, <2>1, <2>2, <3>2 DEF G!Due, G!SignedIn
    <3>3. QED  BY <3>1, <3>2
  <2>4. QED  BY <1>2, <2>3
<1>6. QED  BY <1>4, <1>5

\* Of SignIn.tla: the person ends up where they wanted to be, known for who they are.
THEOREM PeopleEndUpRight == PagesSpec => []EndsUpRight
<1>1. SignInv => EndsUpRight  BY SignEnds DEF EndsUpRight
<1>2. QED  BY <1>1, SignAlways, PTL

\* Every variable of every page has its type.
THEOREM PagesTypes == PagesSpec => []TypesOK
<1>1. FormInv /\ ListInv /\ ComposerInv /\ PlayerInv /\ SignInv => TypesOK
  BY DEF FormInv, ListInv, ComposerInv, PlayerInv, SignInv, PlaceTypes, TypesOK
<1>2. QED  BY <1>1, FormAlways, ListAlways, ComposerAlways, PlayerAlways, SignAlways, PTL
===============================================================================
