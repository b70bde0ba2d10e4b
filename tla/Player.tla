--------------------------------- MODULE Player --------------------------------
(***************************************************************************)
(* "Listen to this article" (ArticleAudio): its buttons, its heartbeat,    *)
(* and the browser's speech engine, which answers with events some time    *)
(* later and outlives the page.                                            *)
(***************************************************************************)
EXTENDS Naturals, FiniteSets, Sequences

CONSTANTS
    Rates,          \* RATES
    MaxClicks       \* bound: clicks, leaving the page among them

VARIABLES
    mounted,        \* the player is on the page
    playing, paused, rate,      \* its state, as it is shown
    heartbeat,      \* heartbeat.current, 0 for null
    intervals,      \* intervals that tick, by number
    engine,         \* window.speechSynthesis: its utterance, and whether it is paused
    events,         \* events of utterances on their way to their handlers
    clicks,         \* clicks so far
    raced           \* history: a click fell between a request and its event

page == <<mounted, playing, paused, rate>>
beat == <<heartbeat, intervals>>
vars == <<page, beat, engine, events, clicks, raced>>

Engines == [at : {"idle", "queued", "speaking"}, rate : Rates \cup {0}, paused : BOOLEAN]

TypeOK ==
    /\ mounted \in BOOLEAN /\ playing \in BOOLEAN /\ paused \in BOOLEAN /\ rate \in Rates
    /\ intervals \subseteq Nat \ {0} /\ heartbeat \in Nat
    /\ engine \in Engines /\ events \in Seq({"start", "over"})

\* The page before may have left the engine paused.
Init ==
    /\ mounted = TRUE /\ playing = FALSE /\ paused = FALSE /\ rate \in Rates
    /\ heartbeat = 0 /\ intervals = {}
    /\ engine \in [at : {"idle"}, rate : {0}, paused : BOOLEAN]
    /\ events = <<>> /\ clicks = 0 /\ raced = FALSE

-------------------------------------------------------------------------------
(* The page *)

StopHeartbeat == heartbeat' = 0 /\ intervals' = intervals \ {heartbeat}

Unused(live) == CHOOSE n \in 1..Cardinality(live) + 1 : n \notin live

\* setInterval, beside those that are live.
Beat(live) == heartbeat' = Unused(live) /\ intervals' = live \cup {Unused(live)}

\* cancel(): an utterance that has not ended gets its last event.  The engine stays paused.
Cancelled == IF engine.at = "idle" THEN events ELSE Append(events, "over")

Speak(r) ==
    /\ events' = Cancelled
    /\ engine' = [engine EXCEPT !.at = "queued", !.rate = r]

Click ==
    /\ clicks < MaxClicks /\ clicks' = clicks + 1
    /\ raced' = (raced \/ events # <<>> \/ engine.at = "queued")

Play ==
    /\ mounted /\ ~playing /\ Click
    /\ Speak(rate)
    /\ UNCHANGED <<page, beat>>

Resume ==
    /\ mounted /\ playing /\ paused /\ Click
    /\ engine' = [engine EXCEPT !.paused = FALSE]
    /\ paused' = FALSE /\ Beat(intervals)
    /\ UNCHANGED <<mounted, playing, rate, events>>

Pause ==
    /\ mounted /\ playing /\ ~paused /\ Click
    /\ engine' = [engine EXCEPT !.paused = TRUE]
    /\ paused' = TRUE /\ StopHeartbeat
    /\ UNCHANGED <<mounted, playing, rate, events>>

Stop ==
    /\ mounted /\ playing /\ Click
    /\ StopHeartbeat
    /\ events' = Cancelled /\ engine' = [engine EXCEPT !.at = "idle", !.rate = 0]
    /\ playing' = FALSE /\ paused' = FALSE
    /\ UNCHANGED <<mounted, rate>>

\* What is being read begins again, at the new rate.
ChangeRate(r) ==
    /\ mounted /\ Click
    /\ rate' = r
    /\ IF playing THEN Speak(r) ELSE UNCHANGED <<events, engine>>
    /\ UNCHANGED <<mounted, playing, paused, beat>>

\* The cleanup of the effect.
Leave ==
    /\ mounted /\ Click
    /\ mounted' = FALSE /\ playing' = FALSE /\ paused' = FALSE
    /\ intervals' = intervals \ {heartbeat} /\ UNCHANGED heartbeat
    /\ events' = Cancelled /\ engine' = [engine EXCEPT !.at = "idle", !.rate = 0]
    /\ UNCHANGED rate

-------------------------------------------------------------------------------
(* The engine and its events *)

Begin ==
    /\ engine.at = "queued" /\ ~engine.paused
    /\ engine' = [engine EXCEPT !.at = "speaking"]
    /\ events' = Append(events, "start")
    /\ UNCHANGED <<page, beat, clicks, raced>>

\* The end of the text, or an error.
Finish ==
    /\ engine.at = "speaking" /\ ~engine.paused
    /\ engine' = [engine EXCEPT !.at = "idle", !.rate = 0]
    /\ events' = Append(events, "over")
    /\ UNCHANGED <<page, beat, clicks, raced>>

\* onstart
Started ==
    /\ events # <<>> /\ Head(events) = "start" /\ events' = Tail(events)
    /\ Beat(intervals \ {heartbeat})
    /\ IF mounted THEN playing' = TRUE /\ paused' = FALSE ELSE UNCHANGED <<playing, paused>>
    /\ UNCHANGED <<mounted, rate, engine, clicks, raced>>

\* Mutant: the heartbeat goes on.
OverOnly ==
    /\ events # <<>> /\ Head(events) = "over" /\ events' = Tail(events)
    /\ playing' = FALSE /\ paused' = FALSE
    /\ UNCHANGED <<mounted, rate, beat, engine, clicks, raced>>

\* onend and onerror, of whichever utterance
Over ==
    /\ events # <<>> /\ Head(events) = "over" /\ events' = Tail(events)
    /\ StopHeartbeat
    /\ playing' = FALSE /\ paused' = FALSE
    /\ UNCHANGED <<mounted, rate, engine, clicks, raced>>

\* pause() and resume(), every ten seconds.
Tick ==
    /\ intervals # {}
    /\ engine' = [engine EXCEPT !.paused = FALSE]
    /\ UNCHANGED <<page, beat, events, clicks, raced>>

Next ==
    \/ Play \/ Resume \/ Pause \/ Stop \/ Leave
    \/ \E r \in Rates : ChangeRate(r)
    \/ Begin \/ Finish \/ Started \/ Over \/ Tick

Spec == Init /\ [][Next]_vars

-------------------------------------------------------------------------------
(* Properties *)

Settled == events = <<>> /\ engine.at # "queued"

\* "keep busy while actively playing" (article-audio.tsx:15): one heartbeat while the
\* player plays, none otherwise, also after the page is left; and at rest the player
\* shows what the engine does, unless a click fell between a request and its event.
PlayerIsHonest ==
    /\ Cardinality(intervals) <= 1
    /\ Settled => intervals = IF playing /\ ~paused THEN {heartbeat} ELSE {}
    /\ Settled /\ mounted /\ ~raced =>
        /\ playing = (engine.at = "speaking")
        /\ playing => paused = engine.paused /\ rate = engine.rate

\* The words alone: what Play or another rate asks for is heard, sooner or later.
PlayIsHeard == engine.at = "queued" => ~engine.paused \/ intervals # {}
===============================================================================
