------------------------------ MODULE Broadcast ------------------------------
(***************************************************************************)
(* What one campaign send promises, whatever else happens around it: the   *)
(* audience is fixed when mailing starts, nobody outside it is mailed,     *)
(* nobody in it is mailed twice by the same send, and the send is closed   *)
(* only when everybody in it has been mailed.  A send may be aborted (the  *)
(* process dies, the database fails, the campaign row disappears); an      *)
(* aborted send is never resumed.                                          *)
(*                                                                         *)
(* CampaignSenderService.run (Newsletter.tla) implements this module.      *)
(***************************************************************************)
EXTENDS Naturals

CONSTANTS
    Sends,      \* the sends that may ever be started
    Emails      \* addresses

VARIABLES
    phase,      \* [Sends -> Phases]
    audience,   \* [Sends -> SUBSET Emails]
    mailed      \* [Sends -> [Emails -> Nat]], copies handed to the mail provider

bvars == <<phase, audience, mailed>>

Phases == {"waiting", "open", "closed", "aborted"}

Init ==
    /\ phase = [s \in Sends |-> "waiting"]
    /\ audience = [s \in Sends |-> {}]
    /\ mailed = [s \in Sends |-> [e \in Emails |-> 0]]

\* The audience is decided once, before the first message leaves.
Open(s) ==
    /\ phase[s] = "waiting"
    /\ phase' = [phase EXCEPT ![s] = "open"]
    /\ \E A \in SUBSET Emails : audience' = [audience EXCEPT ![s] = A]
    /\ UNCHANGED mailed

\* A batch of messages leaves together; each is a first copy.
Mail(s) ==
    /\ phase[s] = "open"
    /\ \E B \in SUBSET audience[s] :
        /\ \A e \in B : mailed[s][e] = 0
        /\ mailed' = [mailed EXCEPT ![s] =
                        [e \in Emails |-> IF e \in B THEN 1 ELSE mailed[s][e]]]
    /\ UNCHANGED <<phase, audience>>

Close(s) ==
    /\ phase[s] = "open"
    /\ \A e \in audience[s] : mailed[s][e] = 1
    /\ phase' = [phase EXCEPT ![s] = "closed"]
    /\ UNCHANGED <<audience, mailed>>

\* A process crash aborts every send that is under way, a fault only one.
Abort ==
    /\ \E S \in SUBSET Sends :
        /\ \A s \in S : phase[s] \in {"waiting", "open"}
        /\ phase' = [s \in Sends |-> IF s \in S THEN "aborted" ELSE phase[s]]
    /\ UNCHANGED <<audience, mailed>>

Next ==
    \/ \E s \in Sends : Open(s) \/ Mail(s) \/ Close(s)
    \/ Abort

Spec == Init /\ [][Next]_bvars
==============================================================================
