------------------------------- MODULE Sessions -------------------------------
(***************************************************************************)
(* The session of one account: the refresh_token column of its row, the    *)
(* cookies of the browsers that use it, AuthService's handlers and the     *)
(* ApiClient of every open tab.                                            *)
(*                                                                         *)
(* The row holds (the hash of) one refresh token.  Signing in and refresh- *)
(* ing read the row, await, sign, await the hash and then write it; the    *)
(* cookies change when the answer arrives.  All tabs of a browser share    *)
(* its cookies; each has an ApiClient of its own, which answers a 401 with *)
(* one refresh shared by all its requests, and one more try.               *)
(***************************************************************************)
EXTENDS Naturals

CONSTANTS
    Requests,       \* <<tab, number>>: what the ApiClient of a tab may have under way
    MaxSigned,      \* bound: seconds in which a token is signed
    MaxLost         \* bound: lost messages, failed handlers and page loads

ASSUME BoundsAssumption == MaxSigned \in Nat \ {0} /\ MaxLost \in Nat

\* A tab is <<browser, number>>.
TabOf(r) == r[1]
BrowserOf(r) == r[1][1]
Tabs == {TabOf(r) : r \in Requests}
Browsers == {BrowserOf(r) : r \in Requests}
NoRequest == <<>>

ASSUME RequestsAssumption == NoRequest \notin Requests

VARIABLES
    refresh_token,      \* the column; 0 is null
    signed,             \* the last token signed
    jar,                \* the cookies of each browser
    request,            \* the requests of each tab
    call,               \* the sign-in or refresh handler that a request started
    refreshInFlight,    \* per tab, the request whose refresh the others share
    lost,               \* see MaxLost
    overlapped          \* history: see SessionIsHeld

vars == <<refresh_token, signed, jar, request, call, refreshInFlight, lost, overlapped>>

\* A token is named by the second of its iat: two signed for one account within
\* the same second are the same string.
Tokens == 1..MaxSigned

\* live: the access_token cookie is there; it lasts exactly as long as its JWT.
Cookies == [live : BOOLEAN, refresh : Tokens \cup {0}]

\* sent: on its way, with or without a live access token; retry: attemptRefresh.
\* served: a logout done, its answer on the way.  waiting: for the tab's refresh.
\* idle: not sent, or answered, or given up.
RequestStates ==
    [pc : {"idle", "sent", "served", "waiting"},
     op : {"data", "logout", "login"}, live : BOOLEAN, retry : BOOLEAN]

\* sent: on its way with the cookie `presented'.  checked: token (or password)
\* found right.  signed: waits for the hash.  stored, refused: answer on the way.
\* gone: the page that asked is.
CallStates ==
    [op : {"login", "refresh"},
     pc : {"none", "sent", "checked", "signed", "stored", "refused"},
     presented : Tokens \cup {0}, token : Tokens \cup {0}, gone : BOOLEAN]

NoRequestYet == [pc |-> "idle", op |-> "data", live |-> FALSE, retry |-> FALSE]
NoCall == [op |-> "refresh", pc |-> "none", presented |-> 0, token |-> 0, gone |-> FALSE]

TypeOK ==
    /\ refresh_token \in Tokens \cup {0}
    /\ signed \in Tokens \cup {0}
    /\ jar \in [Browsers -> Cookies]
    /\ request \in [Requests -> RequestStates]
    /\ call \in [Requests -> CallStates]
    /\ refreshInFlight \in [Tabs -> Requests \cup {NoRequest}]
    /\ lost \in 0..MaxLost
    /\ overlapped \in BOOLEAN

\* Nobody is signed in.
Init ==
    /\ refresh_token = 0 /\ signed = 0
    /\ jar = [b \in Browsers |-> [live |-> FALSE, refresh |-> 0]]
    /\ request = [r \in Requests |-> NoRequestYet]
    /\ call = [r \in Requests |-> NoCall]
    /\ refreshInFlight = [t \in Tabs |-> NoRequest]
    /\ lost = 0 /\ overlapped = FALSE

UnderWay(r) == request[r].pc # "idle"

\* Requests that are about to change the row or the cookies.
Changing == {r \in Requests : \/ call[r].pc # "none"
                              \/ UnderWay(r) /\ request[r].op = "logout"}

\* Request r is about to, and so is another; two refreshes of one tab do not count.
Collides(r, op) ==
    \E s \in Changing \ {r} :
        TabOf(s) # TabOf(r) \/ op # "data" \/ request[s].op # "data"
                            \/ call[s].op = "login"

-------------------------------------------------------------------------------
(* ApiClient.request and tryRefresh                                         *)

Fetch(r, op) ==
    /\ ~UnderWay(r) /\ call[r].pc = "none"
    /\ request' = [request EXCEPT ![r] =
            [pc |-> "sent", op |-> op, live |-> jar[BrowserOf(r)].live, retry |-> TRUE]]
    /\ overlapped' = (overlapped \/ (op = "logout" /\ Collides(r, op)))
    /\ UNCHANGED <<refresh_token, signed, jar, call, refreshInFlight, lost>>

\* A protected handler with a live access token; logout() clears the column.
Serve(r) ==
    /\ request[r].pc = "sent" /\ request[r].op # "login" /\ request[r].live
    /\ \/ /\ request[r].op = "data"
          /\ request' = [request EXCEPT ![r] = NoRequestYet]
          /\ UNCHANGED refresh_token
       \/ /\ request[r].op = "logout"
          /\ request' = [request EXCEPT ![r].pc = "served"]
          /\ refresh_token' = 0
    /\ UNCHANGED <<signed, jar, call, refreshInFlight, lost, overlapped>>

LogoutAnswered(r) ==
    /\ request[r].pc = "served"
    /\ request' = [request EXCEPT ![r] = NoRequestYet]
    /\ jar' = [jar EXCEPT ![BrowserOf(r)] = [live |-> FALSE, refresh |-> 0]]
    /\ UNCHANGED <<refresh_token, signed, call, refreshInFlight, lost, overlapped>>

StartRefresh(r) ==
    /\ call' = [call EXCEPT ![r] =
            [NoCall EXCEPT !.pc = "sent", !.presented = jar[BrowserOf(r)].refresh]]
    /\ refreshInFlight' = [refreshInFlight EXCEPT ![TabOf(r)] = r]
    /\ overlapped' = (overlapped \/ Collides(r, request[r].op))

\* Mutant: tryRefresh always starts a refresh of its own.
TryRefreshEach(r) == StartRefresh(r)

\* The refresh of the tab, started now unless one is in flight.
TryRefresh(r) ==
    \/ refreshInFlight[TabOf(r)] = NoRequest /\ StartRefresh(r)
    \/ /\ refreshInFlight[TabOf(r)] # NoRequest
       /\ UNCHANGED <<call, refreshInFlight, overlapped>>

\* 401, for want of a live access token or, of a data request, from the handler
\* itself (changePassword's wrong current password).  The first time the request
\* waits for a refresh, the second time it fails.
Deny(r) ==
    /\ request[r].pc = "sent" /\ request[r].op # "login"
    /\ request[r].live => request[r].op = "data"
    /\ \/ /\ request[r].retry
          /\ request' = [request EXCEPT ![r].pc = "waiting"]
          /\ TryRefresh(r)
       \/ /\ ~request[r].retry
          /\ request' = [request EXCEPT ![r] = NoRequestYet]
          /\ UNCHANGED <<call, refreshInFlight, overlapped>>
    /\ UNCHANGED <<refresh_token, signed, jar, lost>>

Waiting(t) == {s \in Requests : TabOf(s) = t /\ request[s].pc = "waiting"}

\* Mutant: a request whose refresh failed is neither answered nor forgotten.
RetriedStranded(r, ok) ==
    IF ok THEN [request[r] EXCEPT !.pc = "sent", !.live = TRUE, !.retry = FALSE]
          ELSE [request[r] EXCEPT !.pc = "stranded"]

\* Mutant: the request sent again may start over.
RetriedAgain(r, ok) ==
    IF ok THEN [request[r] EXCEPT !.pc = "sent", !.live = TRUE]
          ELSE NoRequestYet

\* Sent again, once, with the new cookie; or failed.
Retried(r, ok) ==
    IF ok THEN [request[r] EXCEPT !.pc = "sent", !.live = TRUE, !.retry = FALSE]
          ELSE NoRequestYet

\* Mutant: only the request that started the refresh learns how it ended.
SettleOne(r, ok) ==
    /\ refreshInFlight' = [refreshInFlight EXCEPT ![TabOf(r)] = NoRequest]
    /\ request' = [request EXCEPT ![r] = Retried(r, ok)]

\* The shared promise settles: every request that waits is sent again or fails.
Settle(r, ok) ==
    /\ refreshInFlight' = [refreshInFlight EXCEPT ![TabOf(r)] = NoRequest]
    /\ request' = [s \in Requests |->
            IF s \in Waiting(TabOf(r)) THEN Retried(s, ok) ELSE request[s]]

-------------------------------------------------------------------------------
(* AuthService.login (register and loginWithGoogle end alike), refresh,     *)
(* signAndStoreTokens, resetPassword                                        *)

\* The form shows only while the tab is not asking who is signed in (GuestGuard).
Login(r) ==
    /\ \A s \in Requests : TabOf(s) = TabOf(r) => ~UnderWay(s)
    /\ call[r].pc = "none"
    /\ request' = [request EXCEPT ![r] =
            [pc |-> "sent", op |-> "login", live |-> FALSE, retry |-> FALSE]]
    /\ call' = [call EXCEPT ![r] = [NoCall EXCEPT !.op = "login", !.pc = "checked"]]
    /\ overlapped' = (overlapped \/ Collides(r, "login"))
    /\ UNCHANGED <<refresh_token, signed, jar, refreshInFlight, lost>>

\* The token verifies and is the one in the row.
RefreshCheck(r) ==
    /\ call[r].pc = "sent"
    /\ call' = [call EXCEPT ![r].pc =
            IF call[r].presented # 0 /\ call[r].presented = refresh_token
            THEN "checked" ELSE "refused"]
    /\ UNCHANGED <<refresh_token, signed, jar, request, refreshInFlight, lost, overlapped>>

\* In a new second, or in that of the last token.
Sign(r) ==
    /\ call[r].pc = "checked"
    /\ \E token \in Tokens \cap {signed, signed + 1} :
        /\ signed' = token
        /\ call' = [call EXCEPT ![r] = [call[r] EXCEPT !.pc = "signed", !.token = token]]
    /\ UNCHANGED <<refresh_token, jar, request, refreshInFlight, lost, overlapped>>

Store(r) ==
    /\ call[r].pc = "signed"
    /\ refresh_token' = call[r].token
    /\ call' = [call EXCEPT ![r].pc = "stored"]
    /\ UNCHANGED <<signed, jar, request, refreshInFlight, lost, overlapped>>

\* The answer reaches the page: its cookies first, then the promise.
CallAnswered(r) ==
    LET ok == call[r].pc = "stored" IN
    /\ call[r].pc \in {"stored", "refused"} /\ ~call[r].gone
    /\ call' = [call EXCEPT ![r] = NoCall]
    /\ jar' = IF ok THEN [jar EXCEPT ![BrowserOf(r)] =
                            [live |-> TRUE, refresh |-> call[r].token]] ELSE jar
    /\ \/ /\ call[r].op = "login"
          /\ request' = [request EXCEPT ![r] = NoRequestYet]
          /\ UNCHANGED refreshInFlight
       \/ call[r].op = "refresh" /\ Settle(r, ok)
    /\ UNCHANGED <<refresh_token, signed, lost, overlapped>>

\* The answer to a page that is gone is dropped with its cookies.
CallDropped(r) ==
    /\ call[r].pc \in {"stored", "refused"} /\ call[r].gone
    /\ call' = [call EXCEPT ![r] = NoCall]
    /\ UNCHANGED <<refresh_token, signed, jar, request, refreshInFlight, lost, overlapped>>

\* resetPassword() clears the column, from whatever device the link is opened on.
ResetPassword ==
    /\ refresh_token' = 0
    /\ UNCHANGED <<signed, jar, request, call, refreshInFlight, lost, overlapped>>

-------------------------------------------------------------------------------
(* Time and failures                                                        *)

\* 15 minutes after it was set.
AccessExpires(b) ==
    /\ jar[b].live
    /\ jar' = [jar EXCEPT ![b].live = FALSE]
    /\ UNCHANGED <<refresh_token, signed, request, call, refreshInFlight, lost, overlapped>>

\* A message is lost, the request times out or its handler throws.
LoseRequest(r) ==
    /\ lost < MaxLost /\ lost' = lost + 1
    /\ request[r].op # "login" /\ request[r].pc \in {"sent", "served"}
    /\ request' = [request EXCEPT ![r] = NoRequestYet]
    /\ UNCHANGED <<refresh_token, signed, jar, call, refreshInFlight, overlapped>>

LoseCall(r) ==
    /\ lost < MaxLost /\ lost' = lost + 1
    /\ call[r].pc # "none" /\ ~call[r].gone
    /\ call' = [call EXCEPT ![r] = NoCall]
    /\ \/ /\ call[r].op = "login"
          /\ request' = [request EXCEPT ![r] = NoRequestYet]
          /\ UNCHANGED refreshInFlight
       \/ call[r].op = "refresh" /\ Settle(r, FALSE)
    /\ UNCHANGED <<refresh_token, signed, jar, overlapped>>

\* The page is loaded again (also by the redirect to /login): its requests are
\* forgotten, their handlers go on.
Reload(t) ==
    /\ lost < MaxLost /\ lost' = lost + 1
    /\ \E r \in Requests : TabOf(r) = t /\ UnderWay(r)
    /\ request' = [r \in Requests |->
            IF TabOf(r) = t THEN NoRequestYet ELSE request[r]]
    /\ call' = [r \in Requests |->
            IF TabOf(r) = t /\ call[r].pc # "none"
            THEN [call[r] EXCEPT !.gone = TRUE] ELSE call[r]]
    /\ refreshInFlight' = [refreshInFlight EXCEPT ![t] = NoRequest]
    /\ UNCHANGED <<refresh_token, signed, jar, overlapped>>

-------------------------------------------------------------------------------
\* What the network and the backend do for a request that is under way.
Progress(r) ==
    \/ Serve(r) \/ Deny(r) \/ LogoutAnswered(r)
    \/ RefreshCheck(r) \/ Sign(r) \/ Store(r) \/ CallAnswered(r) \/ CallDropped(r)

Next ==
    \/ \E r \in Requests :
        \/ \E op \in {"data", "logout"} : Fetch(r, op)
        \/ Login(r) \/ Progress(r) \/ LoseRequest(r) \/ LoseCall(r)
    \/ \E t \in Tabs : Reload(t)
    \/ \E b \in Browsers : AccessExpires(b)
    \/ ResetPassword

Spec == Init /\ [][Next]_vars

\* Every message arrives or its request times out, and every handler ends.
FairSpec == Spec /\ \A r \in Requests : WF_vars(Progress(r))
-------------------------------------------------------------------------------
(* Properties *)

\* The session in the row is one that a browser holds: nobody is signed out in
\* favour of a token that never arrived.  It takes answers that arrive, and tabs
\* that do not change the row at once; but the requests of one tab may find their
\* access token expired in any order, for they share one refresh.
SessionIsHeld ==
    /\ refresh_token # 0 /\ Changing = {} /\ ~overlapped /\ lost = 0
    => \E b \in Browsers : jar[b].refresh = refresh_token

\* A request waits only while its tab has a refresh in flight that will end for it.
WaitersHaveARefresh ==
    \A r \in Requests : request[r].pc = "waiting" =>
        LET s == refreshInFlight[TabOf(r)] IN s # NoRequest /\ call[s].pc # "none"

\* Every request ends, whoever else signs in, out or refreshes: the 401 of a
\* request that was sent again does not start over.
RequestsSettle ==
    \A r \in Requests : UnderWay(r) ~> ~UnderWay(r)
-------------------------------------------------------------------------------
(* What the code says of itself and does not keep; see the findings.        *)

\* resetPassword(): "invalidate any existing sessions" (auth.service.ts:186).  A
\* column that was cleared stays so until somebody signs in.
ClearedUntilLogin ==
    [][refresh_token = 0 /\ refresh_token' # 0
        => \E r \in Requests : call[r].op = "login" /\ call[r].pc = "signed"]_vars
===============================================================================
