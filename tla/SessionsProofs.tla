---------------------------- MODULE SessionsProofs ----------------------------
(***************************************************************************)
(* What holds of the sessions for any number of browsers, tabs and         *)
(* requests.                                                               *)
(*                                                                         *)
(* Two facts carry the rest.  A refresh that is in flight for a tab, the   *)
(* request that started it and the requests that wait for it belong to     *)
(* each other (FlightInv, CallInv, WaitInv): nobody waits in vain.  And    *)
(* while tabs do not overlap and nothing is lost (Peace), at most one      *)
(* request is about to change the row or the cookies, so that what the row *)
(* says is what a browser has, or is about to get (PeaceInv).              *)
(***************************************************************************)
EXTENDS Sessions, TLAPS

Active(r) == call[r].pc # "none"

\* The handler of a page that is still there answers a request that is waiting for it.
CallInv ==
    \A r \in Requests : Active(r) =>
        \/ call[r].gone /\ request[r].pc = "idle"
        \/ /\ ~call[r].gone /\ call[r].op = "refresh"
           /\ request[r].pc = "waiting" /\ refreshInFlight[TabOf(r)] = r
        \/ /\ ~call[r].gone /\ call[r].op = "login"
           /\ request[r].pc = "sent" /\ request[r].op = "login"

FlightInv ==
    \A t \in Tabs : refreshInFlight[t] # NoRequest =>
        /\ refreshInFlight[t] \in Requests /\ TabOf(refreshInFlight[t]) = t
        /\ Active(refreshInFlight[t]) /\ ~call[refreshInFlight[t]].gone
        /\ call[refreshInFlight[t]].op = "refresh"

WaitInv ==
    \A r \in Requests :
        /\ request[r].pc = "waiting" =>
              request[r].op # "login" /\ refreshInFlight[TabOf(r)] # NoRequest
        /\ request[r].pc = "served" => request[r].op = "logout"
        /\ request[r].pc = "idle" => request[r].op = "data"

Held == refresh_token = 0 \/ \E b \in Browsers : jar[b].refresh = refresh_token

Peace == ~overlapped /\ lost = 0

PeaceInv ==
    Peace =>
        /\ \A r \in Requests : ~call[r].gone
        /\ \A r, s \in Changing : r = s
        /\ \A r \in Requests : request[r].pc = "served" => refresh_token = 0
        /\ \A r \in Requests : call[r].pc = "stored" => refresh_token \in {0, call[r].token}
        /\ Held \/ \E r \in Requests : call[r].pc = "stored"

SInv == TypeOK /\ CallInv /\ FlightInv /\ WaitInv /\ PeaceInv

-------------------------------------------------------------------------------
LEMMA Places ==
  \A r \in Requests : TabOf(r) \in Tabs /\ BrowserOf(r) \in Browsers
BY DEF Tabs, Browsers

LEMMA InitSInv ==
  ASSUME Init PROVE SInv
<1>1. TypeOK
  <2>1. refresh_token \in Tokens \cup {0} /\ signed \in Tokens \cup {0}
    BY DEF Init
  <2>2. jar \in [Browsers -> Cookies]
    BY DEF Init, Cookies
  <2>3. request \in [Requests -> RequestStates]
    BY DEF Init, RequestStates, NoRequestYet
  <2>4. call \in [Requests -> CallStates]
    BY DEF Init, CallStates, NoCall
  <2>5. refreshInFlight \in [Tabs -> Requests \cup {NoRequest}]
    BY DEF Init
  <2>6. lost \in 0..MaxLost
    BY BoundsAssumption DEF Init
  <2>7. overlapped \in BOOLEAN
    BY Zenon DEF Init
  <2> QED
    BY <2>1, <2>2, <2>3, <2>4, <2>5, <2>6, <2>7 DEF TypeOK
<1>2. \A r \in Requests : /\ request[r].pc = "idle" /\ request[r].op = "data"
                          /\ call[r].pc = "none" /\ ~call[r].gone
  BY DEF Init, NoRequestYet, NoCall
<1>3. CallInv /\ WaitInv
  BY <1>2 DEF CallInv, WaitInv, Active
<1>4. FlightInv
  BY DEF Init, FlightInv
<1>5. PeaceInv
  BY <1>2 DEF Init, PeaceInv, Held, Changing, UnderWay
<1> QED
  BY <1>1, <1>3, <1>4, <1>5 DEF SInv

-------------------------------------------------------------------------------
(* Types *)

LEMMA StepTypes ==
  ASSUME TypeOK, Next PROVE TypeOK'
<1> USE BoundsAssumption DEF TypeOK
<1>n. NoRequestYet \in RequestStates /\ NoCall \in CallStates
  BY DEF NoRequestYet, NoCall, RequestStates, CallStates, Tokens
<1>1. ASSUME NEW r \in Requests, NEW op \in {"data", "logout"}, Fetch(r, op)
      PROVE  TypeOK'
  BY <1>1, Places DEF Fetch, RequestStates, Cookies
<1>2. ASSUME NEW r \in Requests, Login(r) PROVE TypeOK'
  BY <1>2, <1>n DEF Login, RequestStates, CallStates, NoCall, Tokens
<1>3. ASSUME NEW r \in Requests, Serve(r) PROVE TypeOK'
  BY <1>3, <1>n DEF Serve, RequestStates
<1>4. ASSUME NEW r \in Requests, LogoutAnswered(r) PROVE TypeOK'
  BY <1>4, <1>n, Places DEF LogoutAnswered, Cookies
<1>5. ASSUME NEW r \in Requests, Deny(r) PROVE TypeOK'
  <2>1. request' \in [Requests -> RequestStates]
    BY <1>5, <1>n DEF Deny, RequestStates
  <2>2. call' \in [Requests -> CallStates]
    <3>1. jar[BrowserOf(r)].refresh \in Tokens \cup {0}
      BY Places DEF Cookies
    <3>2. [NoCall EXCEPT !.pc = "sent", !.presented = jar[BrowserOf(r)].refresh]
            \in CallStates
      BY <3>1 DEF NoCall, CallStates
    <3> QED
      BY <1>5, <3>2 DEF Deny, TryRefresh, StartRefresh
  <2>3. refreshInFlight' \in [Tabs -> Requests \cup {NoRequest}]
    BY <1>5, Places DEF Deny, TryRefresh, StartRefresh
  <2>4. overlapped' \in BOOLEAN
    BY <1>5 DEF Deny, TryRefresh, StartRefresh
  <2> QED
    BY <1>5, <2>1, <2>2, <2>3, <2>4 DEF Deny
<1>6. ASSUME NEW r \in Requests, NEW ok \in BOOLEAN, Settle(r, ok)
      PROVE  /\ request' \in [Requests -> RequestStates]
             /\ refreshInFlight' \in [Tabs -> Requests \cup {NoRequest}]
  BY <1>6, <1>n, Places DEF Settle, Retried, RequestStates
<1>7. ASSUME NEW r \in Requests, RefreshCheck(r) PROVE TypeOK'
  BY <1>7 DEF RefreshCheck, CallStates
<1>8. ASSUME NEW r \in Requests, Sign(r) PROVE TypeOK'
  <2> PICK token \in Tokens : /\ signed' = token
                              /\ call' = [call EXCEPT ![r] =
                                    [call[r] EXCEPT !.pc = "signed", !.token = token]]
    BY <1>8 DEF Sign
  <2>1. [call[r] EXCEPT !.pc = "signed", !.token = token] \in CallStates
    BY DEF CallStates
  <2> QED
    BY <1>8, <2>1 DEF Sign
<1>9. ASSUME NEW r \in Requests, Store(r) PROVE TypeOK'
  BY <1>9 DEF Store, CallStates
<1>10. ASSUME NEW r \in Requests, CallAnswered(r) PROVE TypeOK'
  <2>1. call' \in [Requests -> CallStates]
    BY <1>10, <1>n DEF CallAnswered
  <2>2. jar' \in [Browsers -> Cookies]
    BY <1>10, Places DEF CallAnswered, Cookies, CallStates
  <2>3. /\ request' \in [Requests -> RequestStates]
        /\ refreshInFlight' \in [Tabs -> Requests \cup {NoRequest}]
    BY <1>6, <1>10, <1>n DEF CallAnswered
  <2> QED
    BY <1>10, <2>1, <2>2, <2>3 DEF CallAnswered
<1>11. ASSUME NEW r \in Requests, CallDropped(r) PROVE TypeOK'
  BY <1>11, <1>n DEF CallDropped
<1>12. CASE ResetPassword
  BY <1>12 DEF ResetPassword
<1>13. ASSUME NEW b \in Browsers, AccessExpires(b) PROVE TypeOK'
  BY <1>13 DEF AccessExpires, Cookies
<1>14. ASSUME NEW r \in Requests, LoseRequest(r) PROVE TypeOK'
  BY <1>14, <1>n DEF LoseRequest
<1>15. ASSUME NEW r \in Requests, LoseCall(r) PROVE TypeOK'
  <2>1. /\ request' \in [Requests -> RequestStates]
        /\ refreshInFlight' \in [Tabs -> Requests \cup {NoRequest}]
    BY <1>6, <1>15, <1>n DEF LoseCall
  <2>2. call' \in [Requests -> CallStates] /\ lost' \in 0..MaxLost
    BY <1>15, <1>n DEF LoseCall
  <2> QED
    BY <1>15, <2>1, <2>2 DEF LoseCall
<1>16. ASSUME NEW t \in Tabs, Reload(t) PROVE TypeOK'
  <2>1. request' \in [Requests -> RequestStates] /\ lost' \in 0..MaxLost
    BY <1>16, <1>n DEF Reload
  <2>2. \A r \in Requests : [call[r] EXCEPT !.gone = TRUE] \in CallStates
    BY DEF CallStates
  <2>3. call' \in [Requests -> CallStates]
    BY <1>16, <2>2 DEF Reload
  <2>4. refreshInFlight' \in [Tabs -> Requests \cup {NoRequest}]
    BY <1>16 DEF Reload
  <2> QED
    BY <1>16, <2>1, <2>3, <2>4 DEF Reload
<1> QED
  BY <1>1, <1>2, <1>3, <1>4, <1>5, <1>7, <1>8, <1>9, <1>10, <1>11, <1>12, <1>13, <1>14,
     <1>15, <1>16 DEF Next, Progress

-------------------------------------------------------------------------------
(* Who waits for whom *)

\* What a step of a handler or of the network leaves alone.
LEMMA SameParts ==
  ASSUME CallInv, FlightInv, WaitInv, UNCHANGED <<request, refreshInFlight>>,
         \A r \in Requests : /\ call'[r].op = call[r].op /\ call'[r].gone = call[r].gone
                             /\ call'[r].pc = "none" <=> call[r].pc = "none"
  PROVE  CallInv' /\ FlightInv' /\ WaitInv'
BY DEF CallInv, FlightInv, WaitInv, Active

\* The end of a shared refresh.
LEMMA SettleParts ==
  ASSUME TypeOK, CallInv, FlightInv, WaitInv, NEW r \in Requests, NEW ok \in BOOLEAN,
         Active(r), ~call[r].gone, call[r].op = "refresh", Settle(r, ok),
         call' = [call EXCEPT ![r] = NoCall]
  PROVE  CallInv' /\ FlightInv' /\ WaitInv'
<1>1. refreshInFlight[TabOf(r)] = r /\ TabOf(r) \in Tabs
  BY Places DEF CallInv
<1>2. \A s \in Requests : TabOf(s) = TabOf(r) /\ s # r /\ Active(s)
                            => request[s].pc # "waiting"
  BY <1>1 DEF CallInv
<1>3. \A s \in Requests : s # r => call'[s] = call[s]
  BY DEF TypeOK
<1>4. ~Active(r)'
  BY DEF Active, NoCall, TypeOK
<1>5. \A s \in Requests \ Waiting(TabOf(r)) : request'[s] = request[s]
  BY DEF Settle
<1>6. \A s \in Waiting(TabOf(r)) :
        /\ s \in Requests
        /\ \/ request'[s].pc = "sent" /\ request'[s].op = request[s].op
           \/ request'[s].pc = "idle" /\ request'[s].op = "data"
  <2>1. ASSUME NEW s \in Waiting(TabOf(r))
        PROVE  \/ request'[s].pc = "sent" /\ request'[s].op = request[s].op
               \/ request'[s].pc = "idle" /\ request'[s].op = "data"
    <3>1. s \in Requests /\ request'[s] = Retried(s, ok) /\ request[s] \in RequestStates
      BY DEF Waiting, Settle, TypeOK
    <3> QED
      BY <3>1 DEF Retried, NoRequestYet, RequestStates
  <2> QED
    BY <2>1 DEF Waiting
<1>7. \A t \in Tabs : refreshInFlight'[t] = IF t = TabOf(r) THEN NoRequest
                                             ELSE refreshInFlight[t]
  BY DEF Settle, TypeOK
<1>8. CallInv'
  <2> SUFFICES ASSUME NEW s \in Requests, Active(s)'
               PROVE  \/ call'[s].gone /\ request'[s].pc = "idle"
                      \/ /\ ~call'[s].gone /\ call'[s].op = "refresh"
                         /\ request'[s].pc = "waiting" /\ refreshInFlight'[TabOf(s)] = s
                      \/ /\ ~call'[s].gone /\ call'[s].op = "login"
                         /\ request'[s].pc = "sent" /\ request'[s].op = "login"
    BY DEF CallInv
  <2>1. s # r /\ Active(s) /\ call'[s] = call[s]
    BY <1>3, <1>4 DEF Active
  <2>2. s \notin Waiting(TabOf(r)) /\ request'[s] = request[s]
    BY <1>2, <1>5, <2>1 DEF Waiting
  <2>3. TabOf(s) \in Tabs
    BY Places
  <2>4. request[s].pc = "waiting" => TabOf(s) # TabOf(r)
    BY <2>2 DEF Waiting
  <2> QED
    BY <1>7, <2>1, <2>2, <2>3, <2>4 DEF CallInv
<1>9. FlightInv'
  <2> SUFFICES ASSUME NEW t \in Tabs, t # TabOf(r), refreshInFlight[t] # NoRequest,
                      refreshInFlight'[t] = refreshInFlight[t]
               PROVE  /\ refreshInFlight[t] \in Requests /\ TabOf(refreshInFlight[t]) = t
                      /\ Active(refreshInFlight[t])'
                      /\ ~call'[refreshInFlight[t]].gone
                      /\ call'[refreshInFlight[t]].op = "refresh"
    BY <1>7 DEF FlightInv, Active
  <2>1. refreshInFlight[t] # r
    BY DEF FlightInv
  <2> QED
    BY <1>3, <2>1 DEF FlightInv, Active
<1>10. WaitInv'
  BY <1>5, <1>6, <1>7, Places DEF WaitInv, Waiting
<1> QED
  BY <1>8, <1>9, <1>10

LEMMA StepParts ==
  ASSUME TypeOK, CallInv, FlightInv, WaitInv, Next
  PROVE  CallInv' /\ FlightInv' /\ WaitInv'
<1> DEFINE Goal == CallInv' /\ FlightInv' /\ WaitInv'
<1>n. /\ NoRequestYet.pc = "idle" /\ NoRequestYet.op = "data" /\ NoCall.pc = "none"
  BY DEF NoRequestYet, NoCall
\* A request without a handler of its own changes, and does not wait.
<1>a. ASSUME NEW r \in Requests, ~Active(r), UNCHANGED <<call, refreshInFlight>>,
             \A s \in Requests : s # r => request'[s] = request[s],
             request'[r].pc \notin {"waiting"},
             request'[r].pc = "served" => request'[r].op = "logout",
             request'[r].pc = "idle" => request'[r].op = "data"
      PROVE  Goal
  <2>1. CallInv'
    BY <1>a DEF CallInv, Active
  <2>2. FlightInv'
    BY <1>a DEF FlightInv, Active
  <2>3. WaitInv'
    BY <1>a DEF WaitInv
  <2> QED
    BY <2>1, <2>2, <2>3
\* The states in which a request has no handler of its own.
<1>b. ASSUME NEW r \in Requests,
             request[r].pc = "served" \/ (request[r].pc = "sent" /\ request[r].op # "login")
      PROVE  ~Active(r)
  BY <1>b DEF CallInv
<1>1. ASSUME NEW r \in Requests, NEW op \in {"data", "logout"}, Fetch(r, op) PROVE Goal
  <2>1. /\ request'[r].pc = "sent" /\ ~Active(r)
        /\ \A s \in Requests : s # r => request'[s] = request[s]
    BY <1>1 DEF Fetch, Active, TypeOK
  <2> QED
    BY <1>1, <1>a, <2>1 DEF Fetch
<1>2. ASSUME NEW r \in Requests, Login(r) PROVE Goal
  <2>1. /\ request'[r].pc = "sent" /\ request'[r].op = "login"
        /\ \A s \in Requests : s # r => request'[s] = request[s]
        /\ call'[r].op = "login" /\ call'[r].pc # "none" /\ ~call'[r].gone
        /\ \A s \in Requests : s # r => call'[s] = call[s]
        /\ ~Active(r) /\ UNCHANGED refreshInFlight
    BY <1>2 DEF Login, Active, TypeOK, NoCall
  <2>2. CallInv'
    BY <2>1 DEF CallInv, Active
  <2>3. FlightInv'
    BY <2>1 DEF FlightInv, Active
  <2>4. WaitInv'
    BY <2>1 DEF WaitInv
  <2> QED
    BY <2>2, <2>3, <2>4
<1>3. ASSUME NEW r \in Requests, Serve(r) PROVE Goal
  <2>1. /\ ~Active(r) /\ request[r] \in RequestStates
        /\ \A s \in Requests : s # r => request'[s] = request[s]
    BY <1>3, <1>b DEF Serve, TypeOK
  <2>2. \/ request'[r] = NoRequestYet
        \/ request'[r].pc = "served" /\ request'[r].op = "logout"
    BY <1>3, <2>1 DEF Serve, TypeOK, RequestStates
  <2> QED
    BY <1>3, <1>a, <1>n, <2>1, <2>2 DEF Serve
<1>4. ASSUME NEW r \in Requests, LogoutAnswered(r) \/ LoseRequest(r) PROVE Goal
  <2>1. /\ ~Active(r) /\ request'[r] = NoRequestYet
        /\ \A s \in Requests : s # r => request'[s] = request[s]
        /\ UNCHANGED <<call, refreshInFlight>>
    <3>1. request[r].pc = "served" \/ (request[r].pc = "sent" /\ request[r].op # "login")
      BY <1>4 DEF LogoutAnswered, LoseRequest
    <3>2. request' = [request EXCEPT ![r] = NoRequestYet]
      BY <1>4 DEF LogoutAnswered, LoseRequest
    <3> QED
      BY <1>4, <1>b, <3>1, <3>2 DEF LogoutAnswered, LoseRequest, TypeOK
  <2> QED
    BY <1>a, <1>n, <2>1
<1>5. ASSUME NEW r \in Requests, Deny(r) PROVE Goal
  <2>1. /\ ~Active(r) /\ request[r] \in RequestStates
        /\ \A s \in Requests : s # r => request'[s] = request[s]
        /\ TabOf(r) \in Tabs
    BY <1>5, <1>b, Places DEF Deny, TypeOK
  <2>2. CASE ~request[r].retry
    BY <1>5, <1>a, <1>n, <2>1, <2>2 DEF Deny, TypeOK
  <2>3. CASE request[r].retry
    <3>1. request'[r].pc = "waiting" /\ request'[r].op # "login"
      BY <1>5, <2>1, <2>3 DEF Deny, TypeOK, RequestStates
    <3>2. CASE refreshInFlight[TabOf(r)] # NoRequest
      <4>1. UNCHANGED <<call, refreshInFlight>>
        BY <1>5, <2>3, <3>2 DEF Deny, TryRefresh
      <4>2. CallInv'
        BY <2>1, <4>1 DEF CallInv, Active
      <4>3. FlightInv'
        BY <2>1, <4>1 DEF FlightInv, Active
      <4>4. WaitInv'
        BY <2>1, <3>1, <3>2, <4>1 DEF WaitInv
      <4> QED
        BY <4>2, <4>3, <4>4
    <3>3. CASE refreshInFlight[TabOf(r)] = NoRequest
      <4>1. /\ call'[r].pc # "none" /\ ~call'[r].gone /\ call'[r].op = "refresh"
            /\ \A s \in Requests : s # r => call'[s] = call[s]
        <5> DEFINE new == [NoCall EXCEPT !.pc = "sent",
                                          !.presented = jar[BrowserOf(r)].refresh]
        <5>1. call' = [call EXCEPT ![r] = new]
          BY <1>5, <2>3, <3>3 DEF Deny, TryRefresh, StartRefresh
        <5>2. new.pc = "sent" /\ ~new.gone /\ new.op = "refresh"
          BY DEF NoCall
        <5> HIDE DEF new
        <5> QED
          BY <5>1, <5>2 DEF TypeOK
      <4>2. \A t \in Tabs : refreshInFlight'[t] = IF t = TabOf(r) THEN r
                                                   ELSE refreshInFlight[t]
        BY <1>5, <2>3, <3>3 DEF Deny, TryRefresh, StartRefresh, TypeOK
      <4>3. CallInv'
        <5>1. ASSUME NEW s \in Requests, s # r, Active(s), request[s].pc = "waiting",
                     refreshInFlight[TabOf(s)] = s
              PROVE  refreshInFlight'[TabOf(s)] = s
          <6>1. TabOf(s) # TabOf(r) /\ TabOf(s) \in Tabs
            BY <3>3, <5>1, RequestsAssumption, Places
          <6> QED
            BY <4>2, <5>1, <6>1
        <5> QED
          BY <2>1, <3>1, <4>1, <4>2, <5>1 DEF CallInv, Active
      <4>4. FlightInv'
        BY <2>1, <4>1, <4>2 DEF FlightInv, Active
      <4>5. WaitInv'
        BY <2>1, <3>1, <4>2, RequestsAssumption, Places DEF WaitInv
      <4> QED
        BY <4>3, <4>4, <4>5
    <3> QED
      BY <3>2, <3>3
  <2> QED
    BY <2>2, <2>3
<1>6. ASSUME NEW r \in Requests, RefreshCheck(r) \/ Sign(r) \/ Store(r) PROVE Goal
  <2>1. call[r] \in CallStates
    BY DEF TypeOK
  <2>2. \A s \in Requests : /\ call'[s].op = call[s].op /\ call'[s].gone = call[s].gone
                            /\ call'[s].pc = "none" <=> call[s].pc = "none"
    <3>1. ASSUME NEW new, call' = [call EXCEPT ![r] = new], new.op = call[r].op,
                 new.gone = call[r].gone, new.pc # "none", call[r].pc # "none"
          PROVE  \A s \in Requests :
                    /\ call'[s].op = call[s].op /\ call'[s].gone = call[s].gone
                    /\ call'[s].pc = "none" <=> call[s].pc = "none"
      BY <3>1 DEF TypeOK
    <3>2. CASE RefreshCheck(r)
      <4> DEFINE pc == IF call[r].presented # 0 /\ call[r].presented = refresh_token
                       THEN "checked" ELSE "refused"
                 new == [call[r] EXCEPT !.pc = pc]
      <4>1. call' = [call EXCEPT ![r] = new] /\ call[r].pc # "none" /\ pc # "none"
        BY <3>2 DEF RefreshCheck
      <4>2. new.op = call[r].op /\ new.gone = call[r].gone /\ new.pc = pc
        BY <2>1 DEF CallStates
      <4> HIDE DEF new, pc
      <4> QED
        BY <3>1, <4>1, <4>2
    <3>3. CASE Sign(r)
      <4> PICK token \in Tokens : call' = [call EXCEPT ![r] =
                                      [call[r] EXCEPT !.pc = "signed", !.token = token]]
        BY <3>3 DEF Sign
      <4> DEFINE new == [call[r] EXCEPT !.pc = "signed", !.token = token]
      <4>1. call' = [call EXCEPT ![r] = new] /\ call[r].pc # "none"
        BY <3>3 DEF Sign
      <4>2. new.op = call[r].op /\ new.gone = call[r].gone /\ new.pc = "signed"
        BY <2>1 DEF CallStates
      <4> HIDE DEF new
      <4> QED
        BY <3>1, <4>1, <4>2
    <3>4. CASE Store(r)
      <4> DEFINE new == [call[r] EXCEPT !.pc = "stored"]
      <4>1. call' = [call EXCEPT ![r] = new] /\ call[r].pc # "none"
        BY <3>4 DEF Store
      <4>2. new.op = call[r].op /\ new.gone = call[r].gone /\ new.pc = "stored"
        BY <2>1 DEF CallStates
      <4> HIDE DEF new
      <4> QED
        BY <3>1, <4>1, <4>2
    <3> QED
      BY <1>6, <3>2, <3>3, <3>4
  <2> QED
    BY <1>6, <2>2, SameParts DEF RefreshCheck, Sign, Store
<1>7. ASSUME NEW r \in Requests, CallAnswered(r) \/ LoseCall(r) PROVE Goal
  <2>1. Active(r) /\ ~call[r].gone /\ call' = [call EXCEPT ![r] = NoCall]
    BY <1>7 DEF CallAnswered, LoseCall, Active
  <2>2. CASE call[r].op = "refresh"
    <3>1. PICK ok \in BOOLEAN : Settle(r, ok)
      BY <1>7, <2>2 DEF CallAnswered, LoseCall
    <3> QED
      BY <2>1, <2>2, <3>1, SettleParts
  <2>3. CASE call[r].op = "login"
    <3>1. /\ request'[r] = NoRequestYet /\ UNCHANGED refreshInFlight
          /\ \A s \in Requests : s # r => request'[s] = request[s]
          /\ call'[r] = NoCall /\ \A s \in Requests : s # r => call'[s] = call[s]
      BY <1>7, <2>3, <2>1 DEF CallAnswered, LoseCall, TypeOK
    <3>2. CallInv'
      BY <1>n, <3>1 DEF CallInv, Active
    <3>3. FlightInv'
      <4>1. \A t \in Tabs : refreshInFlight[t] # r
        BY <2>3, RequestsAssumption DEF FlightInv
      <4> QED
        BY <3>1, <4>1 DEF FlightInv, Active
    <3>4. WaitInv'
      BY <1>n, <3>1 DEF WaitInv
    <3> QED
      BY <3>2, <3>3, <3>4
  <2> QED
    BY <2>2, <2>3 DEF TypeOK, CallStates
<1>8. ASSUME NEW r \in Requests, CallDropped(r) PROVE Goal
  <2>1. /\ call'[r] = NoCall /\ \A s \in Requests : s # r => call'[s] = call[s]
        /\ UNCHANGED <<request, refreshInFlight>> /\ call[r].gone
    BY <1>8 DEF CallDropped, TypeOK
  <2>2. CallInv'
    BY <1>n, <2>1 DEF CallInv, Active
  <2>3. FlightInv'
    <3>1. \A t \in Tabs : refreshInFlight[t] # r
      BY <2>1, RequestsAssumption DEF FlightInv
    <3> QED
      BY <2>1, <3>1 DEF FlightInv, Active
  <2>4. WaitInv'
    BY <2>1 DEF WaitInv
  <2> QED
    BY <2>2, <2>3, <2>4
<1>9. CASE ResetPassword \/ \E b \in Browsers : AccessExpires(b)
  BY <1>9, SameParts DEF ResetPassword, AccessExpires
<1>10. ASSUME NEW t \in Tabs, Reload(t) PROVE Goal
  <2>1. \A s \in Requests :
          /\ TabOf(s) = t => request'[s] = NoRequestYet
          /\ TabOf(s) # t => request'[s] = request[s] /\ call'[s] = call[s]
          /\ call'[s].pc = call[s].pc
          /\ TabOf(s) = t /\ call[s].pc # "none" => call'[s].gone
    BY <1>10 DEF Reload, TypeOK, CallStates
  <2>2. \A u \in Tabs : refreshInFlight'[u] = IF u = t THEN NoRequest ELSE refreshInFlight[u]
    BY <1>10 DEF Reload, TypeOK
  <2>3. CallInv'
    BY <1>n, <2>1, <2>2, Places DEF CallInv, Active
  <2>4. FlightInv'
    BY <2>1, <2>2 DEF FlightInv, Active
  <2>5. WaitInv'
    BY <1>n, <2>1, <2>2, Places DEF WaitInv
  <2> QED
    BY <2>3, <2>4, <2>5
<1> QED
  BY <1>1, <1>2, <1>3, <1>4, <1>5, <1>6, <1>7, <1>8, <1>9, <1>10 DEF Next, Progress

-------------------------------------------------------------------------------
(* What a browser holds                                                     *)

\* While nothing is lost, no request of another tab or kind is about to change
\* anything when r starts to, or the history says that they overlapped.
LEMMA AloneUnlessOverlap ==
  ASSUME TypeOK, CallInv, PeaceInv, Peace, NEW r \in Requests, NEW op, ~Collides(r, op),
         NEW s \in Changing, s # r
  PROVE  /\ op = "data" /\ TabOf(s) = TabOf(r) /\ Active(s)
         /\ request[s].pc = "waiting" /\ refreshInFlight[TabOf(r)] = s
<1>1. /\ s \in Requests /\ TabOf(s) = TabOf(r) /\ op = "data" /\ request[s].op = "data"
      /\ call[s].op # "login"
  BY DEF Collides, Changing
<1>2. Active(s) /\ ~call[s].gone
  BY <1>1 DEF Changing, Active, PeaceInv
<1> QED
  BY <1>1, <1>2 DEF CallInv

\* A step in which the row and the cookies stay, and nobody new is about to change them.
LEMMA PeaceKeeps ==
  ASSUME PeaceInv, Peace, UNCHANGED <<refresh_token, jar>>,
         \A r \in Requests : ~call'[r].gone,
         Changing' \subseteq Changing \/ (\A r, s \in Changing' : r = s),
         \A r \in Requests : request'[r].pc = "served" => request[r].pc = "served",
         \A r \in Requests : call'[r].pc = "stored" <=> call[r].pc = "stored",
         \A r \in Requests : call'[r].pc = "stored" => call'[r].token = call[r].token
  PROVE  PeaceInv'
<1>1. \A r, s \in Changing' : r = s
  BY DEF PeaceInv
<1>2. Held <=> Held'
  BY DEF Held
<1> QED
  BY <1>1, <1>2 DEF PeaceInv

LEMMA StepPeace ==
  ASSUME TypeOK, CallInv, FlightInv, WaitInv, PeaceInv, Next
  PROVE  PeaceInv'
<1> SUFFICES ASSUME Peace' PROVE PeaceInv'
  BY DEF PeaceInv
<1>t. lost \in Nat /\ \A r \in Requests : call[r] \in CallStates /\ request[r] \in RequestStates
  BY BoundsAssumption DEF TypeOK
<1>p. Peace /\ lost' = lost /\ overlapped' = overlapped
  <2>1. ASSUME NEW r \in Requests, NEW op, Fetch(r, op) \/ Login(r)
        PROVE  (overlapped => overlapped') /\ lost' = lost
    BY <2>1 DEF Fetch, Login
  <2>2. ASSUME NEW r \in Requests, Deny(r)
        PROVE  (overlapped => overlapped') /\ lost' = lost
    <3>1. lost' = lost /\ (TryRefresh(r) \/ UNCHANGED overlapped)
      BY <2>2 DEF Deny
    <3>2. ASSUME StartRefresh(r) PROVE overlapped => overlapped'
      BY <3>2 DEF StartRefresh
    <3>3. ASSUME TryRefresh(r) PROVE overlapped => overlapped'
      BY <3>2, <3>3 DEF TryRefresh
    <3> QED
      BY <3>1, <3>3
  <2>3. ASSUME NEW r \in Requests,
               \/ Serve(r) \/ LogoutAnswered(r) \/ RefreshCheck(r) \/ Sign(r) \/ Store(r)
               \/ CallAnswered(r) \/ CallDropped(r)
        PROVE  overlapped' = overlapped /\ lost' = lost
    BY <2>3 DEF Serve, LogoutAnswered, RefreshCheck, Sign, Store, CallAnswered, CallDropped
  <2>4. ASSUME ResetPassword \/ \E b \in Browsers : AccessExpires(b)
        PROVE  overlapped' = overlapped /\ lost' = lost
    BY <2>4 DEF ResetPassword, AccessExpires
  <2>5. ASSUME NEW r \in Requests, LoseRequest(r) \/ LoseCall(r)
        PROVE  overlapped' = overlapped /\ lost' = lost + 1
    BY <2>5 DEF LoseRequest, LoseCall
  <2>6. ASSUME NEW t \in Tabs, Reload(t)
        PROVE  overlapped' = overlapped /\ lost' = lost + 1
    BY <2>6 DEF Reload
  <2>7. (overlapped => overlapped') /\ (lost' = lost \/ lost' = lost + 1)
    BY <2>1, <2>2, <2>3, <2>4, <2>5, <2>6 DEF Next, Progress
  <2>8. lost' = 0 /\ ~overlapped'
    BY DEF Peace
  <2>9. lost = 0
    BY <1>t, <2>7, <2>8
  <2>10. ~overlapped
    BY <2>7, <2>8
  <2>11. overlapped \in BOOLEAN /\ overlapped' \in BOOLEAN
    BY StepTypes DEF TypeOK
  <2>12. Peace
    BY <2>9, <2>10 DEF Peace
  <2>13. overlapped' = overlapped
    BY <2>8, <2>10, <2>11, Zenon
  <2> QED
    BY <2>8, <2>9, <2>12, <2>13
<1>n. NoRequestYet.pc = "idle" /\ NoCall.pc = "none" /\ ~NoCall.gone
  BY DEF NoRequestYet, NoCall
<1>g. /\ \A r \in Requests : ~call[r].gone
      /\ \A r, s \in Changing : r = s
  BY <1>p DEF PeaceInv
<1>1. ASSUME NEW r \in Requests, NEW op \in {"data", "logout"}, Fetch(r, op)
      PROVE  PeaceInv'
  <2>1. /\ request'[r].pc = "sent" /\ request'[r].op = op /\ UNCHANGED <<call, refresh_token, jar>>
        /\ \A s \in Requests : s # r => request'[s] = request[s]
        /\ ~Active(r) /\ (op = "logout" => ~Collides(r, op))
    BY <1>1, <1>p DEF Fetch, Active, TypeOK, Peace
  <2>2. CASE op = "data"
    <3>1. Changing' \subseteq Changing
      BY <2>1, <2>2 DEF Changing, UnderWay, Active
    <3> QED
      BY <1>g, <1>p, <2>1, <3>1, PeaceKeeps
  <2>3. CASE op = "logout"
    <3>1. \A s \in Changing : s = r
      BY <1>p, <2>1, <2>3, AloneUnlessOverlap
    <3>2. \A s \in Changing' : s = r
      BY <2>1, <3>1 DEF Changing, UnderWay
    <3> QED
      BY <1>g, <1>p, <2>1, <3>2, PeaceKeeps
  <2> QED
    BY <2>2, <2>3
<1>2. ASSUME NEW r \in Requests, Login(r) PROVE PeaceInv'
  <2>1. /\ request'[r].pc = "sent" /\ UNCHANGED <<refresh_token, jar>>
        /\ \A s \in Requests : s # r => request'[s] = request[s] /\ call'[s] = call[s]
        /\ call'[r].pc = "checked" /\ ~call'[r].gone /\ call[r].pc = "none"
        /\ ~Collides(r, "login")
    BY <1>2, <1>p DEF Login, TypeOK, NoCall, Peace
  <2>2. \A s \in Changing : s = r
    BY <1>p, <2>1, AloneUnlessOverlap
  <2>3. \A s \in Changing' : s = r
    BY <2>1, <2>2 DEF Changing, UnderWay
  <2> QED
    BY <1>g, <1>p, <2>1, <2>3, PeaceKeeps
<1>3. ASSUME NEW r \in Requests, Serve(r) PROVE PeaceInv'
  <2>1. /\ \A s \in Requests : s # r => request'[s] = request[s]
        /\ UNCHANGED <<call, jar>>
    BY <1>3 DEF Serve, TypeOK
  <2>2. CASE request[r].op = "data"
    <3>1. request'[r] = NoRequestYet /\ UNCHANGED refresh_token
      BY <1>3, <2>2 DEF Serve, TypeOK
    <3>2. Changing' \subseteq Changing
      BY <1>n, <2>1, <3>1 DEF Changing, UnderWay
    <3> QED
      BY <1>g, <1>n, <1>p, <2>1, <3>1, <3>2, PeaceKeeps
  <2>3. CASE request[r].op = "logout"
    <3>1. refresh_token' = 0 /\ request'[r].op = "logout" /\ request[r].pc = "sent"
      BY <1>3, <1>t, <2>3 DEF Serve, TypeOK, RequestStates
    <3>2. Changing' \subseteq Changing
      BY <2>1, <2>3, <3>1 DEF Changing, UnderWay
    <3> QED
      BY <1>g, <2>1, <3>1, <3>2 DEF PeaceInv, Held
  <2> QED
    BY <1>3, <2>2, <2>3 DEF Serve
<1>4. ASSUME NEW r \in Requests, LogoutAnswered(r) PROVE PeaceInv'
  <2>1. /\ request'[r] = NoRequestYet /\ \A s \in Requests : s # r => request'[s] = request[s]
        /\ UNCHANGED <<call, refresh_token>> /\ request[r].pc = "served"
    BY <1>4 DEF LogoutAnswered, TypeOK
  <2>2. refresh_token = 0
    BY <1>p, <2>1 DEF PeaceInv
  <2>3. Changing' \subseteq Changing
    BY <1>n, <2>1 DEF Changing, UnderWay
  <2> QED
    BY <1>g, <1>n, <2>1, <2>2, <2>3 DEF PeaceInv, Held
<1>5. ASSUME NEW r \in Requests, Deny(r) PROVE PeaceInv'
  <2>1. /\ \A s \in Requests : s # r => request'[s] = request[s]
        /\ UNCHANGED <<refresh_token, jar>>
        /\ request[r].pc = "sent" /\ request[r].op # "login"
        /\ request'[r].pc \in {"waiting", "idle"}
        /\ request'[r].pc = "waiting" => request'[r].op = request[r].op
    BY <1>5, <1>n, <1>t DEF Deny, TypeOK, RequestStates
  <2>2. CASE UNCHANGED call
    <3>1. Changing' \subseteq Changing
      BY <2>1, <2>2 DEF Changing, UnderWay
    <3> QED
      BY <1>g, <1>p, <2>1, <2>2, <3>1, PeaceKeeps
  <2>3. CASE ~UNCHANGED call
    <3>1. /\ call' = [call EXCEPT ![r] =
                [NoCall EXCEPT !.pc = "sent", !.presented = jar[BrowserOf(r)].refresh]]
          /\ refreshInFlight[TabOf(r)] = NoRequest /\ ~Collides(r, request[r].op)
      BY <1>5, <1>p, <2>3 DEF Deny, TryRefresh, StartRefresh, Peace
    <3>2. /\ call'[r].pc = "sent" /\ ~call'[r].gone
          /\ \A s \in Requests : s # r => call'[s] = call[s]
      BY <3>1 DEF TypeOK, NoCall
    <3>3. \A s \in Changing : s = r
      <4>1. ASSUME NEW s \in Changing, s # r PROVE FALSE
        <5>1. refreshInFlight[TabOf(r)] = s /\ s \in Requests
          BY <1>p, <3>1, <4>1, AloneUnlessOverlap DEF Changing
        <5> QED
          BY <3>1, <5>1, RequestsAssumption
      <4> QED
        BY <4>1
    <3>4. \A s \in Changing' : s = r
      BY <2>1, <3>2, <3>3 DEF Changing, UnderWay
    <3>5. ~Active(r)
      BY <2>1 DEF CallInv
    <3> QED
      BY <1>g, <1>p, <2>1, <3>2, <3>4, <3>5, PeaceKeeps DEF Active
  <2> QED
    BY <2>2, <2>3
\* A handler that has not written yet goes on.
<1>6. ASSUME NEW r \in Requests, NEW new, call' = [call EXCEPT ![r] = new],
             new.pc \notin {"none", "stored"}, new.gone = call[r].gone,
             call[r].pc \notin {"none", "stored"},
             UNCHANGED <<refresh_token, jar, request>>
      PROVE  PeaceInv'
  <2>1. /\ call'[r] = new /\ \A s \in Requests : s # r => call'[s] = call[s]
    BY <1>6 DEF TypeOK
  <2>2. Changing' \subseteq Changing
    BY <1>6, <2>1 DEF Changing, UnderWay
  <2> QED
    BY <1>6, <1>g, <1>p, <2>1, <2>2, PeaceKeeps
<1>7. ASSUME NEW r \in Requests, RefreshCheck(r) PROVE PeaceInv'
  <2> DEFINE pc == IF call[r].presented # 0 /\ call[r].presented = refresh_token
                   THEN "checked" ELSE "refused"
             new == [call[r] EXCEPT !.pc = pc]
  <2>1. call' = [call EXCEPT ![r] = new] /\ call[r].pc = "sent" /\ pc \in {"checked", "refused"}
    BY <1>7 DEF RefreshCheck
  <2>2. new.gone = call[r].gone /\ new.pc = pc
    BY <1>t DEF CallStates
  <2> HIDE DEF new, pc
  <2> QED
    BY <1>6, <1>7, <2>1, <2>2 DEF RefreshCheck
<1>8. ASSUME NEW r \in Requests, Sign(r) PROVE PeaceInv'
  <2> PICK token \in Tokens : call' = [call EXCEPT ![r] =
                                  [call[r] EXCEPT !.pc = "signed", !.token = token]]
    BY <1>8 DEF Sign
  <2> DEFINE new == [call[r] EXCEPT !.pc = "signed", !.token = token]
  <2>1. call' = [call EXCEPT ![r] = new] /\ call[r].pc = "checked"
    BY <1>8 DEF Sign
  <2>2. new.gone = call[r].gone /\ new.pc = "signed"
    BY <1>t DEF CallStates
  <2> HIDE DEF new
  <2> QED
    BY <1>6, <1>8, <2>1, <2>2 DEF Sign
<1>9. ASSUME NEW r \in Requests, Store(r) PROVE PeaceInv'
  <2>1. /\ call[r].pc = "signed" /\ call'[r].pc = "stored" /\ call'[r].gone = call[r].gone
        /\ call'[r].token = call[r].token /\ refresh_token' = call[r].token
        /\ \A s \in Requests : s # r => call'[s] = call[s]
        /\ UNCHANGED <<jar, request>>
    BY <1>9, <1>t DEF Store, TypeOK, CallStates
  <2>2. r \in Changing /\ Changing' \subseteq Changing
    BY <2>1 DEF Changing, UnderWay
  <2>3. \A s \in Changing' : s = r
    BY <1>g, <2>2
  <2>4. \A s \in Requests : request[s].pc # "served"
    <3>1. request[r].pc # "served"
      BY <2>1 DEF CallInv, Active
    <3>2. \A s \in Requests : request[s].pc = "served" => s \in Changing
      BY DEF WaitInv, Changing, UnderWay
    <3> QED
      BY <1>g, <2>2, <3>1, <3>2
  <2>5. \A s \in Requests : call'[s].pc = "stored" => s \in Changing'
    BY DEF Changing
  <2> QED
    BY <1>g, <2>1, <2>3, <2>4, <2>5 DEF PeaceInv
<1>10. ASSUME NEW r \in Requests, CallAnswered(r) PROVE PeaceInv'
  <2>1. /\ call'[r] = NoCall /\ \A s \in Requests : s # r => call'[s] = call[s]
        /\ UNCHANGED refresh_token /\ r \in Changing /\ Active(r)
    BY <1>10 DEF CallAnswered, TypeOK, Changing, Active
  <2>2. \A s \in Requests : /\ s # r => ~Active(s)
                            /\ request[s].pc # "served"
    <3>1. request[r].pc # "served"
      BY <2>1 DEF CallInv
    <3>2. \A s \in Requests : request[s].pc = "served" \/ Active(s) => s \in Changing
      BY DEF WaitInv, Changing, UnderWay, Active
    <3> QED
      BY <1>g, <2>1, <3>1, <3>2
  <2>3. \A s \in Requests : ~call'[s].gone /\ call'[s].pc = "none"
    BY <1>g, <1>n, <2>1, <2>2 DEF Active
  <2>4. \A s \in Requests : /\ request'[s].pc # "served"
                            /\ s \in Changing' => s \in Changing
    <3>1. CASE call[r].op = "login"
      BY <1>10, <1>n, <2>2, <2>3, <3>1 DEF CallAnswered, TypeOK, Changing, UnderWay
    <3>2. CASE call[r].op # "login"
      <4> DEFINE ok == call[r].pc = "stored"
      <4>1. \A s \in Requests :
              \/ request'[s] = request[s]
              \/ s \in Waiting(TabOf(r)) /\ request'[s] = Retried(s, ok)
        BY <1>10, <3>2 DEF CallAnswered, Settle
      <4>2. \A s \in Waiting(TabOf(r)) :
              /\ s \in Requests /\ request[s].pc = "waiting"
              /\ \/ Retried(s, ok).pc = "sent" /\ Retried(s, ok).op = request[s].op
                 \/ Retried(s, ok) = NoRequestYet
        BY <1>t DEF Waiting, Retried, RequestStates
      <4> QED
        BY <1>n, <2>2, <2>3, <4>1, <4>2 DEF Changing, UnderWay
    <3> QED
      BY <3>1, <3>2
  <2>5. Held'
    <3>1. CASE call[r].pc = "stored"
      <4>1. refresh_token \in {0, call[r].token}
        BY <1>p, <3>1 DEF PeaceInv
      <4>2. jar'[BrowserOf(r)].refresh = call[r].token /\ BrowserOf(r) \in Browsers
        BY <1>10, <3>1, Places DEF CallAnswered, TypeOK
      <4> QED
        BY <2>1, <4>1, <4>2 DEF Held
    <3>2. CASE call[r].pc # "stored"
      <4>1. Held
        BY <1>p, <2>2, <3>2 DEF PeaceInv, Active
      <4>2. UNCHANGED jar
        BY <1>10, <3>2 DEF CallAnswered
      <4> QED
        BY <2>1, <4>1, <4>2 DEF Held
    <3> QED
      BY <3>1, <3>2
  <2>6. \A s, q \in Changing' : s = q
    BY <1>g, <2>4 DEF Changing
  <2> QED
    BY <2>3, <2>4, <2>5, <2>6 DEF PeaceInv
<1>11. ASSUME NEW r \in Requests, CallDropped(r) PROVE PeaceInv'
  BY <1>11, <1>g DEF CallDropped
<1>12. CASE ResetPassword
  <2>1. refresh_token' = 0 /\ UNCHANGED <<jar, request, call>>
    BY <1>12 DEF ResetPassword
  <2>2. Changing' = Changing
    BY <2>1 DEF Changing, UnderWay
  <2> QED
    BY <1>g, <2>1, <2>2 DEF PeaceInv, Held
<1>13. ASSUME NEW b \in Browsers, AccessExpires(b) PROVE PeaceInv'
  <2>1. UNCHANGED <<refresh_token, request, call>>
    BY <1>13 DEF AccessExpires
  <2>2. \A c \in Browsers : jar'[c].refresh = jar[c].refresh
    BY <1>13 DEF AccessExpires, TypeOK, Cookies
  <2>3. Changing' = Changing /\ (Held => Held')
    BY <2>1, <2>2 DEF Changing, UnderWay, Held
  <2> QED
    BY <1>g, <1>p, <2>1, <2>3 DEF PeaceInv
<1>14. ASSUME (\E r \in Requests : LoseRequest(r) \/ LoseCall(r)) \/ \E t \in Tabs : Reload(t)
       PROVE  FALSE
  <2>1. lost' = lost + 1
    BY <1>14 DEF LoseRequest, LoseCall, Reload
  <2> QED
    BY <1>p, <1>t, <2>1
<1> QED
  BY <1>1, <1>2, <1>3, <1>4, <1>5, <1>7, <1>8, <1>9, <1>10, <1>11, <1>12, <1>13, <1>14
     DEF Next, Progress

-------------------------------------------------------------------------------
LEMMA StepSInv ==
  ASSUME SInv, [Next]_vars PROVE SInv'
<1>1. CASE Next
  BY <1>1, StepTypes, StepParts, StepPeace DEF SInv
<1>2. CASE UNCHANGED vars
  <2>1. TypeOK'
    BY <1>2 DEF SInv, TypeOK, vars
  <2>2. CallInv' /\ FlightInv' /\ WaitInv'
    BY <1>2 DEF SInv, CallInv, FlightInv, WaitInv, Active, vars
  <2>3. PeaceInv'
    BY <1>2 DEF SInv, PeaceInv, Peace, Changing, UnderWay, Held, vars
  <2> QED
    BY <2>1, <2>2, <2>3 DEF SInv
<1> QED
  BY <1>1, <1>2

THEOREM Invariance == Spec => []SInv
BY InitSInv, StepSInv, PTL DEF Spec

\* Every variable keeps its type.
THEOREM TypeCorrect == Spec => []TypeOK
<1>1. SInv => TypeOK
  BY DEF SInv
<1> QED
  BY <1>1, Invariance, PTL

\* No request waits for a refresh that is not there, however many wait, whatever is
\* lost and whichever pages are loaded again.
THEOREM NobodyWaitsInVain == Spec => []WaitersHaveARefresh
<1>1. SInv => WaitersHaveARefresh
  BY Places DEF SInv, WaitersHaveARefresh, WaitInv, FlightInv, Active
<1> QED
  BY <1>1, Invariance, PTL

\* The session in the row is held by a browser, for any number of browsers, tabs and
\* requests that find their access token expired together.
THEOREM SessionsAreHeld == Spec => []SessionIsHeld
<1>1. SInv => SessionIsHeld
  BY DEF SInv, SessionIsHeld, PeaceInv, Peace, Held, Changing
<1> QED
  BY <1>1, Invariance, PTL
===============================================================================
