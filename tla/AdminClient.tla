---------------------------- MODULE AdminClient -----------------------------
(***************************************************************************)
(* The administrator's browser (api-client.ts, auth-provider.tsx) and the  *)
(* sessions it lives on.                                                   *)
(*                                                                         *)
(* One page is modelled in full: its requests, its isRefreshing flag and   *)
(* its queue.  The refresh token is in localStorage, which the other pages *)
(* of the browser use as well (OtherPage).  Between two awaits a page is   *)
(* not interrupted, so what follows an answer, up to the next await, is    *)
(* one step.                                                               *)
(*                                                                         *)
(* The access token is left out: any request may be answered with 401.     *)
(***************************************************************************)
EXTENDS Sessions

CONSTANTS
  Requests,       \* the requests the page may have under way
  MaxBusy,        \* bound: what may be begun at once, by the page and other devices
  NoInvocation    \* no invocation of refreshToken

ASSUME NoInvocationAssumption == NoInvocation \notin Calls

VARIABLES
  stored,         \* the refresh token in localStorage, or NoToken
  requests,       \* the requests of the page
  refresh,        \* its refresh, while isRefreshing
  abandoned       \* whether the page was left while it exchanged the stored token

clientVars == <<stored, requests, refresh, abandoned>>
vars == <<registered, tokens, calls, stored, requests, refresh, abandoned>>

RequestStates ==
  [ at    : {"idle", "sent", "waiting", "refreshing", "retried", "left"},
    kind  : {"page", "logout"},
    token : Tokens \cup {NoToken} ]       \* the one a logout names

Idle == [ at |-> "idle", kind |-> "page", token |-> NoToken ]

RefreshStates ==
  [ phase : {"none", "posted", "running", "answered"},
    token : Tokens \cup {NoToken},        \* presented
    call  : Calls \cup {NoInvocation},    \* the invocation that serves it
    reply : Tokens \cup {NoToken} ]       \* NoToken: it failed

NoRefresh == [ phase |-> "none", token |-> NoToken, call |-> NoInvocation,
               reply |-> NoToken ]

\* One type invariant for the backend's tokens and the browser.
TypeOK ==
  /\ ServerTypeOK
  /\ stored \in Tokens \cup {NoToken}
  /\ requests \in [Requests -> RequestStates]
  /\ refresh \in RefreshStates
  /\ abandoned \in BOOLEAN

Init ==
  /\ ServerInit
  /\ stored = NoToken
  /\ requests = [r \in Requests |-> Idle]
  /\ refresh = NoRefresh
  /\ abandoned = FALSE

isRefreshing == refresh.phase # "none"
Go(r, at) == requests' = [requests EXCEPT ![r].at = at]

\* What becomes of a request that is over: a logout goes on to its finally.
Settled(req) == IF req.kind = "logout" THEN [Idle EXCEPT !.at = "left"] ELSE Idle

\* localStorage is written.
Store(t) ==
  /\ stored' = t
  /\ abandoned' = (abandoned /\ t = stored)

\* An invocation no page waits for: another device's, or a login.
Unlinked(c) == refresh.call # c

\* The bound on what goes on at once.
Quiet ==
  Cardinality({ r \in Requests : requests[r].at # "idle" })
    + Cardinality({ c \in Calls : calls[c].op # "none" /\ Unlinked(c) }) < MaxBusy

-----------------------------------------------------------------------------
\* A page asks for something.
Send(r) ==
  /\ Quiet
  /\ requests[r].at = "idle"
  /\ Go(r, "sent")
  /\ UNCHANGED <<serverVars, stored, refresh, abandoned>>

\* logout of AuthProvider: the token is read from the storage once, at its start.
StartLogout(r) ==
  /\ Quiet
  /\ requests[r].at = "idle"
  /\ requests' = [requests EXCEPT ![r] =
                    [ at |-> "sent", kind |-> "logout", token |-> stored ]]
  /\ UNCHANGED <<serverVars, stored, refresh, abandoned>>

\* The page is left or loaded again: its requests, its queue and its flag are
\* gone.  What initAuth then asks, who is signed in, is a request like others.
Reload ==
  /\ requests' = [r \in Requests |-> Idle]
  /\ refresh' = NoRefresh
  /\ abandoned' = (abandoned \/ (isRefreshing /\ refresh.token = stored))
  /\ UNCHANGED <<serverVars, stored>>

\* A request is served.  A logout without a token ends every session.
Served(r) ==
  /\ requests[r].at \in {"sent", "retried"}
  /\ IF requests[r].kind # "logout" THEN UNCHANGED serverVars
     ELSE Revoke(IF requests[r].token = NoToken THEN Tokens ELSE {requests[r].token})
  /\ requests' = [requests EXCEPT ![r] = Settled(@)]
  /\ UNCHANGED <<stored, refresh, abandoned>>

\* It fails otherwise than by a first 401.  When it is initAuth's, the storage
\* is cleared, whatever the failure was.
Fails(r) ==
  /\ requests[r].at \in {"sent", "retried"}
  /\ requests' = [requests EXCEPT ![r] = Settled(@)]
  /\ \/ UNCHANGED <<stored, abandoned>>
     \/ requests[r].kind = "page" /\ Store(NoToken)
  /\ UNCHANGED <<serverVars, refresh>>

\* The finally of logout.
Leave(r) ==
  /\ requests[r].at = "left"
  /\ requests' = [requests EXCEPT ![r] = Idle]
  /\ Store(NoToken)
  /\ UNCHANGED <<serverVars, refresh>>

-----------------------------------------------------------------------------
\* The first 401 of a request, while the page refreshes already: it queues.
Queue(r) ==
  /\ requests[r].at = "sent"
  /\ isRefreshing
  /\ Go(r, "waiting")
  /\ UNCHANGED <<serverVars, stored, refresh, abandoned>>

\* ... while nothing is stored: it is rejected.
Reject(r) ==
  /\ requests[r].at = "sent"
  /\ ~isRefreshing
  /\ stored = NoToken
  /\ requests' = [requests EXCEPT ![r] = Settled(@)]
  /\ UNCHANGED <<serverVars, stored, refresh, abandoned>>

\* ... otherwise the page presents the stored token.
FlagIgnored == TRUE
NotRefreshing == ~isRefreshing
StartRefresh(r) ==
  /\ requests[r].at = "sent"
  /\ NotRefreshing
  /\ stored # NoToken
  /\ Go(r, "refreshing")
  /\ refresh' = [NoRefresh EXCEPT !.phase = "posted", !.token = stored]
  /\ UNCHANGED <<serverVars, stored, abandoned>>

\* The backend takes it up ...
TakeUp(c) ==
  /\ refresh.phase = "posted"
  /\ ReadForRefresh(c, refresh.token)
  /\ refresh' = [refresh EXCEPT !.phase = "running", !.call = c]
  /\ UNCHANGED <<stored, requests, abandoned>>

Answer(reply) ==
  refresh' = [refresh EXCEPT !.phase = "answered", !.call = NoInvocation,
                             !.reply = reply]

\* ... and answers with the new token, or with an error.
AnswerRefresh(c) ==
  /\ refresh.call = c
  /\ \/ CommitIssue(c) /\ Answer(NextToken)
     \/ AbortCall(c) /\ Answer(NoToken)
  /\ UNCHANGED <<stored, requests, abandoned>>

\* The token is refused, or the answer does not get through; the invocation,
\* if there is one, goes on.
AnswerLost ==
  /\ refresh.phase \in {"posted", "running"}
  /\ Answer(NoToken)
  /\ UNCHANGED <<serverVars, stored, requests, abandoned>>

\* The queue, and the request that refreshes.
QueueForgotten == { r \in Requests : requests[r].at = "refreshing" }
Queued == { r \in Requests : requests[r].at \in {"waiting", "refreshing"} }

\* The new tokens are stored, and what was queued is sent again.
Refreshed ==
  /\ refresh.phase = "answered"
  /\ refresh.reply # NoToken
  /\ Store(refresh.reply)
  /\ requests' = [r \in Requests |->
                    IF r \in Queued THEN [requests[r] EXCEPT !.at = "retried"]
                    ELSE requests[r]]
  /\ refresh' = NoRefresh
  /\ UNCHANGED serverVars

\* What a failed refresh leaves in the storage (clearAll).
TokensKept == stored
TokensCleared == NoToken

\* The storage is cleared, and what was queued is rejected.
NotRefreshed ==
  /\ refresh.phase = "answered"
  /\ refresh.reply = NoToken
  /\ Store(TokensCleared)
  /\ requests' = [r \in Requests |->
                    IF r \in Queued THEN Settled(requests[r]) ELSE requests[r]]
  /\ refresh' = NoRefresh
  /\ UNCHANGED serverVars

-----------------------------------------------------------------------------
\* A token that is, or is about to be, in this browser.
Ours(t) == t \in {stored, refresh.token, refresh.reply}

\* A login, of this browser when nothing is stored, or of another device.
SignIn(c) ==
  /\ Unlinked(c)
  /\ CommitIssue(c)
  /\ \/ UNCHANGED <<stored, abandoned>>
     \/ calls[c].op = "login" /\ stored = NoToken /\ Store(NextToken)
  /\ UNCHANGED <<requests, refresh>>

\* Another page of this browser exchanges the stored token, which takes an
\* invocation as well, or clears the storage because it has signed out or could
\* not refresh.
OtherPage ==
  /\ stored # NoToken
  /\ \/ /\ \E c \in Calls : calls[c].op = "none"
        /\ tokens[stored] = "active"
        /\ Issue(stored, Overflow)
        /\ Store(NextToken)
     \/ Store(NoToken) /\ UNCHANGED tokens
  /\ UNCHANGED <<registered, calls, requests, refresh>>

\* The rest of the backend.
Backend ==
  /\ \/ \E c \in Calls :
          \/ Quiet /\ (ReadForRegister(c) \/ ReadForLogin(c))
          \/ Quiet /\ \E t \in Tokens : ~Ours(t) /\ ReadForRefresh(c, t)
          \/ Unlinked(c) /\ AbortCall(c)
     \/ \E t \in Tokens : RevokeOne(t) \/ Cleanup(t)
     \/ RevokeAll
  /\ UNCHANGED clientVars

PageStep(r) ==
  \/ Send(r) \/ StartLogout(r) \/ Served(r) \/ Fails(r) \/ Leave(r)
  \/ Queue(r) \/ Reject(r) \/ StartRefresh(r)

RefreshStep ==
  \/ AnswerLost \/ Refreshed \/ NotRefreshed
  \/ \E c \in Calls : TakeUp(c) \/ AnswerRefresh(c)

Next ==
  \/ \E r \in Requests : PageStep(r)
  \/ RefreshStep
  \/ Reload
  \/ \E c \in Calls : SignIn(c)
  \/ OtherPage
  \/ Backend

Spec == Init /\ [][Next]_vars

\* Requests are answered, in the end by an error of the connection, and a page
\* handles an answer.
Fairness ==
  /\ \A r \in Requests :
       /\ WF_vars(Served(r) \/ Fails(r) \/ Queue(r) \/ Reject(r) \/ StartRefresh(r))
       /\ WF_vars(Leave(r))
  /\ WF_vars(RefreshStep)

FairSpec == Spec /\ Fairness

-----------------------------------------------------------------------------
\* Logins and refreshes at once may each leave room for the same one token, so
\* the limit on sessions is exceeded, but only by those that were in flight.
SessionLimitOnlyByRacing ==
  Cardinality(Active) <= MaxSessions - 1 + Cardinality(Calls)

\* A page waits for a refresh only while there is one, and then it is exactly
\* one request of the page that refreshes for all of them.
WaitersHaveRefresh ==
  /\ isRefreshing <=> \E r \in Requests : requests[r].at = "refreshing"
  /\ isRefreshing \/ \A r \in Requests : requests[r].at # "waiting"
  /\ \A q, r \in Requests :
       requests[q].at = "refreshing" /\ requests[r].at = "refreshing" => q = r

\* The browser does not keep a token that has been exchanged for another one,
\* which would end its session at the next refresh: unless the exchange is
\* still under way, or its page was left in the middle of it.
RotatedTokensAreReplaced ==
  stored # NoToken /\ tokens[stored] = "rotated"
    => abandoned \/ refresh.token = stored

\* No request of a page waits for ever: neither when its refresh fails nor when
\* another one of the page started it.
RequestsSettle ==
  \A r \in Requests : requests[r].at # "idle" ~> requests[r].at = "idle"

=============================================================================
