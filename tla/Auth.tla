--------------------------------- MODULE Auth ---------------------------------
(***************************************************************************)
(* One browser, its session and the account requests it sends, on top of   *)
(* Accounts: src/server/auth.js, requireLogin and the pages of server.js,  *)
(* passport and connect-flash over connect's cookieSession.                *)
(*                                                                         *)
(* The session is nowhere but in the cookie.  A request carries the cookie *)
(* the browser holds when it is sent; its handler works on that copy; the  *)
(* answer brings a new cookie if, and only if, the copy was changed.       *)
(***************************************************************************)
EXTENDS Accounts

CONSTANTS
    Places,         \* pages a login page is reached from
    Home,           \* "/", one of them
    Same,           \* a handler leaves this part of the session alone
    MaxMessages,    \* bound: flash messages queued in one behaviour
    MaxVisits       \* bound: requests sent in one behaviour

ASSUME AuthAssumption ==
    /\ Home \in Places
    /\ Same \notin Places /\ Same \notin 0..MaxId
    /\ MaxMessages \in Nat
    /\ MaxVisits \in Nat

VARIABLES
    cookie,     \* the session in the browser's cookie
    sent,       \* the copy each request works on
    visit,      \* what each request is
    visits,     \* requests sent so far
    queued,     \* flash messages queued so far: messages are numbered
    ideal,      \* history: the session a server would have kept for the browser
    stale,      \* history: an answer has changed a copy older than the cookie
    shown       \* history: messages some page has shown

sessionVars == <<cookie, sent, visit, visits, queued, ideal, stale, shown>>
vars == <<accountVars, sessionVars>>

\* What else a request asks for is chosen when its handler runs.
Visits == {"none", "account", "other"}

\* keys: 0 there is no cookie, 1 passport has made one, 2 connect-flash, too
Sessions == [user: 0..MaxId, flash: SUBSET (1..MaxMessages),
             referer: Places \cup {""}, keys: 0..2]

AuthTypeOK ==
    /\ TypeOK
    /\ cookie \in Sessions /\ ideal \in Sessions
    /\ sent \in [Requests -> Sessions]
    /\ visit \in [Requests -> Visits]
    /\ visits \in 0..MaxVisits
    /\ queued \in 0..MaxMessages
    /\ stale \in BOOLEAN
    /\ shown \in SUBSET (1..MaxMessages)
    /\ \A r \in Requests : visit[r] = "account" <=> pc[r] # "idle"

NoSession == [user |-> 0, flash |-> {}, referer |-> "", keys |-> 0]

AuthInit ==
    /\ Init
    /\ cookie = NoSession
    /\ sent = [r \in Requests |-> NoSession]
    /\ visit = [r \in Requests |-> "none"]
    /\ visits = 0
    /\ queued = 0
    /\ ideal = NoSession
    /\ stale = FALSE
    /\ shown = {}

-----------------------------------------------------------------------------
(* What a handler does to a session: it may set the user and the referer,  *)
(* take all messages out (modelFor calls req.flash()) and queue one.       *)

Nothing == [user |-> Same, referer |-> Same, consumes |-> FALSE, queues |-> FALSE]

After(s, op) ==
    [user |-> IF op.user = Same THEN s.user ELSE op.user,
     referer |-> IF op.referer = Same THEN s.referer ELSE op.referer,
     flash |-> (IF op.consumes THEN {} ELSE s.flash)
                  \cup (IF op.queues THEN {queued + 1} ELSE {}),
     keys |-> IF op.consumes \/ op.queues \/ s.keys = 2 THEN 2 ELSE 1]

\* Mutant: no comparison.
AlwaysWrites(r, new) == TRUE

\* cookieSession: compare with what the request brought.
Writes(r, new) == new # sent[r]

Send(r, v) ==
    /\ visit[r] = "none"
    /\ visits < MaxVisits
    /\ visits' = visits + 1
    /\ visit' = [visit EXCEPT ![r] = v]
    /\ sent' = [sent EXCEPT ![r] = cookie]
    /\ UNCHANGED <<cookie, queued, ideal, stale, shown>>

\* The answer to r, whose handler does op and shows the messages it takes out
\* if it renders a page.
Answer(r, op, shows) ==
    LET new == After(sent[r], op) IN
    /\ op.queues => queued < MaxMessages
    /\ queued' = IF op.queues THEN queued + 1 ELSE queued
    /\ cookie' = IF Writes(r, new) THEN new ELSE cookie
    /\ ideal' = IF new = sent[r] THEN ideal ELSE After(ideal, op)
    /\ stale' = IF cookie' = ideal' THEN FALSE
                ELSE stale \/ (new # sent[r] /\ sent[r] # cookie)
    /\ shown' = IF shows THEN shown \cup sent[r].flash ELSE shown
    /\ visit' = [visit EXCEPT ![r] = "none"]
    /\ sent' = [sent EXCEPT ![r] = NoSession]
    /\ UNCHANGED visits

Redirects(r, op) == Answer(r, op, FALSE)
Renders(r, op) == Answer(r, [op EXCEPT !.consumes = TRUE], TRUE)

\* errorHandler: any error ends on a page that shows what is queued.
RendersError(r) == Renders(r, Nothing)

Queue(op) == [op EXCEPT !.queues = TRUE]

-----------------------------------------------------------------------------
(* The handlers. *)

\* /about, /register, /resetPassword, /feeds of somebody not logged in, ...
Page(r) == visit[r] = "other" /\ Renders(r, Nothing)

\* handleRefererHeaderUsingLoginPage ignores a missing referer and the login
\* page itself; the button on the page leads to /auth/google.
From == {Nothing} \cup {[Nothing EXCEPT !.referer = p] : p \in Places}

LoginPage(r) == visit[r] = "other" /\ \E op \in From : Renders(r, op)

ToGoogle(r) == visit[r] = "other" /\ \E op \in From : Redirects(r, op)

\* requireLogin sends a stranger to the login page.  modelFor takes the
\* messages before the homepage knows whether it renders, redirects to /feeds
\* or fails.
HomePage(r) ==
    /\ visit[r] = "other"
    /\ IF sent[r].user = 0
          THEN Redirects(r, Queue([Nothing EXCEPT !.referer = Home]))
          ELSE \/ Renders(r, Nothing)
               \/ Redirects(r, [Nothing EXCEPT !.consumes = TRUE])

\* Mutant: logging out empties the session.
LogoutForgets(r) ==
    visit[r] = "other" /\ Redirects(r, [Nothing EXCEPT !.user = 0, !.consumes = TRUE])

Logout(r) == visit[r] = "other" /\ Redirects(r, [Nothing EXCEPT !.user = 0])

LogsIn(r, u) == Redirects(r, [Nothing EXCEPT !.user = u])

\* POST /auth/local: authHandler.
LocalLogin(r) ==
    /\ visit[r] = "other"
    /\ \/ \E row \in passwords : LogsIn(r, row.user)
       \/ Redirects(r, Queue(Nothing))
       \/ RendersError(r)

\* Uploads, subscriptions and password resets queue a message and redirect.
Post(r) == visit[r] = "other" /\ (Redirects(r, Queue(Nothing)) \/ RendersError(r))

\* Calls of the page's scripts: a failing one is answered with the error
\* page, which nobody sees.
Call(r) ==
    /\ visit[r] = "other"
    /\ Redirects(r, Nothing) \/ Redirects(r, [Nothing EXCEPT !.consumes = TRUE])

\* Mutant: an answer leaves its request under way.
AccountAnswerTwice(r) ==
    /\ pc[r] = "done"
    /\ IF reply[r] = "welcome" THEN LogsIn(r, own[r]) ELSE RendersError(r)
    /\ UNCHANGED accountVars

\* POST /register and /auth/google/return, once the data layer is done.  A
\* refused registration queues its message and renders the page with it.
AccountAnswer(r) ==
    /\ pc[r] = "done"
    /\ IF reply[r] = "welcome" THEN LogsIn(r, own[r]) ELSE RendersError(r)
    /\ Finish(r)

-----------------------------------------------------------------------------
SendsOther(r) == Send(r, "other") /\ UNCHANGED accountVars

SendsAccount(r) == (Register(r) \/ GoogleReturn(r)) /\ Send(r, "account")

OtherAnswer(r) ==
    /\ \/ Page(r) \/ LoginPage(r) \/ ToGoogle(r) \/ HomePage(r)
       \/ Logout(r) \/ LocalLogin(r) \/ Post(r) \/ Call(r)
    /\ UNCHANGED accountVars

AccountSteps(r) == (RegisterSteps(r) \/ GoogleSteps(r)) /\ UNCHANGED sessionVars

\* Requests under way are lost; the cookie is the browser's.
Restart ==
    /\ Crash
    /\ visit' = [r \in Requests |-> "none"]
    /\ sent' = [r \in Requests |-> NoSession]
    /\ UNCHANGED <<cookie, visits, queued, ideal, stale, shown>>

AuthNext ==
    \/ \E r \in Requests :
          SendsOther(r) \/ SendsAccount(r) \/ OtherAnswer(r) \/ AccountSteps(r) \/ AccountAnswer(r)
    \/ Restart

AuthSpec == AuthInit /\ [][AuthNext]_vars

\* Statements are answered, waits for a key end (lock wait timeout), promises
\* are called back.
AuthFairSpec ==
    AuthSpec /\ \A r \in Requests : WF_vars(AccountSteps(r) \/ AccountAnswer(r))

-----------------------------------------------------------------------------
(* Properties. *)

\* The cookie is as good as a session kept by the server, who is logged in,
\* the messages not yet shown and the way back from the login page included,
\* until an answer changes a copy of it that was older than the cookie.
CookieIsSession == stale \/ cookie = ideal

\* Whoever is logged in, by whichever path, has an account.
SessionHasAccount ==
    \A s \in {cookie} \cup {sent[r] : r \in Requests} : s.user # 0 => s.user \in Owners

\* A message is gone from the cookie without having been on a page only by a
\* homepage that redirects to /feeds or a failing call of a script, or by an
\* answer with an older copy.
MessagesShown ==
    [][\A m \in cookie.flash \ cookie'.flash :
          \/ m \in shown'
          \/ \E r \in Requests :
                \/ HomePage(r) \/ Call(r)
                \/ visit[r] # "none" /\ visit'[r] = "none" /\ sent[r] # cookie]_vars

\* Registrations and Google logins are answered, but for the registration
\* that has lost its connection, whose ROLLBACK never returns.
AccountRequestsEnd ==
    \A r \in Requests :
       pc[r] # "idle" ~> \/ pc[r] = "idle"
                         \/ pc[r] = "hung" /\ form[r] \in Registrations

=============================================================================
