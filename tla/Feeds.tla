-------------------------------- MODULE Feeds --------------------------------
(***************************************************************************)
(* The handlers of src/server/feeds.js around the table of Subscriptions,  *)
(* and the page /feeds in the browser (src/client/feeds.js).               *)
(*                                                                         *)
(* An upload is read, parsed and saved; a subscription fetches the address *)
(* and, when that is no feed, searches the page for one and fetches again. *)
(* The page lists the rows the server read when it was loaded; its links   *)
(* call /feeds/unsubscribe while uploads, subscriptions and other tabs go  *)
(* on.  One user's requests and tabs are modelled; the addresses are those *)
(* the handler has after it put "http://" in front.                        *)
(***************************************************************************)
EXTENDS Subscriptions

CONSTANTS
    Uploads,    \* the lists an uploaded file may hold
    Anonymous,  \* the requests made without a login
    FeedUrls,   \* the addresses that serve a feed
    Title,      \* the title of each of them
    Links,      \* the feeds each page links to
    Length,     \* the length of each address
    NoUrl,      \* "no address"
    Tabs        \* the browser's tabs with the page

Entry(u) == [url |-> u, name |-> Title[u]]

ASSUME FeedsAssumption ==
    /\ Uploads \subseteq Lists
    /\ Anonymous \subseteq Requests
    /\ FeedUrls \subseteq Urls
    /\ \A u \in FeedUrls : <<Entry(u)>> \in Lists
    /\ Links \in [Urls -> SUBSET Urls]
    /\ Length \in [Urls -> Nat]
    /\ NoUrl \notin Urls

VARIABLES
    stage,    \* where the handler of each request is
    target,   \* its subscribeUrl
    answer,   \* what it answered
    tab,      \* whether each tab has the page
    page,     \* the rows it was rendered with: their urls, by id
    link,     \* what each row's "unsubscribe" link shows or waits for
    deleted   \* history: urls of the page deleted since it was rendered

handlerVars == <<stage, target, answer>>
pageVars == <<tab, page, link, deleted>>
feedsVars == <<vars, handlerVars, pageVars>>

Fetching == {"meta", "searching", "metaAgain"}

\* "unhandled" and "silent" are never answered.
Stages == {"idle", "reading", "saving", "unhandled", "silent"} \cup Fetching

FeedsTypeOK ==
    /\ TypeOK
    /\ stage \in [Requests -> Stages]
    /\ target \in [Requests -> Urls \cup {NoUrl}]
    /\ answer \in [Requests -> {"none", "error", "uploaded", "subscribed"}]
    /\ tab \in [Tabs -> {"asking", "open", "unanswered"}]
    /\ page \in [Tabs -> [1..MaxIds -> Urls \cup {NoUrl}]]
    /\ link \in [Tabs -> [1..MaxIds -> {"none", "shown", "sent", "done", "refused", "gone"}]]
    /\ deleted \in [Tabs -> SUBSET Urls]
    /\ \A r \in Requests : stage[r] \in Fetching => target[r] \in Urls
    /\ \A r \in Requests : stage[r] # "saving" => pc[r] \in Ended

NoRows == [i \in 1..MaxIds |-> NoUrl]
NoLinks == [i \in 1..MaxIds |-> "none"]

FeedsInit ==
    /\ Init
    /\ stage = [r \in Requests |-> "idle"]
    /\ target = [r \in Requests |-> NoUrl]
    /\ answer = [r \in Requests |-> "none"]
    /\ tab = [t \in Tabs |-> "asking"]
    /\ page = [t \in Tabs |-> NoRows]
    /\ link = [t \in Tabs |-> NoLinks]
    /\ deleted = [t \in Tabs |-> {}]

-----------------------------------------------------------------------------
(* The handlers. *)

Goes(r, s) == stage' = [stage EXCEPT ![r] = s] /\ UNCHANGED answer

GoTo(r, s) == Goes(r, s) /\ UNCHANGED target

Answer(r, a) ==
    /\ stage' = [stage EXCEPT ![r] = "idle"]
    /\ answer' = [answer EXCEPT ![r] = a]
    /\ target' = [target EXCEPT ![r] = NoUrl]

Receive(r, s, u) ==
    /\ stage[r] = "idle"
    /\ stage' = [stage EXCEPT ![r] = s]
    /\ target' = [target EXCEPT ![r] = u]
    /\ answer' = [answer EXCEPT ![r] = "none"]
    /\ UNCHANGED <<vars, pageVars>>

\* POST /feeds
ReceiveUpload(r) == Receive(r, "reading", NoUrl)

\* POST /feeds/subscribe
ReceiveSubscribe(r, u) == Receive(r, "meta", u)

\* The file is missing, no XML or no OPML: the rejected promise has no handler.
CannotParse(r) ==
    /\ stage[r] = "reading"
    /\ GoTo(r, "unhandled")
    /\ UNCHANGED <<vars, pageVars>>

\* request.user.id throws where nothing catches it.
ParsedForNobody(r) ==
    /\ stage[r] = "reading" /\ r \in Anonymous
    /\ GoTo(r, "unhandled")
    /\ UNCHANGED <<vars, pageVars>>

Parsed(r, l) ==
    /\ stage[r] = "reading" /\ r \notin Anonymous
    /\ Save(r, l)
    /\ GoTo(r, "saving")
    /\ UNCHANGED pageVars

\* loadMeta resolves.
MetaArrives(r) ==
    /\ stage[r] \in {"meta", "metaAgain"} /\ target[r] \in FeedUrls
    /\ IF r \in Anonymous
          THEN Answer(r, "error") /\ UNCHANGED vars
          ELSE Save(r, <<Entry(target[r])>>) /\ GoTo(r, "saving")
    /\ UNCHANGED pageVars

\* "Not a feed": only the first time it is searched for one.
NotAFeed(r) ==
    /\ stage[r] \in {"meta", "metaAgain"} /\ target[r] \notin FeedUrls
    /\ IF stage[r] = "meta" THEN GoTo(r, "searching") ELSE Answer(r, "error")
    /\ UNCHANGED <<vars, pageVars>>

Shortest(S) == {u \in S : \A v \in S : Length[u] <= Length[v]}

\* Mutant: what the page links to is saved without a look at it.
FoundIsSaved(r) ==
    /\ stage[r] = "searching"
    /\ \E u \in Shortest(Links[target[r]]) :
          /\ target' = [target EXCEPT ![r] = u]
          /\ Save(r, <<Entry(u)>>)
    /\ Goes(r, "saving")
    /\ UNCHANGED pageVars

\* locateFeedWithFeedFinder resolves with the shortest link.
FindsFeed(r) ==
    /\ stage[r] = "searching"
    /\ \E u \in Shortest(Links[target[r]]) : target' = [target EXCEPT ![r] = u]
    /\ Goes(r, "metaAgain")
    /\ UNCHANGED <<vars, pageVars>>

FindsNothing(r) ==
    /\ stage[r] = "searching" /\ Links[target[r]] = {}
    /\ Answer(r, "error")
    /\ UNCHANGED <<vars, pageVars>>

\* The site cannot be reached, breaks off or answers with an error status.
SiteFails(r) ==
    /\ stage[r] \in Fetching
    /\ Answer(r, "error")
    /\ UNCHANGED <<vars, pageVars>>

\* The site takes the request and never answers: no timeout is set.
SiteIsSilent(r) ==
    /\ stage[r] \in Fetching
    /\ GoTo(r, "silent")
    /\ UNCHANGED <<vars, pageVars>>

\* request.flash, response.redirect("/feeds")
Saved(r) ==
    /\ stage[r] = "saving" /\ pc[r] = "saved"
    /\ Answer(r, IF target[r] = NoUrl THEN "uploaded" ELSE "subscribed")
    /\ UNCHANGED <<vars, pageVars>>

\* Mutant: a failed save rejects a promise without handler.
SaveFailsUnhandled(r) ==
    /\ stage[r] = "saving" /\ pc[r] = "failed"
    /\ GoTo(r, "unhandled")
    /\ UNCHANGED <<vars, pageVars>>

\* next(err)
SaveFails(r) ==
    /\ stage[r] = "saving" /\ pc[r] = "failed"
    /\ Answer(r, "error")
    /\ UNCHANGED <<vars, pageVars>>

\* A statement of saveSubscriptions.
SaveStep(r) == Step(r) /\ UNCHANGED <<handlerVars, pageVars>>

-----------------------------------------------------------------------------
(* The page. *)

\* GET /feeds: the tab is opened or loaded again.
AskForPage(t) ==
    /\ tab[t] # "asking"
    /\ tab' = [tab EXCEPT ![t] = "asking"]
    /\ page' = [page EXCEPT ![t] = NoRows]
    /\ link' = [link EXCEPT ![t] = NoLinks]
    /\ UNCHANGED <<vars, handlerVars, deleted>>

RowUrl(i) == IF \E s \in subs : s.id = i THEN (CHOOSE s \in subs : s.id = i).url ELSE NoUrl

RenderPage(t) ==
    /\ tab[t] = "asking"
    /\ tab' = [tab EXCEPT ![t] = "open"]
    /\ page' = [page EXCEPT ![t] = [i \in 1..MaxIds |-> RowUrl(i)]]
    /\ link' = [link EXCEPT ![t] = [i \in 1..MaxIds |-> IF RowUrl(i) = NoUrl THEN "none" ELSE "shown"]]
    /\ deleted' = [deleted EXCEPT ![t] = {}]
    /\ UNCHANGED <<vars, handlerVars>>

\* loadSubscriptions fails: nothing handles that, either.
ListFails(t) ==
    /\ tab[t] = "asking"
    /\ tab' = [tab EXCEPT ![t] = "unanswered"]
    /\ UNCHANGED <<vars, handlerVars, page, link, deleted>>

LinkGoes(t, i, from, to) == link[t][i] = from /\ link' = [link EXCEPT ![t][i] = to]

\* anchor.hide() and the call
Click(t, i) ==
    /\ LinkGoes(t, i, "shown", "sent")
    /\ UNCHANGED <<vars, handlerVars, tab, page, deleted>>

\* The rows of the url are deleted.
Delete(u) ==
    /\ Unsubscribe(u)
    /\ deleted' = [t \in Tabs |-> deleted[t] \cup {page[t][i] : i \in {j \in 1..MaxIds : page[t][j] = u}}]

\* handleUnsubscribe; the answer may be lost.
CallDeletes(t, i) ==
    /\ \E a \in {"done", "refused"} : LinkGoes(t, i, "sent", a)
    /\ Delete(page[t][i])
    /\ UNCHANGED <<handlerVars, tab, page>>

\* No connection, no login any more, a statement that fails: next(err).
CallFails(t, i) ==
    /\ LinkGoes(t, i, "sent", "refused")
    /\ UNCHANGED <<vars, handlerVars, tab, page, deleted>>

\* Mutant: the row goes however the call ended.
RemoveRowAnyway(t, i) ==
    /\ \E a \in {"done", "refused"} : LinkGoes(t, i, a, "gone")
    /\ UNCHANGED <<vars, handlerVars, tab, page, deleted>>

\* success: row.remove()
RemoveRow(t, i) ==
    /\ LinkGoes(t, i, "done", "gone")
    /\ UNCHANGED <<vars, handlerVars, tab, page, deleted>>

\* Mutant: no error handler.
ShowNothing(t, i) == link[t][i] = "refused" /\ UNCHANGED feedsVars

\* error: anchor.show()
ShowLink(t, i) ==
    /\ LinkGoes(t, i, "refused", "shown")
    /\ UNCHANGED <<vars, handlerVars, tab, page, deleted>>

\* A page that is left behind, or another browser, unsubscribes.
UnsubscribeElsewhere(u) ==
    /\ Delete(u)
    /\ UNCHANGED <<handlerVars, tab, page, link>>

-----------------------------------------------------------------------------
SiteAnswers(r) ==
    MetaArrives(r) \/ NotAFeed(r) \/ FindsFeed(r) \/ FindsNothing(r)
    \/ SiteFails(r) \/ SiteIsSilent(r)

ReadsUpload(r) ==
    CannotParse(r) \/ ParsedForNobody(r) \/ \E l \in Uploads : Parsed(r, l)

Handles(r) == ReadsUpload(r) \/ SiteAnswers(r) \/ SaveStep(r) \/ Saved(r) \/ SaveFails(r)

CallGoesOn(t, i) == CallDeletes(t, i) \/ CallFails(t, i) \/ RemoveRow(t, i) \/ ShowLink(t, i)

FeedsNext ==
    \/ \E r \in Requests :
          ReceiveUpload(r) \/ (\E u \in Urls : ReceiveSubscribe(r, u)) \/ Handles(r)
    \/ \E t \in Tabs :
          \/ AskForPage(t) \/ RenderPage(t) \/ ListFails(t)
          \/ \E i \in 1..MaxIds : Click(t, i) \/ CallGoesOn(t, i)
    \/ \E u \in Urls : UnsubscribeElsewhere(u)

FeedsSpec == FeedsInit /\ [][FeedsNext]_feedsVars

\* The database and the web sites answer, fail or are given up as silent; the
\* browser's call to the server ends.  Nobody has to ask for anything.
FeedsFairness ==
    /\ \A r \in Requests : WF_feedsVars(Handles(r))
    /\ \A t \in Tabs : \A i \in 1..MaxIds : WF_feedsVars(CallGoesOn(t, i))

FeedsFairSpec == FeedsSpec /\ FeedsFairness

-----------------------------------------------------------------------------
(* Properties. *)

\* What the user is told is true: "You have subscribed to feed" only of an
\* address that serves a feed, and like "Upload complete" only when each feed
\* has its row, though other requests save, rename and fail meanwhile; but for
\* what was unsubscribed after the save began.
AnswersAreTrue ==
    \A r \in Requests : answer[r] \in {"uploaded", "subscribed"} =>
       /\ answer[r] = "subscribed" => \E u \in FeedUrls : list[r] = <<Entry(u)>>
       /\ \A i \in DOMAIN list[r] : Subscribed(list[r][i].url) \/ list[r][i].url \in removed[r]

\* A row that has left the page was unsubscribed after the page was loaded,
\* whatever became of the call's answer.
GoneIsUnsubscribed ==
    \A t \in Tabs : \A i \in 1..MaxIds : link[t][i] = "gone" => page[t][i] \in deleted[t]

\* A clicked link ends as a removed row or comes back, unless the page is left.
ClicksEnd ==
    \A t \in Tabs : \A i \in 1..MaxIds :
       link[t][i] = "sent" ~> link[t][i] \in {"shown", "gone", "none"}

\* Every request is answered, whatever fails, but for a subscription to a site
\* that keeps silent and for an upload that cannot be read; a save that was
\* begun always is.
RequestsEnd ==
    \A r \in Requests :
       /\ stage[r] = "saving" ~> stage[r] = "idle"
       /\ stage[r] # "idle" ~> stage[r] \in {"idle", "silent", "unhandled"}

=============================================================================
