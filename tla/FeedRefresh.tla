----------------------------- MODULE FeedRefresh -----------------------------
(***************************************************************************)
(* GET /posts for one feed: loadFeedsThroughDatabase of posts.js with the  *)
(* data-layer calls it makes on rssUrlStatus and feedPosts.  Any number of *)
(* requests for the same feed run at once; each is a chain of statements   *)
(* and one download, and every step of it may fail or be the last thing    *)
(* the process does.                                                       *)
(*                                                                         *)
(* The web site behind the feed is the environment: it publishes posts,    *)
(* drops old ones from the feed and may move a post to another url.  A     *)
(* post is a record [article, url, date]; `article' is what a reader would *)
(* call the same text and is not visible to the program.                   *)
(***************************************************************************)
EXTENDS Naturals, Sequences, FiniteSets

CONSTANTS
    Requests,
    Posts,          \* everything the site may publish
    Period,         \* timeoutBetweenRssUrlUpdates, in ticks (2 hours)
    MaxTime,        \* bound: ticks of the clock in one behaviour
    StepsMayFail,   \* statements and downloads may fail, the process may stop
    Chronological   \* the site publishes dated posts in the order of dates

NoDate == 0       \* a post without a date; also "no post is stored yet"

ASSUME PostsAssumption ==
    \A p \in Posts : p = [article |-> p.article, url |-> p.url, date |-> p.date] /\ p.date \in Nat

ASSUME ClockAssumption == Period \in Nat \ {0} /\ MaxTime \in Nat

ASSUME FlagsAssumption ==
    /\ StepsMayFail \in BOOLEAN
    /\ Chronological \in BOOLEAN

VARIABLES
    feed,       \* the feed document, newest post first
    newest,     \* the latest date the site has published
    now,        \* the server's clock
    stored,     \* table feedPosts: posts as they were written
    status,     \* the feed's row of rssUrlStatus
    pc,         \* what each request does next, or how it was answered
    readTime,   \* new Date() when the request arrived
    latest,     \* previouslyLatestPostDate
    fetched,    \* the posts the download returned
    left,       \* the posts still to be written
    missed,     \* history: posts a refresh recorded as "ok" listed, while their
                \* text was not stored
    refreshed,  \* history: the latest readTime recorded as "ok"
    overlapped  \* history: an older refresh was under way at that moment

siteVars == <<feed, newest>>
dbVars == <<stored, status>>
history == <<missed, refreshed, overlapped>>
vars == <<siteVars, now, dbVars, pc, readTime, latest, fetched, left, history>>

Refreshing == {"latest", "download", "write", "error"}
Ended == {"idle", "answered", "empty"}

Dates == {p.date : p \in Posts} \cup 0..(MaxTime + 1)

\* A row keeps the post; a post without a date got the time of the refresh.
RowsOf(S) == [article : {p.article : p \in S}, url : {p.url : p \in S}, date : Dates]

TypeOK ==
    /\ feed \in Seq(Posts)
    /\ newest \in Dates
    /\ now \in 1..(MaxTime + 1)
    /\ stored \subseteq RowsOf(Posts)
    /\ status \in [value : {"none", "ok", "error"}, time : 0..(MaxTime + 1)]
    /\ pc \in [Requests -> Refreshing \cup Ended \cup {"check", "load"}]
    /\ readTime \in [Requests -> 0..(MaxTime + 1)]
    /\ latest \in [Requests -> Dates]
    /\ fetched \in [Requests -> SUBSET Posts]
    /\ left \in [Requests -> Seq(RowsOf(Posts))]
    /\ missed \subseteq Posts
    /\ refreshed \in 0..(MaxTime + 1)
    /\ overlapped \in BOOLEAN

Init ==
    /\ feed = <<>>
    /\ newest = NoDate
    /\ now = 1
    /\ stored = {}
    /\ status = [value |-> "none", time |-> 0]
    /\ pc = [r \in Requests |-> "idle"]
    /\ readTime = [r \in Requests |-> 0]
    /\ latest = [r \in Requests |-> NoDate]
    /\ fetched = [r \in Requests |-> {}]
    /\ left = [r \in Requests |-> <<>>]
    /\ missed = {}
    /\ refreshed = 0
    /\ overlapped = FALSE

-----------------------------------------------------------------------------
(* The site and the clock. *)

Listed == {feed[i] : i \in DOMAIN feed}

Publish(p) ==
    /\ \A q \in Listed : q.article # p.article /\ q.url # p.url
    /\ Chronological => p.date # NoDate /\ p.date >= newest
    /\ feed' = <<p>> \o feed
    /\ newest' = IF p.date > newest THEN p.date ELSE newest
    /\ UNCHANGED <<now, dbVars, pc, readTime, latest, fetched, left, history>>

DropOldest ==
    /\ feed # <<>>
    /\ feed' = SubSeq(feed, 1, Len(feed) - 1)
    /\ UNCHANGED <<newest, now, dbVars, pc, readTime, latest, fetched, left, history>>

MoveTo(i, p) ==
    /\ p # feed[i] /\ p.article = feed[i].article /\ p.date = feed[i].date
    /\ feed' = [feed EXCEPT ![i] = p]
    /\ UNCHANGED <<newest, now, dbVars, pc, readTime, latest, fetched, left, history>>

Tick ==
    /\ now <= MaxTime
    /\ now' = now + 1
    /\ UNCHANGED <<siteVars, dbVars, pc, readTime, latest, fetched, left, history>>

Site ==
    \/ \E p \in Posts : Publish(p)
    \/ DropOldest
    \/ \E i \in DOMAIN feed, p \in Posts : MoveTo(i, p)

-----------------------------------------------------------------------------
(* A request. *)

GoTo(r, next) == pc' = [pc EXCEPT ![r] = next]

\* The data of a refresh that has ended is garbage ...
ForgetPosts(r) ==
    /\ latest' = [latest EXCEPT ![r] = NoDate]
    /\ fetched' = [fetched EXCEPT ![r] = {}]
    /\ left' = [left EXCEPT ![r] = <<>>]

\* ... and so is the time of the request when its status is written.
Forget(r) == readTime' = [readTime EXCEPT ![r] = 0] /\ ForgetPosts(r)

\* The refresh is rejected: its .fail writes the status next.
Rejected(r) == GoTo(r, "error") /\ ForgetPosts(r) /\ UNCHANGED readTime

\* GET /posts
Arrive(r) ==
    /\ pc[r] \in Ended
    /\ readTime' = [readTime EXCEPT ![r] = now]
    /\ GoTo(r, "check")
    /\ UNCHANGED <<siteVars, now, dbVars, latest, fetched, left, history>>

\* Mutant: a failed refresh is tried again at once, "ok" or not.
NeedsUpdateUnlessOk(time) == status.value # "ok" \/ status.time + Period <= time

\* COUNT(*) = 0 ... lastModified > time - 2 hours
NeedsUpdate(time) == status.value = "none" \/ status.time + Period <= time

\* checkIfUrlNeedsUpdate
Check(r) ==
    /\ pc[r] = "check"
    /\ GoTo(r, IF NeedsUpdate(readTime[r]) THEN "latest" ELSE "load")
    /\ UNCHANGED <<siteVars, now, dbVars, readTime, latest, fetched, left, history>>

LastPostDate(d) ==
    IF stored = {} THEN d = NoDate
    ELSE d \in {s.date : s \in stored} /\ \A s \in stored : s.date <= d

\* getLastPostDate
ReadLatest(r) ==
    /\ pc[r] = "latest"
    /\ \E d \in Dates : LastPostDate(d) /\ latest' = [latest EXCEPT ![r] = d]
    /\ GoTo(r, "download")
    /\ UNCHANGED <<siteVars, now, dbVars, readTime, fetched, left, history>>

\* Mutant: the post of the last date is taken for a known one.
Newer(p, d) == p.date > d

\* Without a stored post nothing is filtered; a missing date is smaller than
\* any other in the comparison.
NotOlder(p, d) == p.date >= d

\* postRecord.postDate = new Date()
Record(p) == [p EXCEPT !.date = IF @ = NoDate THEN now ELSE @]

\* The filter, and the records writePostsToDatabase prepares.
Kept(d) ==
    LET kept[i \in 0..Len(feed)] ==
           IF i = 0 THEN <<>>
           ELSE IF NotOlder(feed[i], d) THEN Append(kept[i - 1], Record(feed[i]))
           ELSE kept[i - 1]
    IN  kept[Len(feed)]

\* loadFeeds
Download(r) ==
    /\ pc[r] = "download"
    /\ fetched' = [fetched EXCEPT ![r] = Listed]
    /\ left' = [left EXCEPT ![r] = Kept(latest[r])]
    /\ GoTo(r, "write")
    /\ UNCHANGED <<siteVars, now, dbVars, readTime, latest, history>>

\* INSERT ... SELECT ... LEFT JOIN ... WHERE F.id IS NULL, one statement
Store(p) ==
    IF \E s \in stored : s.url = p.url THEN stored ELSE stored \cup {p}

WritePost(r) ==
    /\ pc[r] = "write"
    /\ left[r] # <<>>
    /\ stored' = Store(Head(left[r]))
    /\ left' = [left EXCEPT ![r] = Tail(@)]
    /\ UNCHANGED <<siteVars, now, status, pc, readTime, latest, fetched, history>>

\* History: what a refresh leaves out that nobody else has stored.
NoteMissed(r) ==
    missed' = missed \cup {p \in fetched[r] : \A s \in stored : s.article # p.article}

\* History: the latest refresh on record, and whether it overtook another.
NoteRefresh(r) ==
    IF readTime[r] >= refreshed
       THEN /\ refreshed' = readTime[r]
            /\ overlapped' = \E q \in Requests : pc[q] \in Refreshing /\ readTime[q] < readTime[r]
       ELSE UNCHANGED <<refreshed, overlapped>>

\* Mutant: the status does not wait for the posts.
WriteOkAtOnce(r) ==
    /\ pc[r] = "write"
    /\ status' = [value |-> "ok", time |-> readTime[r]]
    /\ NoteMissed(r)
    /\ NoteRefresh(r)
    /\ GoTo(r, "load")
    /\ Forget(r)
    /\ UNCHANGED <<siteVars, now, stored>>

\* writeRssUrlStatus(rssUrl, "ok", readTime); its answer may be lost.
WriteOk(r) ==
    /\ pc[r] = "write"
    /\ left[r] = <<>>
    /\ status' = [value |-> "ok", time |-> readTime[r]]
    /\ NoteMissed(r)
    /\ NoteRefresh(r)
    /\ \/ GoTo(r, "load") /\ Forget(r)
       \/ StepsMayFail /\ Rejected(r)
    /\ UNCHANGED <<siteVars, now, stored>>

\* Mutant: the time at which the next refresh is due is stored.
WriteErrorUntil(r) ==
    /\ pc[r] = "error"
    /\ status' = [value |-> "error", time |-> readTime[r] + Period]
    /\ GoTo(r, "load")
    /\ Forget(r)
    /\ UNCHANGED <<siteVars, now, stored, history>>

\* the .fail of the refresh: writeRssUrlStatus(rssUrl, err, readTime)
WriteError(r) ==
    /\ pc[r] = "error"
    /\ status' = [value |-> "error", time |-> readTime[r]]
    /\ GoTo(r, "load")
    /\ Forget(r)
    /\ UNCHANGED <<siteVars, now, stored, history>>

\* loadPostsFromDatabase, and the answer
Load(r) ==
    /\ pc[r] = "load"
    /\ GoTo(r, "answered")
    /\ Forget(r)
    /\ UNCHANGED <<siteVars, now, dbVars, history>>

\* A rejected step of the refresh is caught by its .fail.
RefreshFails(r) ==
    /\ StepsMayFail
    /\ pc[r] \in {"latest", "download", "write"}
    /\ Rejected(r)
    /\ UNCHANGED <<siteVars, now, dbVars, history>>

\* Mutant: the handler starts again in place of the empty answer.
AnswerRetries(r) ==
    /\ StepsMayFail
    /\ pc[r] \in {"check", "error", "load"}
    /\ GoTo(r, "check")
    /\ UNCHANGED <<siteVars, now, dbVars, readTime, latest, fetched, left, history>>

\* Of any other rejection the handler makes an empty answer.
AnswerFails(r) ==
    /\ StepsMayFail
    /\ pc[r] \in {"check", "error", "load"}
    /\ GoTo(r, "empty")
    /\ Forget(r)
    /\ UNCHANGED <<siteVars, now, dbVars, history>>

StepFails(r) == RefreshFails(r) \/ AnswerFails(r)

\* The process stops and is started again: nobody catches anything.
Crash ==
    /\ StepsMayFail
    /\ pc' = [r \in Requests |-> "idle"]
    /\ readTime' = [r \in Requests |-> 0]
    /\ latest' = [r \in Requests |-> NoDate]
    /\ fetched' = [r \in Requests |-> {}]
    /\ left' = [r \in Requests |-> <<>>]
    /\ UNCHANGED <<siteVars, now, dbVars, history>>

Step(r) ==
    \/ Check(r) \/ ReadLatest(r) \/ Download(r)
    \/ WritePost(r) \/ WriteOk(r) \/ WriteError(r) \/ Load(r)

Next ==
    \/ \E r \in Requests : Arrive(r) \/ Step(r) \/ StepFails(r)
    \/ Crash
    \/ Site
    \/ Tick

Spec == Init /\ [][Next]_vars

\* The database answers, with a result or with an error.  The site may never
\* answer: the download has no timeout.
FairSpec ==
    Spec /\ \A r \in Requests :
               WF_vars(pc[r] # "download" /\ (Step(r) \/ StepFails(r)))

-----------------------------------------------------------------------------
(* Properties. *)

\* The status "ok" is true: a refresh records it, whether it learns of that or
\* not, only when every post its download listed is stored, save those the
\* filter is meant to drop.
OkMeansWritten ==
    [][\A r \in Requests :
          pc[r] = "write" /\ pc'[r] # "write" /\ (pc'[r] = "load" \/ status' # status) =>
             \A p \in fetched[r] :
                p.date >= latest[r] => \E s \in stored : s.url = p.url]_vars

\* "filter any posts that may look new because their url changed": the filter
\* loses nothing.  When no refresh is under way, each post that was listed by
\* a refresh recorded as "ok" is stored, if perhaps under another url: also
\* the one this refresh left out, because it took it for known.
NothingLost ==
    (\A r \in Requests : pc[r] \notin Refreshing) =>
       \A p \in missed : \E s \in stored : s.article = p.article

\* "After an hour, the url does not need an update": a request that checks
\* the status within the period of a recorded refresh does not refresh again.
NotRefreshedSoon ==
    [][\A r \in Requests :
          pc[r] = "check" /\ pc'[r] = "latest" =>
             refreshed = 0 \/ refreshed + Period <= readTime[r]]_vars

\* The code does not keep this: of two refreshes that overlap the older may end
\* last and set the time of the status back to its own start.  And there is no
\* other way, whatever fails, restarts and overlaps: a feed is refreshed within
\* the period of a recorded refresh only if, when that one was recorded, one
\* that had started earlier was still under way.
SoonOnlyIfOverlapped ==
    [][\A r \in Requests :
          pc[r] = "check" /\ pc'[r] = "latest" /\ ~overlapped =>
             refreshed = 0 \/ refreshed + Period <= readTime[r]]_vars

\* Every request is answered, whatever fails, as long as the process runs: the
\* only thing that keeps it open is a site that does not answer its download.
EveryRequestAnswered ==
    \A r \in Requests :
       pc[r] \notin Ended ~> (pc[r] \in Ended \/ pc[r] = "download")

=============================================================================
