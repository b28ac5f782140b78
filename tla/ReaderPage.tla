----------------------------- MODULE ReaderPage -----------------------------
(***************************************************************************)
(* The homepage in a browser (src/client: reader.js, trimPostsMonitor.js,  *)
(* trimPostsForm.js, endpoints.js) against the server's marks of what the  *)
(* user has read (posts.js, trimPosts.js, userPostsRead.js).               *)
(*                                                                         *)
(* The page arrives with the stored unread posts of the user's feeds, then *)
(* asks the server for one feed after the other, two at a time, and puts   *)
(* what it is sent between the posts it has.  The user marks posts as      *)
(* finished or unfinished, or has all but the first ones marked at once.   *)
(* Answers come in any order, and any call may fail before or after it     *)
(* took effect.                                                            *)
(***************************************************************************)
EXTENDS Naturals, Sequences, FiniteSets, SequencesExt, FiniteSetsExt

CONSTANTS
    Feeds,
    Slow,          \* feeds whose request is never answered
    Posts,         \* records [feed, url, date]: what the feeds may hold
    Limit,         \* defaultLimit (12)
    Rendered,      \* whether the homepage may come with posts in it
    CallsMayFail   \* whether the calls of the page may fail

ASSUME FeedsAssumption == IsFiniteSet(Feeds) /\ Slow \subseteq Feeds

ASSUME PostsAssumption ==
    IsFiniteSet(Posts) /\ \A p \in Posts : p.feed \in Feeds /\ p.date \in Nat

ASSUME LimitAssumption == Limit \in Nat /\ Rendered \in BOOLEAN /\ CallsMayFail \in BOOLEAN

VARIABLES
    stored,     \* table feedPosts
    read,       \* table userPostsRead: the urls the user has finished
    phase,      \* "rendered", "reading", "trimming" or "left"
    toLoad,     \* feedsToLoad
    feed,       \* how far each feed is
    page,       \* .js-postsContainer: the posts, from the top
    button,     \* the button each post of the page shows
    call,       \* the call each post of the page waits for
    formShown,  \* ~needShow
    trim        \* the urls POST /trimposts has not marked yet

pageVars == <<page, button, formShown>>
vars == <<stored, read, phase, toLoad, feed, page, button, call, formShown, trim>>

Urls == {p.url : p \in Posts}

\* `quoted': its date was rendered by the server, as JSON.
Shown == [url : Urls, date : {p.date : p \in Posts}, quoted : BOOLEAN]

TypeOK ==
    /\ stored \subseteq Posts
    /\ read \subseteq Urls
    /\ phase \in {"rendered", "reading", "trimming", "left"}
    /\ toLoad \in Seq(Feeds)
    /\ feed \in [Feeds -> {"fresh", "queued", "loading", "loaded"}]
    /\ page \in Seq(Shown)
    /\ button \in [Urls -> {"finished", "unfinished", "none"}]
    /\ call \in [Urls -> {"none", "mark", "unmark", "marked", "unmarked"}]
    /\ formShown \in BOOLEAN
    /\ trim \in Seq(Urls)

UrlsOf(s) == {s[i].url : i \in DOMAIN s}

-----------------------------------------------------------------------------
(* The page as the server sends it: handleHomepageRequest. *)

View(p, quoted) == [url |-> p.url, date |-> p.date, quoted |-> quoted]

\* _.uniq keeps one post of each url, _.sortBy puts the newest first.
Homepage(S) ==
    {s \in SetToAllKPermutations(S) :
        /\ UrlsOf(s) = {p.url : p \in S}
        /\ Len(s) = Cardinality(UrlsOf(s))
        /\ \A i, j \in DOMAIN s : i < j => s[i].date >= s[j].date}

ManyPosts(n) == n > 2 * Limit

Init ==
    /\ stored \in SUBSET Posts
    /\ Rendered \/ stored = {}
    /\ read = {}
    /\ phase = "rendered"
    /\ \E s \in Homepage(stored) : page = [i \in DOMAIN s |-> View(s[i], TRUE)]
    /\ \E S \in SUBSET Feeds :   \* couldRefresh
          /\ toLoad \in SetToSeqs(S)
          /\ feed = [f \in Feeds |-> IF f \in S THEN "queued" ELSE "fresh"]
    /\ button = [u \in Urls |-> IF u \in UrlsOf(page) THEN "finished" ELSE "none"]
    /\ call = [u \in Urls |-> "none"]
    /\ formShown = ManyPosts(Len(page))
    /\ trim = <<>>

-----------------------------------------------------------------------------
(* Loading the feeds. *)

\* loadNextFeed, n times, on a list of feeds whose states are given.
LoadNext(n, states) ==
    LET taken == {toLoad[i] : i \in DOMAIN toLoad \cap 1..n} IN
    /\ feed' = [f \in Feeds |-> IF f \in taken THEN "loading" ELSE states[f]]
    /\ toLoad' = SubSeq(toLoad, n + 1, Len(toLoad))

StartReader ==
    /\ phase = "rendered"
    /\ phase' = "reading"
    /\ LoadNext(2, feed)
    /\ UNCHANGED <<stored, read, pageVars, call, trim>>

\* postDate > nextDate: both are strings.  A date that was rendered as JSON
\* starts with a quotation mark, which is smaller than any digit.
Newer(p, x) == x.quoted \/ p.date > x.date

\* insertPost: before the first post that is older, else at the end.
Place(s, p) == Min({i \in DOMAIN s : Newer(p, s[i])} \cup {Len(s) + 1})

\* Mutant: no search for a post with the same url.
InsertAlways(s, p) == InsertAt(s, Place(s, p), View(p, FALSE))

\* Mutant: the post is put in without being rendered.
InsertRaw(s, p) ==
    IF p.url \in UrlsOf(s) THEN s ELSE InsertAt(s, Place(s, p), p)

InsertPost(s, p) ==
    IF p.url \in UrlsOf(s) THEN s ELSE InsertAt(s, Place(s, p), View(p, FALSE))

\* posts.forEach
Inserted(answer) ==
    LET upTo[i \in 0..Len(answer)] ==
           IF i = 0 THEN page ELSE InsertPost(upTo[i - 1], answer[i])
    IN  upTo[Len(answer)]

\* trimPostsMonitor.check() comes before the post is put in.
FormAfter(n) == formShown \/ (n > Len(page) /\ ManyPosts(n - 1))

OnPage == phase \in {"reading", "trimming"}

\* success: the server may have found new posts; it sends the unread ones of
\* the feed, or none if one of its own steps failed.
Loaded(f) ==
    /\ OnPage
    /\ feed[f] = "loading" /\ f \notin Slow
    /\ \E new \in SUBSET {p \in Posts : p.feed = f} :
          /\ stored' = stored \cup new
          /\ \E answer \in SetToSeqs({p \in stored' : p.feed = f /\ p.url \notin read}) \cup {<<>>} :
                page' = Inserted(answer)
    /\ button' = [u \in Urls |-> IF u \in UrlsOf(page') \ UrlsOf(page)
                                 THEN "finished" ELSE button[u]]
    /\ formShown' = FormAfter(Len(page'))
    /\ LoadNext(1, [feed EXCEPT ![f] = "loaded"])
    /\ UNCHANGED <<read, phase, call, trim>>

\* Mutant: the chain of requests ends with the first that fails.
LoadFailsForGood(f) ==
    /\ CallsMayFail
    /\ OnPage
    /\ feed[f] = "loading" /\ f \notin Slow
    /\ feed' = [feed EXCEPT ![f] = "loaded"]
    /\ UNCHANGED <<stored, read, phase, toLoad, pageVars, call, trim>>

\* error
LoadFails(f) ==
    /\ CallsMayFail
    /\ OnPage
    /\ feed[f] = "loading" /\ f \notin Slow
    /\ LoadNext(1, [feed EXCEPT ![f] = "loaded"])
    /\ UNCHANGED <<stored, read, phase, pageVars, call, trim>>

-----------------------------------------------------------------------------
(* The buttons.  A click hides the button and sends a call; its success    *)
(* shows the other one, its failure shows none.                            *)

Other(b) == IF b = "finished" THEN "unfinished" ELSE "finished"

\* Mutant: the other button does not wait for the answer.
ClickAtOnce(u) ==
    /\ OnPage
    /\ button[u] # "none"
    /\ call' = [call EXCEPT ![u] = IF button[u] = "finished" THEN "mark" ELSE "unmark"]
    /\ button' = [button EXCEPT ![u] = Other(@)]
    /\ UNCHANGED <<stored, read, phase, toLoad, feed, page, formShown, trim>>

Click(u) ==
    /\ OnPage
    /\ button[u] # "none"
    /\ call' = [call EXCEPT ![u] = IF button[u] = "finished" THEN "mark" ELSE "unmark"]
    /\ button' = [button EXCEPT ![u] = "none"]
    /\ UNCHANGED <<stored, read, phase, toLoad, feed, page, formShown, trim>>

\* POST /posts/finished: INSERT ... WHERE U.id IS NULL
MarkPostAsRead(u) ==
    /\ call[u] = "mark"
    /\ read' = read \cup {u}
    /\ call' = [call EXCEPT ![u] = "marked"]
    /\ UNCHANGED <<stored, phase, toLoad, feed, pageVars, trim>>

\* POST /posts/unfinished: DELETE
MarkPostAsUnread(u) ==
    /\ call[u] = "unmark"
    /\ read' = read \ {u}
    /\ call' = [call EXCEPT ![u] = "unmarked"]
    /\ UNCHANGED <<stored, phase, toLoad, feed, pageVars, trim>>

CallSucceeds(u) ==
    /\ OnPage
    /\ call[u] \in {"marked", "unmarked"}
    /\ button' = [button EXCEPT ![u] = IF call[u] = "marked" THEN "unfinished" ELSE "finished"]
    /\ call' = [call EXCEPT ![u] = "none"]
    /\ UNCHANGED <<stored, read, phase, toLoad, feed, page, formShown, trim>>

\* The call, or only its answer, is lost or is an error: nobody listens.
CallFails(u) ==
    /\ CallsMayFail
    /\ call[u] # "none"
    /\ call' = [call EXCEPT ![u] = "none"]
    /\ UNCHANGED <<stored, read, phase, toLoad, feed, pageVars, trim>>

-----------------------------------------------------------------------------
(* Trimming: the form sends the urls after the first `keep' of the page   *)
(* (slice: a number that is too large sends none, a negative one sends the *)
(* last few, which is some other `keep'); the server marks one after the   *)
(* other and sends the browser to a new homepage, or to an error page.     *)

\* Mutant: the list is cut at its wrong end.
SubmitTrimFirst(keep) ==
    /\ phase = "reading"
    /\ formShown
    /\ phase' = "trimming"
    /\ trim' = [i \in 1..(Len(page) - keep) |-> page[i].url]
    /\ UNCHANGED <<stored, read, toLoad, feed, pageVars, call>>

SubmitTrim(keep) ==
    /\ phase = "reading"
    /\ formShown
    /\ phase' = "trimming"
    /\ trim' = [i \in 1..(Len(page) - keep) |-> page[i + keep].url]
    /\ UNCHANGED <<stored, read, toLoad, feed, pageVars, call>>

TrimPost ==
    /\ phase = "trimming"
    /\ trim # <<>>
    /\ read' = read \cup {Head(trim)}
    /\ trim' = Tail(trim)
    /\ UNCHANGED <<stored, phase, toLoad, feed, pageVars, call>>

\* The redirect, when all are marked; the error page, when one could not be.
Leave ==
    /\ phase = "trimming"
    /\ trim = <<>> \/ CallsMayFail
    /\ phase' = "left"
    /\ UNCHANGED <<stored, read, toLoad, feed, pageVars, call, trim>>

-----------------------------------------------------------------------------
Answers(u) == MarkPostAsRead(u) \/ MarkPostAsUnread(u) \/ CallSucceeds(u) \/ CallFails(u)

Next ==
    \/ StartReader
    \/ \E f \in Feeds : Loaded(f) \/ LoadFails(f)
    \/ \E u \in Urls : Click(u) \/ Answers(u)
    \/ \E keep \in 0..Len(page) : SubmitTrim(keep)
    \/ TrimPost
    \/ Leave

Spec == Init /\ [][Next]_vars

\* The page's scripts run, and the server answers for every feed but those
\* whose site does not answer it.
FairSpec ==
    /\ Spec
    /\ WF_vars(StartReader)
    /\ \A f \in Feeds : WF_vars(Loaded(f) \/ LoadFails(f))

-----------------------------------------------------------------------------
(* Properties. *)

\* "does not add the feed": whatever feeds hold it and in whatever order they
\* are answered, a post is on the page once.
NoPostTwice == Cardinality(UrlsOf(page)) = Len(page)

\* A button tells what the server knows: while no call for the post is on its
\* way, the post whose "mark unfinished" shows is read, and the one whose
\* "mark finished" shows is not, unless the trimming has just marked it.
ButtonTellsTruth ==
    \A u \in Urls : call[u] = "none" =>
       /\ button[u] = "unfinished" => u \in read
       /\ button[u] = "finished" /\ phase = "reading" => u \notin read

\* "Would you rather forget about the older ones?": no post is trimmed while
\* an older one is kept.
TrimForgetsOlder ==
    [][phase = "reading" /\ phase' = "trimming" =>
          \A i, j \in DOMAIN page :
             (\E k \in DOMAIN trim' : trim'[k] = page[j].url)
             /\ ~(\E k \in DOMAIN trim' : trim'[k] = page[i].url)
             => page[i].date >= page[j].date]_vars

\* "We'll load 2 feeds at a time until done": every feed is loaded although
\* requests fail and one site never answers.
EveryFeedLoaded ==
    \A f \in Feeds \ Slow :
       feed[f] = "queued" ~> (feed[f] = "loaded" \/ phase = "left")

=============================================================================
