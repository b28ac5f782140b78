# A verification project for "a simple reader"

TLA+ models of the RSS reader in this repository: what its server does to the
database under concurrent requests and failures, what its pages do in the
browser, and how a release is migrated and put into service. The modules are
checked with TLC on small instances; the theorems are proved with TLAPS for
every value of the constants.

Paths below are relative to the repository's own `src/` directory unless they
start with `node_modules/`, `host/`, `migrations/` or name a script beside it
(`PROJECT.json` gives every path with the checkout's directory in front).

## 1. The system

One Node 0.10 process (express 3, Q promises, the `mysql` driver's pool) serves
a few pages and a small JSON interface; everything durable is in MySQL, except
for the session, which is in the browser's cookie. Node runs one callback at a
time, so all concurrency is between *requests*: each is a chain of SQL
statements, downloads or mails, and any other request may run between two links
of it. Almost nothing is in a transaction, and an exception, a lost connection
or a restart cuts a chain where it stands.

| Component | State | Operations | Correct means |
|---|---|---|---|
| Connection pool (`node_modules/mysql/lib/Pool.js`, used through `server/database.js`) and data-layer calls (`server/data/*.js`) | all, free connections; queue of waiting callbacks | get, release, lose a connection; chains of statements | one user per connection; nobody waits without reason; connections come back; calls end |
| Password resets (`data/passwordResets.js`, `auth.js`) | table `passwordResets` | request a link, use a link | at most five links; a valid link works; once |
| Feed refresh (`posts.js`, `data/rssUrlStatus.js`, `data/feedPosts.js`) | `feedPosts`, `rssUrlStatus` | GET /posts | "ok" is true; nothing lost; not too often; always answered |
| Subscriptions (`feeds.js`, `data/subscriptions.js`) | `subscriptions`; each handler's place | upload, subscribe (with the search for a feed), list, unsubscribe | what was saved is there, once; what the user is told is true; answered |
| Subscriptions page (`client/feeds.js`) | the rows rendered; each row's link | unsubscribe link | a row that goes was unsubscribed; a link comes back |
| Homepage (`client/*.js`, `server.js`, `data/join.js`, `data/userPostsRead.js`, `trimPosts.js`) | the page; feeds still to load; table `userPostsRead` | load feeds, insert posts, finished/unfinished, trim | every feed loaded; posts once; buttons tell the truth; trimming forgets the oldest |
| Accounts (`data/users.js`, `auth.js`) | `users`, `userPasswords`, `googleProfiles` | register, first login through Google | accounts open whole; keys identify; answers true |
| Sessions (`auth.js`, `server.js`, `modelFor.js`, cookieSession, connect-flash) | the cookie: user, flash messages, way back | every handler of the site | as good as a session on the server; logged in means having an account; messages shown |
| Migrations (`migrations/*.js`, db-migrate, `jakefile.js`) | the schema, table `migrations` | run up, one down | scripts fit one another; interrupted runs are repaired or noticed |
| Deployment (`host/scripts/*.sh`, `prerun.sh`, `run.sh`) | the link `current`, the servers of pm2 | deploy, reboot | the site stays up; servers start on their schema; a later success repairs |
| Server start and stop, download of all posts, configuration, views, build and test tools, host, third party | – | – | not modelled (section 8) |

They interact through the pool (every data-layer call takes a connection), the
tables (a refresh writes what the homepage and the page's loads read; the page's
buttons write marks that filter both), the cookie (every answer may replace it),
HTTP between page and server, and the schema (a deployment changes it under the
running server).

The behaviours that are hard here: statements of two requests in an unforeseen
order; state read before a statement or a download and used after it, the
session first of all; chains cut in the middle; a connection lost while calls
wait for one; a transaction whose connection dies; answers that arrive in any
order or never; a migration broken off and run again. `PROJECT.json` lists
them as hazards, each at its line and with the properties that would catch it.

## 2. Modules

| Module | Models | Runs |
|---|---|---|
| `ConnectionPool` | pool, driver queue, chains of statements | `pool`, `pool_leak` |
| `PasswordResets` | links, mails, uses | `resets` |
| `FeedRefresh` | GET /posts for one feed, and the site behind it | `refresh_often`, `refresh_soon`, `refresh_complete`, `refresh_loses` |
| `Subscriptions` | the table: saves and unsubscribes of one user | through `Feeds` |
| `Feeds` (extends `Subscriptions`) | the handlers of `feeds.js`, the page /feeds | `feeds` |
| `ReaderPage` | one homepage against the read marks | `page_loading`, `page_trim` |
| `AccountStore` | abstract: accounts appear whole | as a property of `auth` |
| `Accounts` | registration and Google login, statement by statement | through `Auth` |
| `Auth` (extends `Accounts`) | one browser's cookie and the handlers that change it | `auth` |
| `Migrations` | the schema, the sixteen scripts, db-migrate | through `Deployment` |
| `Deployment` (extends `Migrations`) | deploy.sh, prerun.sh, run.sh, run-on-reboot.sh | `deployment` |
| `...Proofs` | the theorems about a module and those it extends | |
| `DataInduction` | lemmas on induction and recursion, for the proofs | |
| `MC...` | constants for TLC | |

An operator marked *Mutant* is a plausible bug in the definition that follows
it. It is not part of the specification; it documents what each property is able
to notice.

Two refinements tie the layers together: `Accounts` implements `AccountStore`
(an instance under a refinement mapping), and the composed modules implement the
tables they extend (`FeedsSpec => Spec` of `Subscriptions`, `AuthSpec => Spec`
of `Accounts`), so that what is proved of the tables holds under the handlers.

### ConnectionPool

State: `all`, `free`, `queue` are `_allConnections`, `_freeConnections`,
`_connectionQueue`. Each call has a phase `pc`, its connection `conn` and the
number `todo` of statements still to be answered.

- `TakeFree`, `Create`, `Enqueue` are the three branches of `getConnection`;
  `Connected`, `ConnectFails` the two outcomes of the handshake.
- `Drop` is `_removeConnection` with the wake-up in `releaseConnection`;
  `LoseConnection` applies it to any open connection.
- `SendNext`, `Answered`, `StatementFails` are one statement of a chain;
  `Rollback` is the rejection handler of `createLocalUser`.
- `Release` hands the connection on or puts it back. `ReleaseDead` is
  `release()` on a connection that has left the pool: the driver throws because
  `_pool` is null, and the pool does not notice.
- `ResetNotFound`, `ResetSelectFailed` are the paths of `useResetId` that never
  release.

`Quiet` captures the event loop: answers and losses begin a new turn, which
starts only when the promise reactions and nextTick callbacks of the last one
have run. A statement sent on a dead connection is queued by the protocol and
never answered (`"hung"`): `_dequeue` does nothing after a fatal error.

### PasswordResets

`rows` is the table, `nextId` its AUTO_INCREMENT, `now` the database's clock.
A request for a link runs `Insert`, `SelectCutoff`, `Prune`, `SendMail`; a use
runs `Lookup`, `Consume`, `ChangePassword`. `GoesTo` gives each statement two
outcomes: answered, or done but with its answer lost; `StepFails` is a
statement that does nothing, or a stop of the process. `issued`, `mailed`,
`consumed`, `honoured` and `raced` are history, for the properties: `raced`
holds the links that two requests had found before either deleted them.

### FeedRefresh

`stored` and `status` are the feed's rows in `feedPosts` and `rssUrlStatus`. A
request runs `Check`, `ReadLatest`, `Download` (with the filter of `posts.js`),
one `WritePost` for each post in the order of the feed, `WriteOk`, `Load`;
`RefreshFails` is the `.fail` that leads to `WriteError`, `AnswerFails` the
empty answer. `Crash` restarts the process. The site (`Publish`, `DropOldest`,
`MoveTo`) is the environment. `article`, which the program does not see, says
when two urls are the same text. `missed`, `refreshed` and `overlapped` are
history: what refreshes recorded as "ok" have left out, the latest of them, and
whether an older one was under way when it was recorded. The clock waits for
nobody: a refresh may take any time.

### Subscriptions and Feeds

`Subscriptions` has one user's rows. A save walks through its list with
`Select`, then `Insert` or `Update`, then `Advance`; each may fail, before or
after it took effect. `Unsubscribe` is one statement. `removed` remembers, for
each save, the urls unsubscribed since it began, and `raced` the urls for which
two saves stood between their SELECT and their INSERT at once.

`Feeds` puts the handlers around it. `stage` is the callback a request waits
for: an upload is read and parsed (`Parsed`, `CannotParse`,
`ParsedForNobody`); a subscription fetches the address with `loadMeta`, and if
that is no feed takes the shortest link of the page and fetches again
(`MetaArrives`, `NotAFeed`, `FindsFeed`, `FindsNothing`, `SiteFails`,
`SiteIsSilent`); then it is saved (`SaveStep`, `Saved`, `SaveFails`).
`"unhandled"` and `"silent"` are the two ways a request is never answered: a
rejected promise nobody handles, and a site that keeps the socket open. A tab
has the rows it was rendered with; its links go from `"shown"` through `"sent"`
to `"gone"` or back, while uploads and other browsers change the table.

### ReaderPage

`page` is the list of posts from the top, `button` what each shows, `call` the
call it waits for. `Loaded` is one answer of GET /posts: all its posts are
inserted in one callback, then the next feed is requested. `Click`,
`MarkPostAsRead`/`MarkPostAsUnread` and `CallSucceeds`/`CallFails` are the three
moments of a button's call; `SubmitTrim`, `TrimPost`, `Leave` those of trimming.
`Newer` models the comparison of dates as the code performs it: a date rendered
by the server is JSON, with quotation marks, one rendered in the browser is not,
and the two are compared as strings.

### AccountStore, Accounts and Auth

`AccountStore` says what the tables promise: accounts appear one at a time,
whole, with a user and keys nobody else has, and stay.

`Accounts` has the committed rows of the three tables and, per request, how far
it has come. A registration is a transaction: its rows are in nobody's sight
until `Commit`, but hold the keys, so that `InsertPassword` of the same address
or username waits (`MustWait`), and its auto-increment id is spent even if it is
rolled back. A connection that dies takes the transaction along, and the
ROLLBACK sent on it is never answered (`"hung"`). A first login through Google
is `Seek`, `CreateUser`, `Link`, each committed by itself; one that is cut, or
overtaken by another for the same profile, leaves a row of `users` without an
account. `Crash` ends all requests.

`Auth` adds the browser. A request carries a copy of the cookie; `After` is what
a handler does to it (set the user or the way back, take the messages out,
queue one); `Answer` sends it back only if it was changed, as cookieSession
does. Each handler of `auth.js` and `server.js` is an action that chooses among
these. `ideal` is history: the session a server would have kept had each handler
worked on the one session rather than on its copy; `stale` says that an answer
has since changed a copy older than the cookie.

### Migrations and Deployment

A schema is a set of parts; a statement of a script says which parts it needs,
which must not be there, which it takes away and which it adds. MySQL commits
each by itself. `ReadRecorded` decides once what a run will do; `Execute`,
`Refused`, `AnswerLost`, `StepFails`, `ScriptEnds`, `Record` and
`RecordFailsUnnoticed` are its steps. `cut`, `torn`, `unwritten` are history:
migrations broken off on the way up, on the way down, and run without a record.

`Deployment` starts a run in `Deploy` (and by hand, up or one down), then turns
the link (`Unlink`, `Link`) and runs `run.sh` (`ListServers`, `Start`,
`DeleteServer`, `Succeed`). Every command may fail before or after it took
effect; when `run.sh` fails (`RunFails`) the link is turned back (`UnlinkBack`,
`LinkBack`). Between any two commands the script may be `Killed`, and the host
may `Reboot`.

## 3. What the runs check

Every property is stated in words above its definition. In short:

| Run | Shows |
|---|---|
| `pool` | `ExclusiveUse`, `NoLostWakeup`: no shared connection, no wait without reason; `OnlyKnownLeaks`: nothing but a reset's SELECT keeps a connection; `EveryCallEnds`, but for a sign-up whose connection died in its transaction, or once the pool has leaked away |
| `resets` | `KeptAtMost`, `NoUndueRefusal`; `HonouredOnceUnlessRaced`: a link changes a password twice only if two uses overlapped |
| `refresh_often` | `OkMeansWritten`, `EveryRequestAnswered` under failures, restarts and an undated post; `SoonOnlyIfOverlapped`: a feed is refreshed twice within the period only if the later refresh overtook an older one |
| `refresh_complete` | `NothingLost` when nothing fails and the site publishes in order, however slow it is; two posts of one date and a moved post included |
| `feeds` | `DealtWithIsSubscribed`, `TwiceOnlyIfRaced`, `AnswersAreTrue`, `RequestsEnd` for two uploads or subscriptions at a time; `GoneIsUnsubscribed`, `ClicksEnd` for a tab while the table changes elsewhere |
| `page_loading` | `NoPostTwice`, `ButtonTellsTruth`, `TrimForgetsOlder`, `EveryFeedLoaded` on a page that starts empty, with one silent site and failing calls |
| `auth` | `OpensWholeAccounts` (the refinement), `OnlyGoogleLeavesRows`, `TakenIsTrue`, `WelcomedAsOwner`, `SessionHasAccount`, `CookieIsSession`, `MessagesShown`, `AccountRequestsEnd` |
| `deployment` | `StartsOnItsSchema`, `RefusedOnlyAfterTrouble`, `SiteStaysUp`, `SuccessRepairs` |

Four runs end in a counterexample. Each is a statement of the repository that
the code does not keep; `PROJECT.json` quotes it.

| Run | Counterexample |
|---|---|
| `pool_leak` | an unknown or expired reset link takes one of the 70 connections for good |
| `refresh_soon` | two refreshes overlap and the one that began first ends last: it sets `lastModified` back to its own start, and the feed is refreshed again within the period of the other |
| `refresh_loses` | a refresh that fails after the newest post was written: the next refresh drops the older ones |
| `page_trim` | a loaded post goes above every post the page was rendered with, so trimming forgets newer posts and keeps older ones |

Where the code keeps a promise except in one situation, the property names the
situation, so that the run shows there is no other:

- `passwordResets.test.js:177` ("should only honor each password reset guid
  once") and `subscriptions.test.js:72` ("saveSubscriptions treats duplicates as
  updates") hold for one request at a time. Two uses of one link that both
  find it before either deletes it both change the password
  (`HonouredOnceUnlessRaced`); two saves that both miss a feed both insert it
  (`TwiceOnlyIfRaced`).
- `CookieIsSession` and `MessagesShown`: an answer that carries a changed copy
  of an older cookie brings the older session back, the user and the messages
  included; a homepage that redirects to /feeds, and a failing call of a script,
  take messages nobody sees.
- `AccountRequestsEnd`: the registration whose connection dies hangs at its
  ROLLBACK. `RequestsEnd`: an upload that cannot be parsed, and a page that
  keeps silent, leave the user without an answer.
- `StartsOnItsSchema` has three exceptions, each a way for the next run up not
  to see what happened; and it allows one deviation: the migration that adds the
  unique key on `friendlyName` again (`migrations/20130909172154-...`), run
  twice, leaves a key `friendlyName_2`, over which the third username fix
  fails later. `RefusedOnlyAfterTrouble` excepts the way down from the same
  script: MySQL has no `DROP UNIQUE`.
- `rssUrlStatus.test.js:37` ("After an hour, the url does not need an update")
  holds for one refresh at a time. Each writes its own start as `lastModified`,
  whatever is there (`rssUrlStatus.js:64`), and nothing bounds how long it
  takes, so of two that overlap the older may set the time back: `refresh_soon`
  is the shortest way. `SoonOnlyIfOverlapped` shows there is no other: if no
  older refresh is under way when one is recorded, none begins within its
  period, whatever fails.
- `EveryRequestAnswered` is about the server: a request may always wait for its
  download, which has no timeout.

### Bounds

- *Pool:* four calls (a reset, a sign-up, two ordinary), two connections, two
  losses, one statement per call (a sign-up always sends four). Three calls on
  two connections give a waiting call behind two users, and the fourth stays
  when one has leaked a connection and one hangs; two losses let one loss hit
  the connection another loss's wake-up led to. Four identities let a
  connection be opened while dead ones are still held. 138,233 states.
- *Resets:* two links kept in place of five, so that a third row causes pruning;
  two requests at a time, two users (a prune must not reach the other's), one
  tick of life. 644,188 states.
- *Refresh:* two requests, two to four posts, a period of two ticks and two ticks of
  time: the first refresh, a check within its period, a second refresh after
  it, the second after another that takes any time at all. A download may hang
  for ever. 1,071,447 states in `refresh_often`, 1,297,275 in `refresh_complete`.
- *Feeds:* two requests at a time; three addresses (a feed, a page that links to
  it, a page that is gone); two rows, so that a feed can be there twice. One run
  explores two scenes, chosen in its initial state (`MCFeeds`): the handlers
  while nobody opens the page, in which one of the two requests uploads or
  subscribes to anything and the other uploads or subscribes to the feed; and a
  tab with two rows, beside one request with and one without a login. The scene
  is a bound on what users do: a request that has been made can go on in either.
  312,212 states.
- *Page:* two feeds with four posts, one of them in both, and a third feed that
  is never answered, so that one of the two loaders may be stuck and the other
  has two feeds to load. `page_trim` starts from a rendered page.
- *Auth:* two requests at a time and four in all; two addresses that share the
  only username, so that both keys can clash; one profile; two rows of `users`;
  one flash message, followed through all copies. 805,804 states.
- *Deployment:* releases with 10, 12 and 16 of the scripts, on both sides of the
  migration that is not repeatable and the fixes that follow it; three
  deployments, two failures, kills or reboots, so that the turning back of the
  link can be cut as well. 8,755,159 states.

`CHECK_DEADLOCK` is off where a system may rightly stop: a pool that has leaked
away, a page that was left, a browser that has sent all the requests it may
send, rows at their bound. `resets`, the four refresh runs and `deployment`
check for deadlock.

### Fairness

- *Pool:* `WF` for what a call does in its turn, `SF` for answers: the loop polls
  every ready socket in each round, but an answer is disabled while a turn runs.
  No fairness for starting calls or losing connections.
- *Refresh:* `WF` for the steps of a request except the download, which has no
  timeout and may last for ever.
- *Feeds:* `WF` for a request that waits for a file, the database or a site: it
  is answered, fails or turns out silent. `WF` for a link's call. None for what
  users do.
- *Page:* `WF` for answers of all feeds except those in `Slow`; none for clicks.
- *Auth:* `WF` for the statements of a registration or login: they are answered,
  and a wait for a key ends because the other transaction does or by the
  database's lock wait timeout. None for sending requests or restarts.

## 4. What is proved

The theorems hold for any number of requests, connections, users, links, urls,
tabs, posts, releases and deployments: the bounds of the runs are constants
there. Every inductive invariant was first checked with TLC on the instances of
section 3 (those of `FeedRefresh` in 1,297,275 states of `refresh_complete`,
those of `ReaderPage` in 1,103,554 of `page_loading`).

`ConnectionPoolProofs`: `PoolTypeCorrect`, `PoolExclusiveUse`,
`PoolNoLostWakeup`, from `PoolInvariant`. `ExclusiveUse` and `NoLostWakeup` are
not inductive by themselves: handing a connection to the head of the queue keeps
them only if that call waits and holds none (`PhaseOK`), stands in the queue
once (`QueueOK`), and a call taken off the queue by a lost connection is the
only one that may fill its place (`OneRetry`). Assumptions: `NoConn` is not a
connection, the limit is at least one, resets and sign-ups are different calls.

- `PoolOnlyKnownLeaks`: every action but the two of `useResetId` takes an open
  connection out of a call's hands only to lose it, free it or hand it on
  (`LeakStep`, one lemma per action).
- `PoolReturnedWithoutResets`: hence, if no call is a reset, every open
  connection is free or in use. `pool_leak` refutes this same statement when one
  is, so the two together say that `useResetId` is what leaks.
- `PoolWaitsForSomebody`, the safety core of `EveryCallEnds`: while a call is
  queued, one that holds a live connection has statements to run or an error to
  handle, or one is about to ask again, or the whole pool has leaked
  (`WaitsForSomebody`). A call that died with its connection (`HungIsDead`) does
  not count, for it never releases.
- `PoolNoOvertaking`: who is handed a connection while others wait is the head
  of the queue, unless a call that a lost connection took off the queue is about
  to ask again; it may then fill the place itself. TLC checked both without
  fairness, in 138,233 states.

`PasswordResetsProofs`: `ResetsTypeCorrect`, `ResetsHonouredIsSpent`,
`ResetsNoUndueRefusal`, from `ResetsInvariant`. A refused link is one the table
does not hold, so the invariant says why a link may be missing. It was used, or
has `Keep` newer ones (`GoneOK`); the second follows because the cutoff a
request prunes by has `Keep` links at or above it (`CutoffOK`), which stays true
whatever other requests insert, prune or use between the `SELECT` and the
`DELETE`: links are only ever issued. On top of it,

- `ResetsHonouredOnceUnlessRaced`: `RaceInv` says that a link two requests hold
  at once, or one that is about to be used though it is spent, is in `raced`;
- `ResetsKeptAtMost`: `KeptInv` counts, with the library's theorems on
  cardinalities, the links at or above a cutoff; pruning leaves no others up to
  the request's own.

`FeedRefreshProofs`:

- `RefreshTypes`. The filtered list of `Download` is a sequence built by a
  recursive function; that it is one, of which posts it consists, comes from
  `DataInduction` (below).
- `RefreshSoonOnlyIfOverlapped`, from `RefreshTimesInvariant`, without
  assumptions: unless the latest refresh on record has overtaken another, every
  refresh still under way began with or after it (`NoneOlder`), so whoever
  writes the status next does not set its time back.
- `RefreshOkMeansWritten`, from `RefreshWritesInvariant`, without assumptions:
  what a request has downloaded and not filtered is in the database or among the
  posts it has still to write, whatever fails and whoever else writes.
- `RefreshLosesNothing`, the most involved: a post of the site that no refresh
  will bring any more is in the database, if no step fails (`~StepsMayFail`), the
  site publishes in the order of dates (`Chronological`) and no url changes its
  text (`UrlsStay`). Without the first `refresh_loses` is the counterexample,
  and TLC finds another without the second. The filter compares with the newest
  stored date, so the invariant (`LossInv`) has to say of each moment between
  two WRITEs of overlapping requests that older posts are stored, or held by a
  request that will still write them, before a newer one is.

`FeedsProofs` is about `Subscriptions` and the handlers on it.

- `SubscriptionsTypeCorrect`, `SavedStaysSubscribed`,
  `SubscribedTwiceOnlyIfRaced`, from `SubscriptionsInvariant`. The property
  needs, for a save that is about to update, that the row it found is still
  there or was unsubscribed since (`FoundIsCovered`); an `UPDATE` that matches
  no row would otherwise lose a feed. A second row of a url can only come from a
  save that missed the first.
- `FeedsImplementSubscriptions` (each step of handlers and page is a step of the
  table or leaves it alone; `PageInv` says a link that waits has a url), hence
  `FeedsStaySubscribed` and `FeedsTwiceOnlyIfRaced`; `FeedsTypes`.
- `FeedsTellTheTruth`, which needs that a finished save went through its whole
  list and that a subscription saves the feed it has found (`HandlerInv`).
- `FeedsGoneIsUnsubscribed`: a row goes only after its own call came back, and
  what that call deleted is remembered since the page was loaded.

`ReaderPageProofs`: `PageTypes`; `PageShowsPostsOnce`, for the inserted posts are
those not yet there (`Inserted`), once each; `PageButtonsTellTruth`, because a
button at rest has no call under way; and `PageTrimsOlder`: the page is sorted
by the comparison its code performs (`Ordered`), as long as all its posts came in
the answers. It assumes that the page was rendered without posts (`~Rendered`);
`page_trim` is the counterexample when it was not. `PageLoadsTwoAtATime` is the
safety core of `EveryFeedLoaded`: once the reader has started, two requests are
out as long as a feed waits, and never more, however many of them fail; the feed
is kept from its turn only if neither is answered. It needs that the list names
exactly the feeds that wait, each once (`ListOK`); TLC checked it in 1,103,554
states of `page_loading`.

`AuthProofs` is about `Accounts` and the browser's requests on it.

- `AccountsInvariant`, and from it `AccountsRowsHaveOwners`,
  `AccountsTakenIsTrue`, `AccountsWelcomedAsOwner`, and the refinement
  `AccountsOpenWhole` with its consequence `AccountsKeysIdentify`. A commit adds
  an account with unused keys because two transactions never hold the same key
  (`KeysOK`), and an unused user because the ids held by requests are held once
  and by no account (`HoldersOK`).
- `AuthImplementsAccounts`, `AuthTypes`; `AuthSessionHasAccount`, because
  accounts are never taken away and every user in a copy came from one;
  `AuthCookieIsSession`, by cases on whether the copy an answer changes is the
  cookie; `AuthMessagesShown`, in which a message leaves the cookie only by an
  answer that shows it or one made from an older copy.

`DeploymentProofs`: `DeploymentInvariant`, `DeploymentSiteStaysUp`,
`DeploymentSuccessRepairs`. Both rest on a deployment's number being new: the
ids that run.sh lists before the start cannot hold it, so deleting them leaves
the new server, and nothing else. They hold for any scripts, because a run of
the migrations does not touch link or servers.

The others are about the sixteen scripts there are, in any order of deployments,
runs up and down by hand, refusals and failures:

- `DeploymentTypes`: whatever part of them has run, the schema consists of parts
  some script names.
- `SchemaInvariant`, the inductive invariant of the next two, says where the
  schema stands. The records are `1..k` for some `k`; with no run under way the
  schema is the one the first `k` scripts build, and during a run it is what the
  statements of the script under way have made of that (`Path`), but for parts
  that migrations broken off on the way up have touched (`Loose`). A statement
  brings two schemas nearer: parts it adds or drops are the same afterwards
  (`AfterDiff`), so a script that is run again to its end repairs what it left.
  The exception is the key that `20130909172154` adds without a name, of which a
  second run adds a copy; the copies stay loose until the script that drops the
  key stumbles over them, and are why `IsReleased` looks past them. What the
  scripts are to one another is `ScriptsFit`: each takes the schema of the
  release before (`Release1` to `Release16`, proved to be `Built`) to its own,
  and back, but for the first, whose way down is empty, and `20130909172154`,
  whose way down is no SQL. TLC checked the invariant in the 8,755,159
  states of `deployment`.
- `DeploymentStartsOnItsSchema`: a deployment starts its server with its run
  done, so `k` is at least its release, and nothing is loose.
- `DeploymentRefusedOnlyAfterTrouble`: with nothing broken off nothing is loose,
  and then each statement of a script that fits runs.

`DataInduction` makes induction over numbers, and recursion on them, available
to the other modules. The library states both for an operator parameter, which
the provers cannot instantiate; here the predicate is the set of the numbers
that have it, and everything follows from the finite sets `1..n` being ordered
well by inclusion. `CollectsSelects` says what a walk over a sequence that
appends some of its elements returns.

Model-checked only is liveness (`EveryCallEnds`, `EveryRequestAnswered`,
`RequestsEnd`, `ClicksEnd`, `EveryFeedLoaded`, `AccountRequestsEnd`): fairness
and ENABLED are out of the prover's reach. Where something waits for others, for
a connection or for its turn on the page, the theorem above that it waits for
somebody who can go on is what the liveness property rests on. A registration
that waits for a key needs none: by the guard of `InsertPassword` it waits for a
transaction whose only statement left is its COMMIT.

## 5. Plan

Done: everything in section 2. What would come next:

1. The reference of the order in which the pool serves (first come, first
   served, but for a lost connection) as an abstract specification of its own.
2. Several tabs: `ReaderPage` twice over one table of read marks.
3. Overlapping deployments (nothing in `deploy.sh` prevents them), with
   migrations that interleave; `Migrations` has one run at a time.
4. Abstract specifications of a reset link as a one-time token (implemented
   while uses do not overlap) and of a refresh as a cache with a period.

## 6. How the modules are written

Constants come with named assumptions. A module has one action per statement,
answer or event; the guard is the code's condition. Bounds (`MaxIds`, `MaxId`,
`MaxTime`, `MaxLosses`, `MaxVisits`, `MaxMessages`, `MaxFailures`,
`MaxDeploys`, ...) stand in the guard of the action they limit.

## 7. Running

    tlc -config Pool.cfg MCConnectionPool
    tlapm ConnectionPoolProofs.tla

`PROJECT.json` pairs each configuration with its module.

## 8. Not modelled, and why

- Starting and stopping the server: wiring of middleware; its only state is the
  listening socket.
- GET /downloadAllPosts (`server.js:46`, `downloadAllPosts.js`): one SELECT
  turned into CSV. It changes nothing, and its connection is that of an ordinary
  call of `ConnectionPool`.
- Parsing of feeds and uploads, templates, wording: no state; the conversions a
  property depends on (dates in `ReaderPage`, the choice of the shortest link in
  `Feeds`) are modelled.
- Configuration: read once, from files and the environment.
- `jakefile.js` but for the two tasks that run migrations, `build/`,
  `vagrant.js`, `spikes/`: tools around the program that start processes and
  copy files, run by hand, one at a time.
- `host/` but for its scripts (Chef cookbooks) and third-party code. What the
  modules rest on is modelled: the pool and the protocol queue of the mysql
  driver, cookieSession, connect-flash, db-migrate's migrator. Most of the
  code under `client/` by size is third-party, too: `clientLib/` holds the less
  compiler, bootstrap (of which the pages load the style sheets only),
  require-css and require-less, and `jadeRuntime.js` is jade's. None of it keeps
  state of this program. These libraries are two thirds of the JavaScript in the
  tree; of the rest, `map` covers somewhat more than half.
- `Pool.end` and the queue limit: the server never uses them.
