----------------------------- MODULE Migrations -----------------------------
(***************************************************************************)
(* The database schema and the scripts of src/migrations that build it, as *)
(* db-migrate runs them for `jake runMigrations' (every deployment) and    *)
(* `jake runOneMigrationDown'.                                             *)
(*                                                                         *)
(* MySQL commits each statement that defines data by itself, so a run that *)
(* breaks off leaves a migration half done and unrecorded, and the next    *)
(* one starts it again from its first statement.  One run at a time, of    *)
(* whichever release: an older one may be deployed again.                  *)
(*                                                                         *)
(* A schema is a set of parts <<table, name>>: <<t, "">> is the table, the *)
(* others are the columns, types, indexes and triggers some statement      *)
(* names on its own.  Table names are folded (lower_case_table_names=1).   *)
(***************************************************************************)
EXTENDS Naturals, Sequences, FiniteSets, FiniteSetsExt

CONSTANTS
    Releases,     \* the releases deployed: how many of the scripts each has
    MaxFailures   \* bound: failures and stops in one behaviour

-----------------------------------------------------------------------------
(* Statements: what each needs to be there and what must not be, what it   *)
(* takes away and what it adds; an unnamed key takes the first free name.  *)

Statement(needs, free, minus, plus) ==
    [needs |-> needs, free |-> free, minus |-> minus, plus |-> plus, unnamed |-> <<>>]

Of(t, names) == {<<t, n>> : n \in names}

Tables == {"database", "users", "googleProfiles", "subscriptions", "feedPosts", "userPostsRead",
           "rssUrlStatus", "userPasswords", "passwordResets"}

Parts == {"", "friendlyName text", "friendlyName varchar", "friendlyName", "friendlyName_2",
          "friendlyName_3", "id", "id auto_increment", "userId", "dateCreated", "dateModified",
          "idx postUrlHash", "idx rssUrlHash", "idx postDate", "idx userId_urlHash", "rssUrlHash",
          "trigger update", "trigger insert", "username", "idx username"}

CreateTable(t, names) == Statement({}, {<<t, "">>}, {}, Of(t, {""} \cup names))
DropTable(t) == Statement({<<t, "">>}, {}, Of(t, Parts), {})

\* ADD COLUMN, CREATE INDEX, CREATE TRIGGER, a named ADD UNIQUE; `on' is what
\* the index or trigger speaks of.
AddOn(t, name, on) == Statement(Of(t, {""} \cup on), {<<t, name>>}, {}, {<<t, name>>})
Add(t, name) == AddOn(t, name, {})

\* A column takes the index on it along.
DropWith(t, name, index) == Statement({<<t, name>>}, {}, Of(t, {name} \cup index), {})
Drop(t, name) == DropWith(t, name, {})

\* MODIFY; a column that a key still covers cannot become TEXT.
Modify(t, from, to, keys) == Statement({<<t, "">>}, Of(t, keys), {<<t, from>>}, {<<t, to>>})
Fill(t, column) == Statement(Of(t, {"", column}), {}, {}, {})

FriendlyNameKeys == <<"friendlyName", "friendlyName_2", "friendlyName_3">>

AddUniqueFriendlyName ==
    [Statement({<<"users", "friendlyName varchar">>}, {}, {}, {})
        EXCEPT !.unnamed = FriendlyNameKeys]

\* No schema runs it: MySQL knows no DROP UNIQUE.
SyntaxError == Statement({<<"no such table", "">>}, {}, {}, {})

Runs(s, st) ==
    /\ s.needs \subseteq st /\ s.free \cap st = {}
    /\ s.unnamed # <<>> => \E i \in DOMAIN s.unnamed : <<"users", s.unnamed[i]>> \notin st

FirstFree(names, st) ==
    {<<"users", names[i]>> : i \in {j \in DOMAIN names :
        /\ <<"users", names[j]>> \notin st
        /\ \A k \in 1..(j - 1) : <<"users", names[k]>> \in st}}

After(s, st) == (st \ s.minus) \cup s.plus \cup FirstFree(s.unnamed, st)

-----------------------------------------------------------------------------
(* The scripts, oldest first. *)

Script(up, down) == [up |-> up, down |-> down]

\* ALTER DATABASE ... DEFAULT COLLATE; down leaves it.
Collation == Script(<<Statement({}, {}, {}, {<<"database", "utf8">>})>>, <<>>)

RssFeed == Script(
    <<CreateTable("users", {"friendlyName text"}), CreateTable("googleProfiles", {}),
      CreateTable("subscriptions", {"id"})>>,
    <<DropTable("subscriptions"), DropTable("googleProfiles"), DropTable("users")>>)

ExtendSubscriptions == Script(
    <<Add("subscriptions", "userId"), Modify("subscriptions", "id", "id auto_increment", {})>>,
    <<Modify("subscriptions", "id auto_increment", "id", {}), Drop("subscriptions", "userId")>>)

Timestamps == Script(
    <<Add("users", "dateCreated"), Add("users", "dateModified"),
      Add("googleProfiles", "dateCreated"), Add("googleProfiles", "dateModified"),
      Add("subscriptions", "dateCreated"), Add("subscriptions", "dateModified")>>,
    <<Drop("subscriptions", "dateModified"), Drop("subscriptions", "dateCreated"),
      Drop("googleProfiles", "dateModified"), Drop("googleProfiles", "dateCreated"),
      Drop("users", "dateModified"), Drop("users", "dateCreated")>>)

StoresFeedPosts == Script(
    <<CreateTable("feedPosts", {}), Add("feedPosts", "idx postUrlHash"),
      Add("feedPosts", "idx rssUrlHash")>>,
    <<Drop("feedPosts", "idx rssUrlHash"), Drop("feedPosts", "idx postUrlHash"),
      DropTable("feedPosts")>>)

TableUserPostsRead == Script(
    <<CreateTable("userPostsRead", {}), Add("userPostsRead", "idx userId_urlHash")>>,
    <<Drop("userPostsRead", "idx userId_urlHash"), DropTable("userPostsRead")>>)

MoarTimestamps == Script(
    <<Add("feedPosts", "dateCreated"), Add("userPostsRead", "dateCreated")>>,
    <<Drop("userPostsRead", "dateCreated"), Drop("feedPosts", "dateCreated")>>)

CanTrackRssUrlStatus == Script(
    <<CreateTable("rssUrlStatus", {})>>,
    <<DropTable("rssUrlStatus")>>)

SubscriptionsRssUrlHash == Script(
    <<Add("subscriptions", "rssUrlHash"),
      AddOn("subscriptions", "idx rssUrlHash", {"rssUrlHash"}),
      AddOn("subscriptions", "trigger update", {"rssUrlHash"}),
      AddOn("subscriptions", "trigger insert", {"rssUrlHash"}),
      Fill("subscriptions", "rssUrlHash")>>,
    <<Drop("subscriptions", "trigger insert"), Drop("subscriptions", "trigger update"),
      Drop("subscriptions", "idx rssUrlHash"),
      DropWith("subscriptions", "rssUrlHash", {"idx rssUrlHash"})>>)

UserPasswords == Script(<<CreateTable("userPasswords", {})>>, <<DropTable("userPasswords")>>)

UniqueFriendlyName == Script(
    <<Modify("users", "friendlyName text", "friendlyName varchar", {}), AddUniqueFriendlyName>>,
    <<SyntaxError>>)

PasswordResetsTable == Script(
    <<CreateTable("passwordResets", {}), Add("passwordResets", "dateCreated")>>,
    <<Drop("passwordResets", "dateCreated"), DropTable("passwordResets")>>)

UsernameFix == Script(
    <<Add("userPasswords", "username"), Fill("userPasswords", "username")>>,
    <<DropWith("userPasswords", "username", {"idx username"})>>)

UsernameFixPart2 == Script(
    <<AddOn("userPasswords", "idx username", {"username"})>>,
    <<Drop("userPasswords", "idx username")>>)

\* Mutant: the column is changed before its key is dropped.
UsernameFixSwapped == Script(
    <<Modify("users", "friendlyName varchar", "friendlyName text",
             {"friendlyName", "friendlyName_2", "friendlyName_3"}),
      Drop("users", "friendlyName")>>,
    <<Modify("users", "friendlyName text", "friendlyName varchar", {}), AddUniqueFriendlyName>>)

UsernameFixPart3 == Script(
    <<Drop("users", "friendlyName"),
      Modify("users", "friendlyName varchar", "friendlyName text",
             {"friendlyName", "friendlyName_2", "friendlyName_3"})>>,
    <<Modify("users", "friendlyName text", "friendlyName varchar", {}), AddUniqueFriendlyName>>)

FeedPostsPostDateIndex == Script(
    <<Add("feedPosts", "idx postDate")>>, <<Drop("feedPosts", "idx postDate")>>)

Scripts == <<Collation, RssFeed, ExtendSubscriptions, Timestamps, StoresFeedPosts,
             TableUserPostsRead, MoarTimestamps, CanTrackRssUrlStatus, SubscriptionsRssUrlHash,
             UserPasswords, UniqueFriendlyName, PasswordResetsTable, UsernameFix,
             UsernameFixPart2, UsernameFixPart3, FeedPostsPostDateIndex>>

Migrations == 1..Len(Scripts)

ASSUME ReleasesAssumption == Releases \subseteq Migrations /\ MaxFailures \in Nat

\* The schema that the statements make of st, one after the other.
Applied(statements, st) ==
    LET f[i \in 0..Len(statements)] ==
            IF i = 0 THEN st ELSE After(statements[i], f[i - 1])
    IN  f[Len(statements)]

\* The schema of a release with the first n migrations.
Built[n \in 0..Len(Scripts)] ==
    IF n = 0 THEN {} ELSE Applied(Scripts[n].up, Built[n - 1])

-----------------------------------------------------------------------------
VARIABLES
    schema,
    release,     \* the release whose scripts the run has
    recorded,    \* the rows of the table migrations
    pc,          \* what the run does next, or how the last one ended
    way,         \* "up" or "down"
    todo,        \* the migrations it has still to run
    step,        \* the next statement of the first of them
    failures,    \* failures so far
    cut,         \* history: migrations broken off before they were recorded
    torn,        \* history: migrations broken off on the way down
    unwritten    \* history: migrations whose record was not written, unnoticed

runVars == <<release, pc, way, todo, step>>
historyVars == <<failures, cut, torn, unwritten>>
vars == <<schema, recorded, runVars, historyVars>>

MigrationsTypeOK ==
    /\ schema \subseteq Tables \X (Parts \cup {"utf8"})
    /\ release \in 0..Len(Scripts)
    /\ recorded \subseteq Migrations
    /\ pc \in {"idle", "done", "failed", "reading", "running", "recording"}
    /\ way \in {"up", "down"}
    /\ todo \subseteq Migrations
    /\ step \in 1..7
    /\ failures \in 0..MaxFailures
    /\ todo # {} <=> pc \in {"running", "recording"}

\* A new database.
Init ==
    /\ schema = {} /\ recorded = {}
    /\ release = 0
    /\ pc = "idle" /\ way = "up" /\ todo = {} /\ step = 1
    /\ failures = 0
    /\ cut = {} /\ torn = {} /\ unwritten = {}

Current == IF way = "up" THEN Min(todo) ELSE Max(todo)

Statements == IF way = "up" THEN Scripts[Current].up ELSE Scripts[Current].down

Begin(w, n) ==
    /\ pc \in {"idle", "done", "failed"}
    /\ pc' = "reading"
    /\ way' = w
    /\ release' = n
    /\ UNCHANGED <<schema, recorded, todo, step, historyVars>>

\* Mutant: the script calls back as if nothing had happened.
FailsSilently == pc' = "done" /\ todo' = {} /\ step' = 1 /\ UNCHANGED <<release, way>>

\* The error goes from script to callback to exit code.
Fails == pc' = "failed" /\ todo' = {} /\ step' = 1 /\ UNCHANGED <<release, way>>

Left == IF way = "up" THEN (1..release) \ recorded
        ELSE {m \in recorded : \A n \in recorded : n <= m}

\* loadFromDatabase, filterUp and filterDown: what is left to run is decided
\* once, before the first statement.
ReadRecorded ==
    /\ pc = "reading"
    /\ Left \subseteq 1..release
    /\ todo' = Left
    /\ step' = 1
    /\ pc' = IF Left = {} THEN "done" ELSE "running"
    /\ UNCHANGED <<schema, release, recorded, way, historyVars>>

\* The script to undo is not in this release.
NoSuchScript ==
    /\ pc = "reading"
    /\ ~(Left \subseteq 1..release)
    /\ Fails
    /\ UNCHANGED <<schema, recorded, historyVars>>

\* The run is broken off when some statement of the migration has run.
BrokenOff ==
    /\ cut' = IF way = "up" THEN cut \cup {Current} ELSE cut
    /\ torn' = IF way = "down" THEN torn \cup {Current} ELSE torn

\* The next statement.
Execute ==
    /\ pc = "running" /\ step <= Len(Statements)
    /\ Runs(Statements[step], schema)
    /\ schema' = After(Statements[step], schema)
    /\ step' = step + 1
    /\ UNCHANGED <<recorded, release, pc, way, todo, historyVars>>

\* The next statement runs, and its answer is lost.
AnswerLost ==
    /\ pc = "running" /\ step <= Len(Statements)
    /\ Runs(Statements[step], schema)
    /\ schema' = After(Statements[step], schema)
    /\ failures < MaxFailures /\ failures' = failures + 1
    /\ Fails /\ BrokenOff
    /\ UNCHANGED <<recorded, unwritten>>

\* The database refuses it, for the schema is not the one it was written for.
Refused ==
    /\ pc = "running" /\ step <= Len(Statements)
    /\ ~Runs(Statements[step], schema)
    /\ Fails
    /\ IF step > 1 THEN BrokenOff ELSE UNCHANGED <<cut, torn>>
    /\ UNCHANGED <<schema, recorded, failures, unwritten>>

\* Any other failure of a statement, or the process is stopped.
StepFails ==
    /\ pc \in {"running", "recording"}
    /\ failures < MaxFailures /\ failures' = failures + 1
    /\ Fails
    /\ IF step > 1 THEN BrokenOff ELSE UNCHANGED <<cut, torn>>
    /\ UNCHANGED <<schema, recorded, unwritten>>

\* The script calls back.
ScriptEnds ==
    /\ pc = "running" /\ step > Len(Statements)
    /\ pc' = "recording"
    /\ UNCHANGED <<schema, recorded, release, way, todo, step, historyVars>>

\* Mutant: the end of the run is not noticed.
GoOnRunning ==
    /\ todo' = todo \ {Current}
    /\ step' = 1
    /\ pc' = "running"
    /\ UNCHANGED <<release, way>>

\* The next migration, or the end of the run.
GoOn ==
    /\ todo' = todo \ {Current}
    /\ step' = 1
    /\ pc' = IF todo' = {} THEN "done" ELSE "running"
    /\ UNCHANGED <<release, way>>

\* INSERT INTO or DELETE FROM migrations
Record ==
    /\ pc = "recording"
    /\ recorded' = IF way = "up" THEN recorded \cup {Current} ELSE recorded \ {Current}
    /\ GoOn
    /\ UNCHANGED <<schema, historyVars>>

\* On the way up nobody looks at the error of the INSERT.
RecordFailsUnnoticed ==
    /\ pc = "recording" /\ way = "up"
    /\ failures < MaxFailures /\ failures' = failures + 1
    /\ unwritten' = unwritten \cup {Current}
    /\ GoOn
    /\ UNCHANGED <<schema, recorded, cut, torn>>

\* A run, once begun.
Migrate ==
    \/ ReadRecorded \/ NoSuchScript
    \/ Execute \/ AnswerLost \/ Refused \/ StepFails
    \/ ScriptEnds \/ Record \/ RecordFailsUnnoticed

-----------------------------------------------------------------------------
(* Properties. *)

\* The scripts fit one another, up and down: a run is refused by the database
\* only after one was broken off or a record was lost; or on the way down from
\* the unique friendlyName, whose script no database runs.
RefusedOnlyAfterTrouble ==
    [][Refused =>
          \/ cut # {} \/ torn # {} \/ unwritten # {}
          \/ way = "down" /\ Scripts[Current] = UniqueFriendlyName]_vars

=============================================================================
