-------------------------- MODULE DeploymentProofs --------------------------
(***************************************************************************)
(* The site stays up, and a deployment that succeeds sets right what       *)
(* earlier ones left behind: for any releases, scripts, failures and any   *)
(* number of deployments.                                                  *)
(*                                                                         *)
(* Both rest on the number of a deployment being new: the ids that run.sh  *)
(* lists before it starts the new server cannot hold it, and afterwards    *)
(* nothing runs but them and it.                                           *)
(*                                                                         *)
(* The types of the schema are those of the sixteen scripts: whatever part *)
(* of them has been run, every part they add is one there is (KnownScript).*)
(*                                                                         *)
(* That a server finds its schema rests on SchemaInv: the records are      *)
(* those of the first k migrations, and the schema is the one they build,  *)
(* or that the script under way makes of it, but for parts that broken-off *)
(* migrations have touched (Loose).  It is inductive because a statement   *)
(* settles the parts it touches, so that a script run again repairs them   *)
(* (AfterDiff), and because each script takes the schema of the release    *)
(* before to its own and back (ScriptsFit), but for two that cannot.       *)
(***************************************************************************)
EXTENDS Deployment, DataInduction

\* Every server and the link belong to a deployment that has begun ...
NumbersOK ==
    /\ target \in Nat
    /\ servers \subseteq 1..target
    /\ current \in 0..target
    /\ at \notin {"idle", "failed"} => target # 0
    /\ at \in {"prerun", "unlink", "link", "list"} => target \notin servers

\* ... and while run.sh works, nothing runs but what it has listed and started.
SwitchOK ==
    /\ at \in {"list", "start", "delete", "succeeded"} => current = target
    /\ at = "start" => target \notin oldIds /\ servers = oldIds
    /\ at = "delete" =>
          target \in servers /\ target \notin oldIds /\ servers \subseteq oldIds \cup {target}
    /\ at = "succeeded" => servers = {target}

\* What run.sh relies on, and keeps.
SwitchInv == NumbersOK /\ SwitchOK

-----------------------------------------------------------------------------
\* A run of the migrations does not touch the switch.
LEMMA MigrateKeeps ==
    ASSUME SwitchInv, UNCHANGED switchVars
    PROVE  SwitchInv'
BY DEF SwitchInv, NumbersOK, SwitchOK, switchVars

\* A new deployment takes a number nobody has had.
LEMMA DeployKeeps ==
    ASSUME SwitchInv, NEW n, Deploy(n)
    PROVE  SwitchInv'
<1>1. /\ target' = target + 1 /\ at' = "prerun"
      /\ servers' = servers /\ current' = current
  BY DEF Deploy
<1>2. NumbersOK'
  BY <1>1 DEF SwitchInv, NumbersOK
<1> QED BY <1>1, <1>2 DEF SwitchInv, SwitchOK

\* The steps of deploy.sh and run.sh that succeed.
LEMMA SwitchKeeps ==
    ASSUME SwitchInv,
           \/ PrerunSucceeds \/ Unlink \/ Link \/ ListServers
           \/ Start \/ DeleteServer \/ Succeed
    PROVE  SwitchInv'
<1> USE DEF SwitchInv, NumbersOK, SwitchOK
<1>1. CASE PrerunSucceeds
  <2>1. /\ at = "prerun" /\ at' = "unlink"
        /\ target' = target /\ servers' = servers /\ current' = current
    BY <1>1 DEF PrerunSucceeds
  <2> QED BY <2>1
<1>2. CASE Unlink
  <2>1. /\ at = "unlink" /\ at' = "link"
        /\ target' = target /\ servers' = servers /\ current' = 0
    BY <1>2 DEF Unlink
  <2> QED BY <2>1
<1>3. CASE Link
  <2>1. /\ at = "link" /\ at' = "list"
        /\ target' = target /\ servers' = servers /\ current' = target
    BY <1>3 DEF Link
  <2> QED BY <2>1
<1>4. CASE ListServers
  <2>1. /\ at = "list" /\ at' = "start" /\ oldIds' = servers
        /\ target' = target /\ servers' = servers /\ current' = current
    BY <1>4 DEF ListServers
  <2> QED BY <2>1
<1>5. CASE Start
  <2>1. /\ at = "start" /\ at' = "delete" /\ servers' = servers \cup {target}
        /\ target' = target /\ current' = current /\ oldIds' = oldIds
    BY <1>5 DEF Start
  <2>2. servers' \subseteq 1..target
    BY <2>1
  <2> QED BY <2>1, <2>2
<1>6. CASE DeleteServer
  <2>1. PICK id \in oldIds : servers' = servers \ {id} /\ oldIds' = oldIds \ {id}
    BY <1>6 DEF DeleteServer
  <2> QED BY <1>6, <2>1 DEF DeleteServer
<1>7. CASE Succeed
  BY <1>7 DEF Succeed
<1> QED BY <1>1, <1>2, <1>3, <1>4, <1>5, <1>6, <1>7

\* A deployment that fails or is killed may leave anything that has begun.
LEMMA FailureKeeps ==
    ASSUME SwitchInv, old \in 0..target,
           \/ PrerunFails \/ RunFails \/ UnlinkBack \/ LinkBack
           \/ Killed \/ Reboot
    PROVE  SwitchInv'
<1> USE DEF SwitchInv, NumbersOK, SwitchOK
<1>1. CASE PrerunFails
  BY <1>1 DEF PrerunFails
<1>2. CASE RunFails
  <2>1. /\ at \in {"list", "start", "delete"} /\ at' = "unlinkBack"
        /\ target' = target /\ current' = current
    BY <1>2 DEF RunFails
  <2>2. servers' \subseteq servers \cup {target}
    BY <1>2 DEF RunFails, PmFails
  <2>3. servers' \subseteq 1..target
    BY <2>1, <2>2
  <2> QED BY <2>1, <2>3
<1>3. CASE Killed
  BY <1>3 DEF Killed
<1>4. CASE Reboot
  <2>1. /\ target' = target /\ current' = current
        /\ servers' \subseteq {current} \ {0}
    BY <1>4 DEF Reboot
  <2>2. CASE at' = "failed"
    <3>1. servers' \subseteq 1..target
      BY <2>1
    <3> QED BY <2>1, <2>2, <3>1
  <2>3. CASE at' # "failed"
    <3>1. /\ at' = at /\ at \notin Switching /\ at # "prerun"
          /\ current # 0 => servers' = {current}
      BY <1>4, <2>3 DEF Reboot
    <3>2. servers' \subseteq 1..target
      BY <2>1
    <3> QED BY <2>1, <3>1, <3>2 DEF Switching
  <2> QED BY <2>1, <2>2, <2>3
<1>5. CASE UnlinkBack
  BY <1>5 DEF UnlinkBack
<1>6. CASE LinkBack
  BY <1>6 DEF LinkBack
<1> QED BY <1>1, <1>2, <1>3, <1>4, <1>5, <1>6

\* The link that run.sh's failure brings back is one of an earlier deployment.
OldOK == old \in 0..target

\* Numbers, link and servers fit the place a deployment has come to, in every
\* reachable state.
THEOREM DeploymentInvariant == DeploymentSpec => [](SwitchInv /\ OldOK)
<1>1. DeploymentInit => SwitchInv /\ OldOK
  BY DEF DeploymentInit, SwitchInv, NumbersOK, SwitchOK, OldOK
<1>2. SwitchInv /\ OldOK /\ [DeploymentNext]_allVars => SwitchInv' /\ OldOK'
  <2> SUFFICES ASSUME SwitchInv, OldOK, [DeploymentNext]_allVars
               PROVE  SwitchInv' /\ OldOK'
    OBVIOUS
  <2>1. ASSUME NEW n \in Releases, Deploy(n)
        PROVE  SwitchInv' /\ OldOK'
    <3>1. old' = old /\ target' = target + 1 /\ target \in Nat
      BY <2>1 DEF Deploy, SwitchInv, NumbersOK
    <3>2. OldOK'
      BY <3>1 DEF OldOK
    <3> QED BY <2>1, <3>2, DeployKeeps
  <2>2. CASE UNCHANGED switchVars
    BY <2>2, MigrateKeeps DEF OldOK, switchVars
  <2>3. CASE Switch
    <3>1. OldOK'
      BY <2>3 DEF Switch, OldOK, SwitchInv, NumbersOK, PrerunSucceeds, PrerunFails, Unlink,
                  Link, ListServers, Start, DeleteServer, Succeed, RunFails, UnlinkBack, LinkBack, Killed, Reboot
    <3> QED BY <2>3, <3>1, SwitchKeeps, FailureKeeps DEF Switch, OldOK
  <2>4. CASE UNCHANGED allVars
    BY <2>2, <2>4 DEF allVars
  <2> QED BY <2>1, <2>2, <2>3, <2>4 DEF DeploymentNext, ByHand
<1> QED BY <1>1, <1>2, PTL DEF DeploymentSpec

\* A deployment that succeeds leaves its own server alone to run and the link
\* on it, and so it stays over restarts of the host.
THEOREM DeploymentSuccessRepairs == DeploymentSpec => []SuccessRepairs
<1>1. SwitchInv => SuccessRepairs
  BY DEF SwitchInv, SwitchOK, SuccessRepairs
<1> QED BY <1>1, DeploymentInvariant, PTL

\* No step of a deployment, and none of its failures, leaves the site without
\* a server if it had one: the new one is started before any is deleted.
THEOREM DeploymentSiteStaysUp == DeploymentSpec => SiteStaysUp
<1>1. SwitchInv /\ [DeploymentNext]_allVars
        => [servers # {} /\ ~Reboot => servers' # {}]_allVars
  <2> SUFFICES ASSUME SwitchInv, DeploymentNext, servers # {}, ~Reboot
               PROVE  servers' # {}
    BY DEF SiteStaysUp
  <2>1. CASE Switch
    <3>1. CASE DeleteServer \/ RunFails
      <4>1. at = "delete" => target \in servers /\ target \notin oldIds
        BY DEF SwitchInv, SwitchOK
      <4> QED BY <3>1, <4>1 DEF DeleteServer, RunFails, PmFails
    <3>2. CASE Start
      BY <3>2 DEF Start
    <3>3. \/ PrerunSucceeds \/ PrerunFails \/ Unlink \/ Link \/ ListServers
          \/ Succeed \/ UnlinkBack \/ LinkBack \/ Killed
          => servers' = servers
      BY DEF PrerunSucceeds, PrerunFails, Unlink, Link, ListServers, Succeed, UnlinkBack,
             LinkBack, Killed
    <3> QED BY <2>1, <3>1, <3>2, <3>3 DEF Switch
  <2>2. CASE UNCHANGED switchVars
    BY <2>2 DEF switchVars
  <2>3. ASSUME NEW n \in Releases, Deploy(n)
        PROVE  servers' # {}
    BY <2>3 DEF Deploy
  <2> QED BY <2>1, <2>2, <2>3 DEF DeploymentNext, ByHand
<1> QED BY <1>1, DeploymentInvariant, PTL DEF DeploymentSpec, SiteStaysUp

-----------------------------------------------------------------------------
(* The types, those of the schema included: what the scripts add.          *)

\* What a schema may consist of.
SchemaParts == Tables \X (Parts \cup {"utf8"})

\* A statement adds only parts there are; one that adds an unnamed key takes
\* nothing away.
Known(s) ==
    /\ s.plus \subseteq SchemaParts
    /\ s.unnamed \in {<<>>, FriendlyNameKeys}
    /\ s.minus = {} \/ s.unnamed = <<>>

\* So do all of these statements, of which there are at most six.
AllKnown(statements) ==
    /\ Len(statements) \in 0..6
    /\ \A i \in 1..Len(statements) : Known(statements[i])

\* The statements of the scripts, made of tables and parts there are.
LEMMA CreateKnown ==
    ASSUME NEW t \in Tables, NEW names \in SUBSET Parts
    PROVE  Known(CreateTable(t, names))
<1>1. CreateTable(t, names).plus = {<<t, n>> : n \in {""} \cup names}
  BY DEF CreateTable, Statement, Of
<1>2. CreateTable(t, names).unnamed = <<>>
  BY DEF CreateTable, Statement
<1>3. {""} \cup names \subseteq Parts
  BY DEF Parts
<1>4. \A n \in Parts : <<t, n>> \in SchemaParts
  BY DEF SchemaParts
<1> QED BY <1>1, <1>2, <1>3, <1>4 DEF Known

\* The other statements add one part or nothing.
LEMMA OthersKnown ==
    ASSUME NEW t \in Tables
    PROVE  /\ Known(DropTable(t))
           /\ \A name \in Parts : \A on : Known(AddOn(t, name, on))
           /\ \A name \in Parts : Known(Add(t, name))
           /\ \A name, index : Known(DropWith(t, name, index))
           /\ \A name : Known(Drop(t, name))
           /\ \A from, keys : \A to \in Parts : Known(Modify(t, from, to, keys))
           /\ \A column : Known(Fill(t, column))
<1> USE DEF Known, Statement, SchemaParts
<1>1. Known(DropTable(t))
  BY DEF DropTable
<1>2. \A name \in Parts : \A on : Known(AddOn(t, name, on))
  BY DEF AddOn
<1>3. \A name \in Parts : Known(Add(t, name))
  BY <1>2 DEF Add
<1>4. \A name, index : Known(DropWith(t, name, index))
  BY DEF DropWith
<1>5. \A name : Known(Drop(t, name))
  BY <1>4 DEF Drop
<1>6. \A from, keys : \A to \in Parts : Known(Modify(t, from, to, keys))
  BY DEF Modify
<1>7. \A column : Known(Fill(t, column))
  BY DEF Fill
<1> QED BY <1>1, <1>2, <1>3, <1>4, <1>5, <1>6, <1>7

\* These three stand alone.
LEMMA SpecialsKnown ==
    /\ Known(AddUniqueFriendlyName)
    /\ Known(SyntaxError)
    /\ Known(Statement({}, {}, {}, {<<"database", "utf8">>}))
BY DEF Known, Statement, SchemaParts, AddUniqueFriendlyName, SyntaxError, Tables

\* The tables and parts the statements name.
LEMMA Named ==
    /\ "users" \in Tables /\ "googleProfiles" \in Tables /\ "subscriptions" \in Tables
    /\ "feedPosts" \in Tables /\ "userPostsRead" \in Tables /\ "rssUrlStatus" \in Tables
    /\ "userPasswords" \in Tables /\ "passwordResets" \in Tables
    /\ "friendlyName text" \in Parts /\ "friendlyName varchar" \in Parts /\ "friendlyName" \in Parts
    /\ "friendlyName_2" \in Parts /\ "friendlyName_3" \in Parts
    /\ "id" \in Parts /\ "id auto_increment" \in Parts /\ "userId" \in Parts
    /\ "dateCreated" \in Parts /\ "dateModified" \in Parts
    /\ "idx postUrlHash" \in Parts /\ "idx rssUrlHash" \in Parts /\ "idx postDate" \in Parts
    /\ "idx userId_urlHash" \in Parts /\ "rssUrlHash" \in Parts
    /\ "trigger update" \in Parts /\ "trigger insert" \in Parts
    /\ "username" \in Parts /\ "idx username" \in Parts
BY DEF Tables, Parts

\* A script is known when its two ways are,
KnownScript(script) == AllKnown(script.up) /\ AllKnown(script.down)

\* is made of two such ways,
LEMMA ScriptKnown == \A up, down : AllKnown(up) /\ AllKnown(down) => KnownScript(Script(up, down))
BY DEF Script, KnownScript

\* and a way is at most six statements.
LEMMA WaysKnown ==
    /\ AllKnown(<<>>)
    /\ \A a : Known(a) => AllKnown(<<a>>)
    /\ \A a, b : Known(a) /\ Known(b) => AllKnown(<<a, b>>)
    /\ \A a, b, c : Known(a) /\ Known(b) /\ Known(c) => AllKnown(<<a, b, c>>)
    /\ \A a, b, c, d :
          Known(a) /\ Known(b) /\ Known(c) /\ Known(d) => AllKnown(<<a, b, c, d>>)
    /\ \A a, b, c, d, e :
          Known(a) /\ Known(b) /\ Known(c) /\ Known(d) /\ Known(e) => AllKnown(<<a, b, c, d, e>>)
    /\ \A a, b, c, d, e, f :
          Known(a) /\ Known(b) /\ Known(c) /\ Known(d) /\ Known(e) /\ Known(f) =>
             AllKnown(<<a, b, c, d, e, f>>)
BY DEF AllKnown

\* The scripts that make and drop tables.
LEMMA TablesKnown ==
    /\ KnownScript(Collation)
    /\ KnownScript(RssFeed)
    /\ KnownScript(StoresFeedPosts)
    /\ KnownScript(TableUserPostsRead)
    /\ KnownScript(CanTrackRssUrlStatus)
    /\ KnownScript(UserPasswords)
    /\ KnownScript(PasswordResetsTable)
<1> USE Named, ScriptKnown, WaysKnown, CreateKnown, OthersKnown, SpecialsKnown
<1>1. KnownScript(Collation)
  BY Zenon DEF Collation
<1>2. KnownScript(RssFeed)
  BY Zenon DEF RssFeed
<1>3. KnownScript(StoresFeedPosts)
  BY Zenon DEF StoresFeedPosts
<1>4. KnownScript(TableUserPostsRead)
  BY Zenon DEF TableUserPostsRead
<1>5. KnownScript(CanTrackRssUrlStatus)
  BY Zenon DEF CanTrackRssUrlStatus
<1>6. KnownScript(UserPasswords)
  BY Zenon DEF UserPasswords
<1>7. KnownScript(PasswordResetsTable)
  BY Zenon DEF PasswordResetsTable
<1> QED BY <1>1, <1>2, <1>3, <1>4, <1>5, <1>6, <1>7

\* The scripts that change tables.
LEMMA ChangesKnown ==
    /\ KnownScript(ExtendSubscriptions)
    /\ KnownScript(Timestamps)
    /\ KnownScript(MoarTimestamps)
    /\ KnownScript(SubscriptionsRssUrlHash)
    /\ KnownScript(UniqueFriendlyName)
    /\ KnownScript(UsernameFix)
    /\ KnownScript(UsernameFixPart2)
    /\ KnownScript(UsernameFixPart3)
    /\ KnownScript(FeedPostsPostDateIndex)
<1> USE Named, ScriptKnown, WaysKnown, OthersKnown, SpecialsKnown
<1>1. KnownScript(ExtendSubscriptions)
  BY Zenon DEF ExtendSubscriptions
<1>2. KnownScript(Timestamps)
  BY Zenon DEF Timestamps
<1>3. KnownScript(MoarTimestamps)
  BY Zenon DEF MoarTimestamps
<1>4. KnownScript(SubscriptionsRssUrlHash)
  BY Zenon DEF SubscriptionsRssUrlHash
<1>5. KnownScript(UniqueFriendlyName)
  BY Zenon DEF UniqueFriendlyName
<1>6. KnownScript(UsernameFix)
  BY Zenon DEF UsernameFix
<1>7. KnownScript(UsernameFixPart2)
  BY Zenon DEF UsernameFixPart2
<1>8. KnownScript(UsernameFixPart3)
  BY Zenon DEF UsernameFixPart3
<1>9. KnownScript(FeedPostsPostDateIndex)
  BY Zenon DEF FeedPostsPostDateIndex
<1> QED BY <1>1, <1>2, <1>3, <1>4, <1>5, <1>6, <1>7, <1>8, <1>9

\* There are sixteen migrations.
LEMMA Sixteen == Migrations = 1..16 /\ Len(Scripts) = 16
BY DEF Migrations, Scripts

\* Every script adds only parts there are.
LEMMA ScriptsKnown ==
    ASSUME NEW m \in Migrations
    PROVE  KnownScript(Scripts[m])
<1>1. \/ Scripts[m] \in {Collation, RssFeed, StoresFeedPosts, TableUserPostsRead,
                         CanTrackRssUrlStatus, UserPasswords, PasswordResetsTable}
      \/ Scripts[m] \in {ExtendSubscriptions, Timestamps, MoarTimestamps, SubscriptionsRssUrlHash,
                         UniqueFriendlyName, UsernameFix, UsernameFixPart2, UsernameFixPart3,
                         FeedPostsPostDateIndex}
  BY Sixteen DEF Scripts
<1> QED BY <1>1, TablesKnown, ChangesKnown

\* A statement leaves a schema of parts there are.
LEMMA AfterKnown ==
    ASSUME NEW s, Known(s), NEW st, st \subseteq SchemaParts
    PROVE  After(s, st) \subseteq SchemaParts
<1>1. FirstFree(s.unnamed, st) \subseteq SchemaParts
  <2>1. ASSUME NEW names \in {<<>>, FriendlyNameKeys}, NEW i \in DOMAIN names
        PROVE  <<"users", names[i]>> \in SchemaParts
    <3>1. i \in 1..3 /\ names = FriendlyNameKeys
      BY <2>1 DEF FriendlyNameKeys
    <3>2. /\ FriendlyNameKeys[1] \in Parts /\ FriendlyNameKeys[2] \in Parts
          /\ FriendlyNameKeys[3] \in Parts
      BY Named DEF FriendlyNameKeys
    <3>3. names[i] \in Parts
      BY <3>1, <3>2
    <3> QED BY <3>3, Named DEF SchemaParts
  <2> QED BY <2>1 DEF Known, FirstFree
<1> QED BY <1>1 DEF Known, After

\* The migration a run is at is one of those it has still to run.
LEMMA CurrentIsLeft ==
    ASSUME todo \subseteq Migrations, todo # {}
    PROVE  Current \in todo
<1>1. \E n \in todo : \A m \in todo : n <= m
  <2>1. todo \in SUBSET Nat
    BY Sixteen
  <2> QED BY <2>1, LeastNatural
<1>2. \E n \in todo : \A m \in todo : n >= m
  <2> DEFINE Turned == {16 - m : m \in todo}
  <2>1. Turned \in SUBSET Nat /\ Turned # {}
    <3>1. \A m \in todo : 16 - m \in Nat
      BY Sixteen
    <3> QED BY <3>1
  <2>2. PICK k \in Turned : \A l \in Turned : k <= l
    <3> HIDE DEF Turned
    <3> QED BY <2>1, LeastNatural
  <2>3. PICK n \in todo : k = 16 - n
    BY <2>2
  <2>4. \A m \in todo : 16 - n <= 16 - m
    BY <2>2, <2>3
  <2>5. \A m \in todo : n >= m
    BY <2>4, Sixteen
  <2> QED BY <2>5
<1> QED BY <1>1, <1>2 DEF Current, Min, Max

\* So the next statement is known.
LEMMA StatementsKnown ==
    ASSUME MigrationsTypeOK, todo # {}
    PROVE  AllKnown(Statements)
<1>1. Current \in Migrations
  BY CurrentIsLeft DEF MigrationsTypeOK
<1> QED BY <1>1, ScriptsKnown DEF Statements, KnownScript

\* A failure counts at most once.
LEMMA FailureCounts ==
    ASSUME failures \in 0..MaxFailures
    PROVE  /\ MayFail => failures' \in 0..MaxFailures
           /\ failures < MaxFailures => failures + 1 \in 0..MaxFailures
BY ReleasesAssumption DEF MayFail

\* The steps of a run keep the types.
LEMMA MigrateTypes ==
    ASSUME MigrationsTypeOK, Migrate
    PROVE  MigrationsTypeOK'
<1> USE DEF MigrationsTypeOK
<1>0. failures' \in 0..MaxFailures
  BY FailureCounts
    DEF Migrate, ReadRecorded, NoSuchScript, Execute, AnswerLost, Refused, StepFails,
     ScriptEnds, Record, RecordFailsUnnoticed, historyVars
<1>1. CASE ReadRecorded
  <2>1. Left \subseteq Migrations
    BY <1>1, Sixteen DEF ReadRecorded
  <2>2. /\ todo' = Left /\ step' = 1 /\ pc' = IF Left = {} THEN "done" ELSE "running"
        /\ UNCHANGED <<schema, release, recorded, way>>
    BY <1>1 DEF ReadRecorded
  <2> QED BY <1>0, <2>1, <2>2
<1>2. CASE NoSuchScript
  BY <1>0, <1>2 DEF NoSuchScript, Fails
<1>3. CASE Execute \/ AnswerLost
  <2>1. /\ pc = "running" /\ step <= Len(Statements)
        /\ schema' = After(Statements[step], schema)
    BY <1>3 DEF Execute, AnswerLost
  <2>2. AllKnown(Statements)
    BY <2>1, StatementsKnown
  <2>3. step \in 1..Len(Statements) /\ step + 1 \in 1..7
    BY <2>1, <2>2 DEF AllKnown
  <2>4. schema' \subseteq Tables \X (Parts \cup {"utf8"})
    <3>1. Known(Statements[step])
      BY <2>2, <2>3 DEF AllKnown
    <3> QED BY <2>1, <3>1, AfterKnown DEF SchemaParts
  <2>5. CASE Execute
    BY <1>0, <2>3, <2>4, <2>5 DEF Execute
  <2>6. CASE AnswerLost
    BY <1>0, <2>4, <2>6 DEF AnswerLost, Fails
  <2> QED BY <1>3, <2>5, <2>6
<1>4. CASE Refused
  BY <1>0, <1>4 DEF Refused, Fails
<1>5. CASE StepFails
  BY <1>0, <1>5 DEF StepFails, Fails
<1>6. CASE ScriptEnds
  BY <1>0, <1>6 DEF ScriptEnds
<1>7. CASE Record
  <2>1. Current \in Migrations
    BY <1>7, CurrentIsLeft DEF Record
  <2> QED BY <1>0, <1>7, <2>1 DEF Record, GoOn
<1>8. CASE RecordFailsUnnoticed
  BY <1>0, <1>8 DEF RecordFailsUnnoticed, GoOn
<1> QED BY <1>1, <1>2, <1>3, <1>4, <1>5, <1>6, <1>7, <1>8 DEF Migrate

\* A run begins with nothing to do yet.
LEMMA BeginTypes ==
    ASSUME MigrationsTypeOK, NEW w \in {"up", "down"}, NEW n \in Releases, Begin(w, n)
    PROVE  MigrationsTypeOK'
<1>1. n \in 0..Len(Scripts)
  BY ReleasesAssumption, Sixteen
<1> QED BY <1>1 DEF Begin, MigrationsTypeOK, historyVars

\* Deployments are counted, and what they list are deployments.
CountsOK ==
    /\ target \in 0..MaxDeploys
    /\ oldIds \subseteq 1..MaxDeploys
    /\ at \in Resting \cup Switching \cup {"prerun"}

\* The steps of deploy.sh and run.sh touch at most the number of failures.
LEMMA SwitchTypes ==
    ASSUME MigrationsTypeOK, NumbersOK, CountsOK, Switch
    PROVE  MigrationsTypeOK' /\ CountsOK'
<1>1. UNCHANGED <<schema, recorded, runVars>>
  BY
    DEF Switch, PrerunSucceeds, PrerunFails, Unlink, Link, ListServers, Start, DeleteServer,
        Succeed,
         RunFails, UnlinkBack, LinkBack, Killed, Reboot, vars
<1>2. failures' \in 0..MaxFailures
  BY FailureCounts
    DEF MigrationsTypeOK, Switch, PrerunSucceeds, PrerunFails, Unlink, Link, ListServers,
         Start, DeleteServer, Succeed, RunFails, UnlinkBack, LinkBack, Killed, Reboot, vars, historyVars
<1>3. MigrationsTypeOK'
  BY <1>1, <1>2 DEF MigrationsTypeOK, runVars
<1>4. target' = target
  BY
    DEF Switch, PrerunSucceeds, PrerunFails, Unlink, Link, ListServers, Start, DeleteServer,
        Succeed,
         RunFails, UnlinkBack, LinkBack, Killed, Reboot
<1>5. oldIds' \subseteq oldIds \cup servers
  BY
    DEF Switch, PrerunSucceeds, PrerunFails, Unlink, Link, ListServers, Start, DeleteServer,
        Succeed,
         RunFails, UnlinkBack, LinkBack, Killed, Reboot
<1>6. oldIds' \subseteq 1..MaxDeploys
  BY <1>5, DeploysAssumption DEF NumbersOK, CountsOK
<1>7. at' \in Resting \cup Switching \cup {"prerun"}
  BY
    DEF CountsOK, Resting, Switching, Switch, PrerunSucceeds, PrerunFails, Unlink, Link,
        ListServers,
         Start, DeleteServer, Succeed, RunFails, UnlinkBack, LinkBack, Killed, Reboot
<1> QED BY <1>3, <1>4, <1>6, <1>7 DEF CountsOK

\* Every step keeps the types.
LEMMA DeploymentTypesNext ==
    MigrationsTypeOK /\ NumbersOK /\ CountsOK /\ [DeploymentNext]_allVars
       => MigrationsTypeOK' /\ CountsOK'
<1> SUFFICES ASSUME MigrationsTypeOK, NumbersOK, CountsOK, [DeploymentNext]_allVars
             PROVE  MigrationsTypeOK' /\ CountsOK'
  OBVIOUS
<1>1. ASSUME NEW n \in Releases, Deploy(n)
      PROVE  MigrationsTypeOK' /\ CountsOK'
  <2>1. MigrationsTypeOK'
    BY <1>1, BeginTypes DEF Deploy
  <2>2. CountsOK'
    BY <1>1, DeploysAssumption DEF Deploy, CountsOK
  <2> QED BY <2>1, <2>2
<1>2. ASSUME UNCHANGED switchVars
      PROVE  CountsOK'
  BY <1>2 DEF switchVars, CountsOK
<1>3. ASSUME NEW n \in Releases, NEW w \in {"up", "down"}, ByHand(w, n)
      PROVE  MigrationsTypeOK' /\ CountsOK'
  BY <1>2, <1>3, BeginTypes DEF ByHand
<1>4. CASE Migrate /\ UNCHANGED switchVars
  BY <1>2, <1>4, MigrateTypes
<1>5. CASE UNCHANGED allVars
  BY <1>2, <1>5 DEF allVars, vars, runVars, historyVars, MigrationsTypeOK
<1> QED BY <1>1, <1>3, <1>4, <1>5, SwitchTypes DEF DeploymentNext

\* The schema, the records, the run of the migrations and the servers are of
\* their types in every reachable state.
THEOREM DeploymentTypes == DeploymentSpec => []DeploymentTypeOK
<1>1. DeploymentInit => MigrationsTypeOK /\ CountsOK
  BY ReleasesAssumption, DeploysAssumption, Sixteen
  DEF DeploymentInit, Init, MigrationsTypeOK, CountsOK, Resting
<1>2. MigrationsTypeOK /\ CountsOK /\ SwitchInv /\ OldOK => DeploymentTypeOK
  <2> SUFFICES ASSUME MigrationsTypeOK, CountsOK, SwitchInv, OldOK PROVE DeploymentTypeOK
    OBVIOUS
  <2>1. 1..target \subseteq 1..MaxDeploys /\ 0..target \subseteq 0..MaxDeploys
    BY DeploysAssumption DEF CountsOK
  <2> QED BY <2>1 DEF CountsOK, SwitchInv, NumbersOK, OldOK, DeploymentTypeOK
<1>3. SwitchInv => NumbersOK
  BY DEF SwitchInv
<1> QED BY <1>1, <1>2, <1>3, DeploymentInvariant, DeploymentTypesNext, PTL DEF DeploymentSpec

-----------------------------------------------------------------------------
(* What a list of statements makes of a schema. *)

\* The schemas st, After(ss[1], st), and so on.
Path(ss, st) ==
    LET f[i \in 0..Len(ss)] == IF i = 0 THEN st ELSE After(ss[i], f[i - 1])
    IN  f

\* A path of known statements stays among the parts there are.
LEMMA PathIs ==
    ASSUME NEW ss, AllKnown(ss), NEW st \in SUBSET SchemaParts
    PROVE  /\ Path(ss, st)[0] = st
           /\ \A i \in 1..Len(ss) : Path(ss, st)[i] = After(ss[i], Path(ss, st)[i - 1])
           /\ \A i \in 0..Len(ss) : Path(ss, st)[i] \subseteq SchemaParts
           /\ Applied(ss, st) = Path(ss, st)[Len(ss)]
<1> DEFINE SP == SUBSET SchemaParts
           n == Len(ss)
           next == [i \in 1..n |-> [x \in SP |-> After(ss[i], x)]]
           IsPath(f) == f = [i \in 0..n |-> IF i = 0 THEN st ELSE After(ss[i], f[i - 1])]
<1>0. n \in Nat
  BY DEF AllKnown
<1>1. next \in [1..n -> [SP -> SP]]
  BY AfterKnown DEF AllKnown
<1>2. \A i \in 1..n, x \in SP : next[i][x] = After(ss[i], x)
  OBVIOUS
<1>3. PICK f : Iterates(f, SP, n, st, next)
  <2> HIDE DEF SP, n, next
  <2>1. st \in SP
    BY DEF SP
  <2> QED BY <1>0, <1>1, <2>1, RecursionUpTo, Zenon
<1>4. \A i \in 1..n : i - 1 \in 0..n /\ i # 0
  OBVIOUS
<1>5. IsPath(f)
  <2>1. /\ f \in [0..n -> SP] /\ f[0] = st
        /\ \A i \in 1..n : f[i] = After(ss[i], f[i - 1])
    <3> HIDE DEF SP, n, next
    <3> QED BY <1>2, <1>3, <1>4 DEF Iterates
  <2>2. \A i \in 0..n : f[i] = IF i = 0 THEN st ELSE After(ss[i], f[i - 1])
    BY <2>1
  <2> HIDE DEF SP, n
  <2> QED BY <2>1, <2>2
<1>6. Path(ss, st) = CHOOSE g : IsPath(g)
  BY DEF Path
<1>7. IsPath(Path(ss, st))
  <2> HIDE DEF IsPath
  <2> QED BY <1>5, <1>6, Zenon
<1>8. Applied(ss, st) = Path(ss, st)[n]
  BY DEF Applied, Path
<1> DEFINE g == Path(ss, st)
<1>9. /\ g[0] = st
      /\ \A i \in 1..n : g[i] = After(ss[i], g[i - 1])
      /\ g = [i \in 0..n |-> g[i]]
  <2> HIDE DEF g
  <2>1. IsPath(g)
    BY <1>7 DEF g
  <2> QED BY <1>0, <2>1
<1>10. Iterates(g, SP, n, st, next)
  <2> HIDE DEF SP, n, next, g
  <2>1. st \in SP
    BY DEF SP
  <2>2. \A i \in 1..n : g[i - 1] \in SP => g[i] = next[i][g[i - 1]]
    BY <1>2, <1>9
  <2> QED BY <1>0, <1>1, <1>9, <2>1, <2>2, IteratesTyped, Zenon
<1>11. \A i \in 0..n : g[i] \in SP
  BY <1>10 DEF Iterates
<1> QED BY <1>8, <1>9, <1>11

\* The schemas of the releases.
LEMMA BuiltIs ==
    /\ Built[0] = {}
    /\ \A k \in 1..16 : Built[k] = Applied(Scripts[k].up, Built[k - 1])
    /\ \A k \in 0..16 : Built[k] \subseteq SchemaParts
<1> DEFINE SP == SUBSET SchemaParts
           next == [k \in 1..16 |-> [x \in SP |-> Applied(Scripts[k].up, x)]]
           IsBuilt(f) ==
             f = [k \in 0..16 |-> IF k = 0 THEN {} ELSE Applied(Scripts[k].up, f[k - 1])]
<1>1. ASSUME NEW k \in 1..16, NEW x \in SP
      PROVE  Applied(Scripts[k].up, x) \in SP
  <2>1. AllKnown(Scripts[k].up)
    BY ScriptsKnown, Sixteen DEF KnownScript
  <2>2. Len(Scripts[k].up) \in 0..Len(Scripts[k].up)
    BY <2>1 DEF AllKnown
  <2> QED BY <2>1, <2>2, PathIs
<1>2. next \in [1..16 -> [SP -> SP]]
  BY <1>1
<1>3. \A k \in 1..16, x \in SP : next[k][x] = Applied(Scripts[k].up, x)
  OBVIOUS
<1>4. {} \in SP /\ 16 \in Nat
  OBVIOUS
<1>5. \A k \in 1..16 : k - 1 \in 0..16 /\ k # 0
  OBVIOUS
<1>6. PICK f : Iterates(f, SP, 16, {}, next)
  <2> HIDE DEF SP, next
  <2> QED BY <1>2, <1>4, RecursionUpTo, Zenon
<1>7. IsBuilt(f)
  <2>1. /\ f \in [0..16 -> SP] /\ f[0] = {}
        /\ \A k \in 1..16 : f[k] = Applied(Scripts[k].up, f[k - 1])
    <3> HIDE DEF SP, next
    <3> QED BY <1>3, <1>5, <1>6 DEF Iterates
  <2>2. \A k \in 0..16 : f[k] = IF k = 0 THEN {} ELSE Applied(Scripts[k].up, f[k - 1])
    BY <2>1
  <2> HIDE DEF SP
  <2> QED BY <2>1, <2>2
<1>8. Built = CHOOSE g : IsBuilt(g)
  BY Sixteen DEF Built
<1>9. IsBuilt(Built)
  <2> HIDE DEF IsBuilt
  <2> QED BY <1>7, <1>8, Zenon
<1> DEFINE g == Built
<1>10. /\ g[0] = {}
       /\ \A k \in 1..16 : g[k] = Applied(Scripts[k].up, g[k - 1])
       /\ g = [k \in 0..16 |-> g[k]]
  <2> HIDE DEF g
  <2>1. IsBuilt(g)
    BY <1>9 DEF g
  <2>2. 0 \in 0..16 /\ \A k \in 1..16 : k \in 0..16 /\ k # 0
    OBVIOUS
  <2>3. g[0] = {}
    BY <2>1, <2>2
  <2>4. \A k \in 1..16 : g[k] = Applied(Scripts[k].up, g[k - 1])
    BY <2>1, <2>2
  <2>5. g = [k \in 0..16 |-> g[k]]
    BY <2>1
  <2> QED BY <2>3, <2>4, <2>5
<1>11. Iterates(g, SP, 16, {}, next)
  <2> HIDE DEF SP, next, g
  <2>1. \A k \in 1..16 : g[k - 1] \in SP => g[k] = next[k][g[k - 1]]
    BY <1>3, <1>10
  <2> QED BY <1>2, <1>4, <1>10, <2>1, IteratesTyped, Zenon
<1>12. \A k \in 0..16 : g[k] \in SP
  BY <1>11 DEF Iterates
<1> QED BY <1>10, <1>12

-----------------------------------------------------------------------------
(* How far two schemas are apart. *)

\* The parts that one of two schemas has and the other has not.
Diff(A, B) == (A \ B) \cup (B \ A)

\* The unique key of the names of users, by the name it has when it is added once.
FriendlyName == <<"users", "friendlyName">>

\* The parts that are the same after the statement whatever they were before,
Settled(s) == s.minus \cup s.plus \cup (IF s.unnamed = <<>> THEN {} ELSE {FriendlyName})
\* and those that need not be, though they were the same.
Stray(s) == IF s.unnamed = <<>> THEN {} ELSE Copies

\* The parts that the first j statements settle, or may lead astray.
SettledBy(ss, j) == UNION {Settled(ss[i]) : i \in 1..j}
StrayOf(ss, j) == UNION {Stray(ss[i]) : i \in 1..j}
Touched(ss) == SettledBy(ss, Len(ss)) \cup StrayOf(ss, Len(ss))

\* An unnamed key has three names to choose from,
LEMMA KeyNames ==
    /\ DOMAIN FriendlyNameKeys = 1..3 /\ 1 \in DOMAIN FriendlyNameKeys /\ FriendlyNameKeys # <<>>
    /\ <<"users", FriendlyNameKeys[1]>> = FriendlyName
    /\ <<"users", FriendlyNameKeys[2]>> \in Copies
    /\ <<"users", FriendlyNameKeys[3]>> \in Copies
<1>1. /\ DOMAIN FriendlyNameKeys = 1..3
      /\ FriendlyNameKeys[1] = "friendlyName" /\ FriendlyNameKeys[2] = "friendlyName_2"
      /\ FriendlyNameKeys[3] = "friendlyName_3"
  BY DEF FriendlyNameKeys
<1>2. FriendlyNameKeys # <<>>
  BY DEF FriendlyNameKeys
<1> QED BY <1>1, <1>2 DEF FriendlyName, Copies

\* and takes the first that is free.
LEMMA FirstFreeKeys ==
    ASSUME NEW st
    PROVE  /\ FirstFree(<<>>, st) = {}
           /\ FirstFree(FriendlyNameKeys, st) \subseteq {FriendlyName} \cup Copies
           /\ FriendlyName \in st \cup FirstFree(FriendlyNameKeys, st)
           /\ FriendlyName \notin st => FirstFree(FriendlyNameKeys, st) = {FriendlyName}
<1>1. FirstFree(<<>>, st) = {}
  BY DEF FirstFree
<1> DEFINE key(i) == <<"users", FriendlyNameKeys[i]>>
           free == {j \in 1..3 : key(j) \notin st /\ \A k \in 1..(j - 1) : key(k) \in st}
<1>3. FirstFree(FriendlyNameKeys, st) = {key(i) : i \in free}
  BY KeyNames DEF FirstFree
<1>4. /\ key(1) = FriendlyName /\ key(2) \in Copies /\ key(3) \in Copies
  BY KeyNames
<1>5. free \subseteq 1..3 /\ (FriendlyName \notin st => free = {1})
  <2>1. FriendlyName \notin st => 1 \in free
    BY <1>4
  <2>2. \A j \in 1..3 : j # 1 => 1 \in 1..(j - 1)
    OBVIOUS
  <2>3. FriendlyName \notin st => \A j \in free : j = 1
    BY <1>4, <2>2
  <2> QED BY <2>1, <2>3
<1>6. \A i \in free : i = 1 \/ i = 2 \/ i = 3
  BY <1>5
<1> HIDE DEF free, key
<1> QED BY <1>1, <1>3, <1>4, <1>5, <1>6

\* A statement brings two schemas nearer, but for the name of a key.
LEMMA AfterDiff ==
    ASSUME NEW s, Known(s), NEW a, NEW b
    PROVE  /\ Diff(After(s, a), After(s, b)) \subseteq (Diff(a, b) \ Settled(s)) \cup Stray(s)
           /\ Diff(a, b) = {} => Diff(After(s, a), After(s, b)) = {}
           /\ Diff(After(s, a), a) \subseteq Settled(s) \cup Stray(s)
<1>1. Diff(a, b) = {} => a = b
  BY DEF Diff
<1>2. a = b => Diff(After(s, a), After(s, b)) = {}
  BY DEF Diff
<1>3. CASE s.unnamed = <<>>
  <2>1. \A st : After(s, st) = (st \ s.minus) \cup s.plus
    BY <1>3, FirstFreeKeys DEF After
  <2>2. Settled(s) = s.minus \cup s.plus /\ Stray(s) = {}
    BY <1>3 DEF Settled, Stray
  <2>3. Diff(After(s, a), After(s, b)) \subseteq (Diff(a, b) \ Settled(s)) \cup Stray(s)
    BY <2>1, <2>2 DEF Diff
  <2>4. Diff(After(s, a), a) \subseteq Settled(s) \cup Stray(s)
    BY <2>1, <2>2 DEF Diff
  <2> QED BY <1>1, <1>2, <2>3, <2>4
<1>4. CASE s.unnamed = FriendlyNameKeys /\ s.minus = {}
  <2>1. FriendlyNameKeys # <<>>
    BY KeyNames
  <2>2. Settled(s) = s.plus \cup {FriendlyName} /\ Stray(s) = Copies
    BY <1>4, <2>1 DEF Settled, Stray
  <2>3. \A st : After(s, st) = st \cup s.plus \cup FirstFree(FriendlyNameKeys, st)
    BY <1>4 DEF After
  <2>4. \A st : FriendlyName \in After(s, st)
    BY <2>3, FirstFreeKeys
  <2>5. \A st : After(s, st) \subseteq st \cup Settled(s) \cup Stray(s)
    BY <2>2, <2>3, FirstFreeKeys
  <2>6. \A st : st \cup s.plus \subseteq After(s, st)
    BY <2>3
  <2>7. ASSUME NEW x \in Diff(After(s, a), After(s, b)), x \notin Stray(s)
        PROVE  x \in Diff(a, b) \ Settled(s)
    BY <2>2, <2>4, <2>5, <2>6, <2>7 DEF Diff
  <2>8. Diff(After(s, a), a) \subseteq Settled(s) \cup Stray(s)
    BY <2>5, <2>6 DEF Diff
  <2> QED BY <1>1, <1>2, <2>7, <2>8
<1> QED BY <1>3, <1>4 DEF Known

\* A path leaves what its statements do not touch.
LEMMA PathTouches ==
    ASSUME NEW ss, AllKnown(ss), NEW st \in SUBSET SchemaParts, NEW j \in 0..Len(ss)
    PROVE  Diff(Path(ss, st)[j], st) \subseteq Touched(ss)
<1> DEFINE n == Len(ss)
           A == {i \in 0..n : Diff(Path(ss, st)[i], st) \subseteq Touched(ss)}
<1>0. n \in Nat
  BY DEF AllKnown
<1>1. 0 \in A
  BY <1>0, PathIs DEF Diff
<1>2. ASSUME NEW i \in 1..n, i - 1 \in A
      PROVE  i \in A
  <2>1. Known(ss[i])
    BY DEF AllKnown
  <2>2. Path(ss, st)[i] = After(ss[i], Path(ss, st)[i - 1])
    BY PathIs
  <2>3. Diff(Path(ss, st)[i], Path(ss, st)[i - 1]) \subseteq Settled(ss[i]) \cup Stray(ss[i])
    BY <2>1, <2>2, AfterDiff
  <2>4. Settled(ss[i]) \cup Stray(ss[i]) \subseteq Touched(ss)
    BY DEF Touched, SettledBy, StrayOf
  <2>5. Diff(Path(ss, st)[i], st)
           \subseteq Diff(Path(ss, st)[i], Path(ss, st)[i - 1]) \cup Diff(Path(ss, st)[i - 1], st)
    BY DEF Diff
  <2>6. Diff(Path(ss, st)[i - 1], st) \subseteq Touched(ss) /\ i \in 0..n
    BY <1>2
  <2> QED BY <2>3, <2>4, <2>5, <2>6
<1>3. \A i \in 1..n : i - 1 \in A => i \in A
  BY <1>2
<1>4. 0..n \subseteq A
  <2> HIDE DEF A, n
  <2> QED BY <1>0, <1>1, <1>3, InductionUpTo
<1> QED BY <1>4

\* The schema differs from that of an undisturbed run by L at most, less what
\* the first j statements have settled, and more what they led astray.
Near(st, ss, b, j, L) ==
    Diff(st, Path(ss, b)[j])
      \subseteq IF L = {} THEN {} ELSE (L \ SettledBy(ss, j)) \cup StrayOf(ss, j)

\* It stays so over the next statement.
LEMMA NearNext ==
    ASSUME NEW ss, AllKnown(ss), NEW b \in SUBSET SchemaParts, NEW j \in 1..Len(ss), NEW st, NEW L,
           Near(st, ss, b, j - 1, L)
    PROVE  Near(After(ss[j], st), ss, b, j, L)
<1>1. Known(ss[j]) /\ Path(ss, b)[j] = After(ss[j], Path(ss, b)[j - 1])
  BY PathIs DEF AllKnown
<1>2. CASE L = {}
  BY <1>1, <1>2, AfterDiff DEF Near
<1>3. CASE L # {}
  <2>1. 1..j = 1..(j - 1) \cup {j}
    OBVIOUS
  <2>2. /\ SettledBy(ss, j) = SettledBy(ss, j - 1) \cup Settled(ss[j])
        /\ StrayOf(ss, j) = StrayOf(ss, j - 1) \cup Stray(ss[j])
    BY <2>1 DEF SettledBy, StrayOf
  <2>3. Diff(st, Path(ss, b)[j - 1]) \subseteq (L \ SettledBy(ss, j - 1)) \cup StrayOf(ss, j - 1)
    BY <1>3 DEF Near
  <2>4. Diff(After(ss[j], st), Path(ss, b)[j])
           \subseteq (Diff(st, Path(ss, b)[j - 1]) \ Settled(ss[j])) \cup Stray(ss[j])
    BY <1>1, AfterDiff
  <2> QED BY <1>3, <2>2, <2>3, <2>4 DEF Near
<1> QED BY <1>2, <1>3

\* A run that is broken off leaves the schema apart by what its script touches.
LEMMA NearTouched ==
    ASSUME NEW ss, AllKnown(ss), NEW b \in SUBSET SchemaParts, NEW j \in 0..Len(ss), NEW st, NEW L,
           Near(st, ss, b, j, L)
    PROVE  Diff(st, b) \subseteq L \cup Touched(ss)
<1>1. 1..j \subseteq 1..Len(ss)
  BY DEF AllKnown
<1>2. StrayOf(ss, j) \subseteq Touched(ss)
  BY <1>1 DEF Touched, StrayOf
<1>3. Diff(st, b) \subseteq Diff(st, Path(ss, b)[j]) \cup Diff(Path(ss, b)[j], b)
  BY DEF Diff
<1> QED BY <1>2, <1>3, PathTouches DEF Near

\* What it touches and does not settle are the names of unnamed keys.
LEMMA TouchedUnsettled ==
    ASSUME NEW ss
    PROVE  Touched(ss) \ SettledBy(ss, Len(ss)) \subseteq StrayOf(ss, Len(ss))
BY DEF Touched

-----------------------------------------------------------------------------
(* What the lists of statements need. *)

\* A statement runs on a schema and makes another of it.
Goes(s, a, b) == Runs(s, a) /\ After(s, a) = b

\* All of these statements run, and they make b of a.
Passes(ss, a, b) ==
    /\ \A i \in 1..Len(ss) : Runs(ss[i], Path(ss, a)[i - 1])
    /\ Path(ss, a)[Len(ss)] = b
    /\ b \in SUBSET SchemaParts

\* They do if each does what the next one needs.
LEMMA ChainPasses ==
    ASSUME NEW ss, AllKnown(ss), NEW f, f[1] \in SUBSET SchemaParts,
           \A i \in 1..Len(ss) : Goes(ss[i], f[i], f[i + 1])
    PROVE  Passes(ss, f[1], f[Len(ss) + 1])
<1> DEFINE n == Len(ss)
           P == Path(ss, f[1])
           A == {i \in 0..n : P[i] = f[i + 1]}
<1>0. n \in Nat
  BY DEF AllKnown
<1>1. /\ P[0] = f[1]
      /\ \A i \in 1..n : P[i] = After(ss[i], P[i - 1])
      /\ \A i \in 0..n : P[i] \subseteq SchemaParts
  BY PathIs
<1>2. 0 \in A
  BY <1>0, <1>1
<1>3. ASSUME NEW i \in 1..n, i - 1 \in A
      PROVE  i \in A
  <2>1. P[i - 1] = f[i]
    BY <1>3
  <2>2. P[i] = f[i + 1]
    BY <1>1, <2>1 DEF Goes
  <2> QED BY <2>2
<1>4. \A i \in 1..n : i - 1 \in A => i \in A
  BY <1>3
<1>5. 0..n \subseteq A
  <2> HIDE DEF A, n
  <2> QED BY <1>0, <1>2, <1>4, InductionUpTo
<1>6. \A i \in 1..n : P[i - 1] = f[i]
  <2> SUFFICES ASSUME NEW i \in 1..n PROVE P[i - 1] = f[i]
    OBVIOUS
  <2>1. i - 1 \in 0..n
    OBVIOUS
  <2>2. P[i - 1] = f[(i - 1) + 1]
    BY <1>5, <2>1
  <2> QED BY <2>2
<1>7. P[n] = f[n + 1] /\ n \in 0..n
  BY <1>0, <1>5
<1> HIDE DEF P, n
<1> QED BY <1>1, <1>6, <1>7 DEF Passes, Goes, P, n

\* The lists there are.
LEMMA ListsPass ==
    ASSUME NEW a \in SUBSET SchemaParts
    PROVE  /\ Passes(<<>>, a, a)
           /\ \A s, b : AllKnown(<<s>>) /\ Goes(s, a, b) => Passes(<<s>>, a, b)
           /\ \A s, t, b, c :
                 AllKnown(<<s, t>>) /\ Goes(s, a, b) /\ Goes(t, b, c) => Passes(<<s, t>>, a, c)
           /\ \A s, t, u, b, c, d :
                 AllKnown(<<s, t, u>>) /\ Goes(s, a, b) /\ Goes(t, b, c) /\ Goes(u, c, d) =>
                    Passes(<<s, t, u>>, a, d)
           /\ \A s, t, u, v, b, c, d, e :
                 /\ AllKnown(<<s, t, u, v>>)
                 /\ Goes(s, a, b) /\ Goes(t, b, c) /\ Goes(u, c, d) /\ Goes(v, d, e)
                 => Passes(<<s, t, u, v>>, a, e)
           /\ \A s, t, u, v, w, b, c, d, e, f :
                 /\ AllKnown(<<s, t, u, v, w>>)
                 /\ Goes(s, a, b) /\ Goes(t, b, c) /\ Goes(u, c, d) /\ Goes(v, d, e)
                 /\ Goes(w, e, f)
                 => Passes(<<s, t, u, v, w>>, a, f)
           /\ \A s, t, u, v, w, x, b, c, d, e, f, g :
                 /\ AllKnown(<<s, t, u, v, w, x>>)
                 /\ Goes(s, a, b) /\ Goes(t, b, c) /\ Goes(u, c, d) /\ Goes(v, d, e)
                 /\ Goes(w, e, f) /\ Goes(x, f, g)
                 => Passes(<<s, t, u, v, w, x>>, a, g)
<1>0. Passes(<<>>, a, a)
  BY WaysKnown, PathIs DEF Passes
<1> HIDE DEF Passes
<1>1. ASSUME NEW s, NEW b, AllKnown(<<s>>), Goes(s, a, b)
      PROVE  Passes(<<s>>, a, b)
  <2> DEFINE ss == <<s>> ff == <<a, b>>
  <2>1. Len(ss) = 1 /\ ff[1] = a /\ ff[Len(ss) + 1] = b
    OBVIOUS
  <2>2. \A i \in 1..Len(ss) : Goes(ss[i], ff[i], ff[i + 1])
    BY <1>1
  <2> HIDE DEF ss, ff
  <2> QED BY <1>1, <2>1, <2>2, ChainPasses DEF ss
<1>2. ASSUME NEW s, NEW t,
             NEW b, NEW c,
             AllKnown(<<s, t>>),
             Goes(s, a, b), Goes(t, b, c)
      PROVE  Passes(<<s, t>>, a, c)
  <2> DEFINE ss == <<s, t>> ff == <<a, b, c>>
  <2>1. Len(ss) = 2 /\ ff[1] = a /\ ff[Len(ss) + 1] = c
    OBVIOUS
  <2>2. \A i \in 1..Len(ss) : Goes(ss[i], ff[i], ff[i + 1])
    BY <1>2
  <2> HIDE DEF ss, ff
  <2> QED BY <1>2, <2>1, <2>2, ChainPasses DEF ss
<1>3. ASSUME NEW s, NEW t, NEW u,
             NEW b, NEW c, NEW d,
             AllKnown(<<s, t, u>>),
             Goes(s, a, b), Goes(t, b, c), Goes(u, c, d)
      PROVE  Passes(<<s, t, u>>, a, d)
  <2> DEFINE ss == <<s, t, u>> ff == <<a, b, c, d>>
  <2>1. Len(ss) = 3 /\ ff[1] = a /\ ff[Len(ss) + 1] = d
    OBVIOUS
  <2>2. \A i \in 1..Len(ss) : Goes(ss[i], ff[i], ff[i + 1])
    BY <1>3
  <2> HIDE DEF ss, ff
  <2> QED BY <1>3, <2>1, <2>2, ChainPasses DEF ss
<1>4. ASSUME NEW s, NEW t, NEW u, NEW v,
             NEW b, NEW c, NEW d, NEW e,
             AllKnown(<<s, t, u, v>>),
             Goes(s, a, b), Goes(t, b, c), Goes(u, c, d), Goes(v, d, e)
      PROVE  Passes(<<s, t, u, v>>, a, e)
  <2> DEFINE ss == <<s, t, u, v>> ff == <<a, b, c, d, e>>
  <2>1. Len(ss) = 4 /\ ff[1] = a /\ ff[Len(ss) + 1] = e
    OBVIOUS
  <2>2. \A i \in 1..Len(ss) : Goes(ss[i], ff[i], ff[i + 1])
    BY <1>4
  <2> HIDE DEF ss, ff
  <2> QED BY <1>4, <2>1, <2>2, ChainPasses DEF ss
<1>5. ASSUME NEW s, NEW t, NEW u, NEW v, NEW w,
             NEW b, NEW c, NEW d, NEW e, NEW f,
             AllKnown(<<s, t, u, v, w>>),
             Goes(s, a, b), Goes(t, b, c), Goes(u, c, d), Goes(v, d, e),
             Goes(w, e, f)
      PROVE  Passes(<<s, t, u, v, w>>, a, f)
  <2> DEFINE ss == <<s, t, u, v, w>> ff == <<a, b, c, d, e, f>>
  <2>1. Len(ss) = 5 /\ ff[1] = a /\ ff[Len(ss) + 1] = f
    OBVIOUS
  <2>2. \A i \in 1..Len(ss) : Goes(ss[i], ff[i], ff[i + 1])
    BY <1>5
  <2> HIDE DEF ss, ff
  <2> QED BY <1>5, <2>1, <2>2, ChainPasses DEF ss
<1>6. ASSUME NEW s, NEW t, NEW u, NEW v, NEW w, NEW x,
             NEW b, NEW c, NEW d, NEW e, NEW f, NEW g,
             AllKnown(<<s, t, u, v, w, x>>),
             Goes(s, a, b), Goes(t, b, c), Goes(u, c, d), Goes(v, d, e),
             Goes(w, e, f), Goes(x, f, g)
      PROVE  Passes(<<s, t, u, v, w, x>>, a, g)
  <2> DEFINE ss == <<s, t, u, v, w, x>> ff == <<a, b, c, d, e, f, g>>
  <2>1. Len(ss) = 6 /\ ff[1] = a /\ ff[Len(ss) + 1] = g
    OBVIOUS
  <2>2. \A i \in 1..Len(ss) : Goes(ss[i], ff[i], ff[i + 1])
    BY <1>6
  <2> HIDE DEF ss, ff
  <2> QED BY <1>6, <2>1, <2>2, ChainPasses DEF ss
<1> QED BY <1>0, <1>1, <1>2, <1>3, <1>4, <1>5, <1>6

-----------------------------------------------------------------------------
(* What the statements do, and those that take it back. *)

\* The statement s makes b of a, and d makes a of b again.
Undoes(s, d, a, b) == Goes(s, a, b) /\ Goes(d, b, a)

\* A table that is created and dropped.
LEMMA CreateDrop ==
    ASSUME NEW t, NEW names \in SUBSET Parts, NEW a, \A n : <<t, n>> \notin a
    PROVE  Undoes(CreateTable(t, names), DropTable(t), a, a \cup Of(t, {""} \cup names))
<1> DEFINE s == CreateTable(t, names) d == DropTable(t) b == a \cup Of(t, {""} \cup names)
<1>1. /\ s.needs = {} /\ s.free = {<<t, "">>} /\ s.minus = {} /\ s.unnamed = <<>>
      /\ s.plus = Of(t, {""} \cup names)
  BY DEF CreateTable, Statement
<1>2. /\ d.needs = {<<t, "">>} /\ d.free = {} /\ d.plus = {} /\ d.unnamed = <<>>
      /\ d.minus = Of(t, Parts)
  BY DEF DropTable, Statement
<1>3. {""} \cup names \subseteq Parts
  BY DEF Parts
<1>4. b \ Of(t, Parts) = a /\ <<t, "">> \in b
  BY <1>3 DEF Of
<1> HIDE DEF s, d
<1>5. Goes(s, a, b)
  BY <1>1, FirstFreeKeys DEF Goes, Runs, After
<1>6. Goes(d, b, a)
  BY <1>2, <1>4, FirstFreeKeys DEF Goes, Runs, After
<1> QED BY <1>5, <1>6 DEF Undoes, s, d

\* A part that is added to a table on others, and dropped with an index on it.
LEMMA AddOnDropWith ==
    ASSUME NEW t, NEW name, NEW on, NEW index, NEW a,
           Of(t, {""} \cup on) \subseteq a, <<t, name>> \notin a, Of(t, index) \cap a = {}
    PROVE  Undoes(AddOn(t, name, on), DropWith(t, name, index), a, a \cup {<<t, name>>})
<1> DEFINE s == AddOn(t, name, on) d == DropWith(t, name, index) b == a \cup {<<t, name>>}
<1>1. /\ s.needs = Of(t, {""} \cup on) /\ s.free = {<<t, name>>} /\ s.minus = {} /\ s.unnamed = <<>>
      /\ s.plus = {<<t, name>>}
  BY DEF AddOn, Statement
<1>2. /\ d.needs = {<<t, name>>} /\ d.free = {} /\ d.plus = {} /\ d.unnamed = <<>>
      /\ d.minus = Of(t, {name} \cup index)
  BY DEF DropWith, Statement
<1>3. b \ Of(t, {name} \cup index) = a
  BY DEF Of
<1> HIDE DEF s, d
<1>5. Goes(s, a, b)
  BY <1>1, FirstFreeKeys DEF Goes, Runs, After
<1>6. Goes(d, b, a)
  BY <1>2, <1>3, FirstFreeKeys DEF Goes, Runs, After
<1> QED BY <1>5, <1>6 DEF Undoes, s, d

\* A column or index of its own,
LEMMA AddDrop ==
    ASSUME NEW t, NEW name, NEW a, <<t, "">> \in a, <<t, name>> \notin a
    PROVE  Undoes(Add(t, name), Drop(t, name), a, a \cup {<<t, name>>})
<1>1. Of(t, {""} \cup {}) \subseteq a /\ Of(t, {}) \cap a = {}
  BY DEF Of
<1> QED BY <1>1, AddOnDropWith DEF Add, Drop

\* an index or trigger on a column,
LEMMA AddOnDrop ==
    ASSUME NEW t, NEW name, NEW on, NEW a,
           <<t, "">> \in a, <<t, on>> \in a, <<t, name>> \notin a
    PROVE  Undoes(AddOn(t, name, {on}), Drop(t, name), a, a \cup {<<t, name>>})
<1>1. Of(t, {""} \cup {on}) \subseteq a /\ Of(t, {}) \cap a = {}
  BY DEF Of
<1> QED BY <1>1, AddOnDropWith DEF Drop

\* and a column that goes with its index.
LEMMA AddDropWith ==
    ASSUME NEW t, NEW name, NEW index, NEW a,
           <<t, "">> \in a, <<t, name>> \notin a, <<t, index>> \notin a
    PROVE  Undoes(Add(t, name), DropWith(t, name, {index}), a, a \cup {<<t, name>>})
<1>1. Of(t, {""} \cup {}) \subseteq a /\ Of(t, {index}) \cap a = {}
  BY DEF Of
<1> QED BY <1>1, AddOnDropWith DEF Add

\* A column that is given another type, and its own again.
LEMMA ModifyBack ==
    ASSUME NEW t, NEW from, NEW to, NEW keys, NEW a,
           <<t, "">> \in a, <<t, from>> \in a, <<t, to>> \notin a, Of(t, keys) \cap a = {},
           from # "", to # from
    PROVE  Undoes(Modify(t, from, to, keys), Modify(t, to, from, {}),
                  a, (a \ {<<t, from>>}) \cup {<<t, to>>})
<1> DEFINE s == Modify(t, from, to, keys) d == Modify(t, to, from, {})
           b == (a \ {<<t, from>>}) \cup {<<t, to>>}
<1>1. /\ s.needs = {<<t, "">>} /\ s.free = Of(t, keys) /\ s.minus = {<<t, from>>}
      /\ s.unnamed = <<>> /\ s.plus = {<<t, to>>}
  BY DEF Modify, Statement
<1>2. /\ d.needs = {<<t, "">>} /\ d.free = {} /\ d.plus = {<<t, from>>} /\ d.unnamed = <<>>
      /\ d.minus = {<<t, to>>}
  BY DEF Modify, Statement, Of
<1>3. (b \ {<<t, to>>}) \cup {<<t, from>>} = a /\ <<t, "">> \in b
  OBVIOUS
<1> HIDE DEF s, d
<1>5. Goes(s, a, b)
  BY <1>1, FirstFreeKeys DEF Goes, Runs, After
<1>6. Goes(d, b, a)
  BY <1>2, <1>3, FirstFreeKeys DEF Goes, Runs, After
<1> QED BY <1>5, <1>6 DEF Undoes, s, d

\* A column that is filled stays a column.
LEMMA FillGoes ==
    ASSUME NEW t, NEW column, NEW a, <<t, "">> \in a, <<t, column>> \in a
    PROVE  Goes(Fill(t, column), a, a)
<1> DEFINE s == Fill(t, column)
<1>1. /\ s.needs = {<<t, "">>, <<t, column>>} /\ s.free = {} /\ s.minus = {} /\ s.unnamed = <<>>
      /\ s.plus = {}
  BY DEF Fill, Statement, Of
<1> HIDE DEF s
<1> QED BY <1>1, FirstFreeKeys DEF Goes, Runs, After, s

\* The unique key takes its own name on a schema that has none.
LEMMA UniqueGoes ==
    ASSUME NEW a, <<"users", "friendlyName varchar">> \in a, FriendlyName \notin a
    PROVE  Goes(AddUniqueFriendlyName, a, a \cup {FriendlyName})
<1> DEFINE s == AddUniqueFriendlyName
<1>1. /\ s.needs = {<<"users", "friendlyName varchar">>} /\ s.free = {} /\ s.minus = {}
      /\ s.plus = {} /\ s.unnamed = FriendlyNameKeys
  BY DEF AddUniqueFriendlyName, Statement
<1>2. 1 \in DOMAIN FriendlyNameKeys /\ <<"users", FriendlyNameKeys[1]>> = FriendlyName
  BY KeyNames
<1> HIDE DEF s
<1>4. Runs(s, a)
  BY <1>1, <1>2 DEF Runs
<1>5. After(s, a) = a \cup {FriendlyName}
  BY <1>1, FirstFreeKeys DEF After
<1> QED BY <1>4, <1>5 DEF Goes, s

-----------------------------------------------------------------------------
(* The sixteen scripts. *)

\* The schema of each release: what its script says, added to the release before
\* (the third makes the id of a subscription count itself, the eleventh makes the
\* name of a user a unique varchar, and the fifteenth takes that back).
Release1 == {<<"database", "utf8">>}
Release2 == Release1 \cup Of("users", {"", "friendlyName text"}) \cup Of("googleProfiles", {""})
                     \cup Of("subscriptions", {"", "id"})
Release3 == (Release2 \ {<<"subscriptions", "id">>})
               \cup {<<"subscriptions", "userId">>, <<"subscriptions", "id auto_increment">>}
Release4 == Release3 \cup Of("users", {"dateCreated", "dateModified"})
                     \cup Of("googleProfiles", {"dateCreated", "dateModified"})
                     \cup Of("subscriptions", {"dateCreated", "dateModified"})
Release5 == Release4 \cup Of("feedPosts", {"", "idx postUrlHash", "idx rssUrlHash"})
Release6 == Release5 \cup Of("userPostsRead", {"", "idx userId_urlHash"})
Release7 == Release6 \cup Of("feedPosts", {"dateCreated"}) \cup Of("userPostsRead", {"dateCreated"})
Release8 == Release7 \cup Of("rssUrlStatus", {""})
Release9 == Release8 \cup Of("subscriptions", {"rssUrlHash", "idx rssUrlHash", "trigger update",
                                               "trigger insert"})
Release10 == Release9 \cup Of("userPasswords", {""})
Release11 == (Release10 \ {<<"users", "friendlyName text">>})
                \cup {<<"users", "friendlyName varchar">>, FriendlyName}
Release12 == Release11 \cup Of("passwordResets", {"", "dateCreated"})
Release13 == Release12 \cup Of("userPasswords", {"username"})
Release14 == Release13 \cup Of("userPasswords", {"idx username"})
Release15 == (Release14 \ {<<"users", "friendlyName varchar">>, FriendlyName})
                \cup {<<"users", "friendlyName text">>}
Release16 == Release15 \cup Of("feedPosts", {"idx postDate"})

\* A script that makes b of a on its way up, and a of b on its way down.
Fits(script, a, b) == Passes(script.up, a, b) /\ Passes(script.down, b, a)

\* The second script creates its tables and drops them again.
LEMMA RssFeedFits ==
    Release1 \in SUBSET SchemaParts => Fits(RssFeed, Release1, Release2)
<1> DEFINE b == Release1 \cup Of("users", {""} \cup {"friendlyName text"})
           c == b \cup Of("googleProfiles", {""} \cup {})
<1>1. Undoes(CreateTable("users", {"friendlyName text"}), DropTable("users"), Release1, b)
  <2>1. {"friendlyName text"} \in SUBSET Parts /\ \A n : <<"users", n>> \notin Release1
    BY DEF Release1, Of, Parts
  <2> QED BY <2>1, CreateDrop
<1>2. Undoes(CreateTable("googleProfiles", {}), DropTable("googleProfiles"), b, c)
  <2>1. {} \in SUBSET Parts /\ \A n : <<"googleProfiles", n>> \notin b
    BY DEF Release1, Of
  <2> QED BY <2>1, CreateDrop
<1>3. Undoes(CreateTable("subscriptions", {"id"}), DropTable("subscriptions"), c, Release2)
  <2>1. {"id"} \in SUBSET Parts /\ \A n : <<"subscriptions", n>> \notin c
    BY DEF Release1, Of, Parts
  <2>2. c \cup Of("subscriptions", {""} \cup {"id"}) = Release2
    BY DEF Release2, Of
  <2> QED BY <2>1, <2>2, CreateDrop
<1> DEFINE up == <<CreateTable("users", {"friendlyName text"}),
                    CreateTable("googleProfiles", {}),
                    CreateTable("subscriptions", {"id"})>>
           down == <<DropTable("subscriptions"),
                      DropTable("googleProfiles"),
                      DropTable("users")>>
<1>4. RssFeed.up = up /\ RssFeed.down = down
  BY DEF RssFeed, Script
<1>5. AllKnown(up) /\ AllKnown(down)
  BY <1>4, TablesKnown, ChangesKnown DEF KnownScript
<1> HIDE DEF b, c
<1>6. Release1 \in SUBSET SchemaParts => Passes(up, Release1, Release2)
  BY <1>1, <1>2, <1>3, <1>5, ListsPass, Zenon DEF Undoes
<1>7. Release2 \in SUBSET SchemaParts => Passes(down, Release2, Release1)
  BY <1>1, <1>2, <1>3, <1>5, ListsPass, Zenon DEF Undoes
<1> HIDE DEF up, down
<1> QED BY <1>4, <1>6, <1>7 DEF Fits, Passes

\* The third adds a column and makes another count itself, and takes both back.
LEMMA ExtendSubscriptionsFits ==
    Release2 \in SUBSET SchemaParts => Fits(ExtendSubscriptions, Release2, Release3)
<1> DEFINE b == Release2 \cup {<<"subscriptions", "userId">>}
<1>1. Undoes(Add("subscriptions", "userId"), Drop("subscriptions", "userId"), Release2, b)
  <2>1. /\ <<"subscriptions", "">> \in Release2 /\ <<"subscriptions", "userId">> \notin Release2
    BY DEF Release1, Release2, Of
  <2> QED BY <2>1, AddDrop
<1>2. Undoes(Modify("subscriptions", "id", "id auto_increment", {}),
             Modify("subscriptions", "id auto_increment", "id", {}), b, Release3)
  <2>1. /\ <<"subscriptions", "">> \in b /\ <<"subscriptions", "id">> \in b
        /\ <<"subscriptions", "id auto_increment">> \notin b
        /\ Of("subscriptions", {}) \cap b = {}
    BY DEF Release1, Release2, Of
  <2>2. (b \ {<<"subscriptions", "id">>}) \cup {<<"subscriptions", "id auto_increment">>} = Release3
    <3>1. \A u, v, w : u # v =>
             ((Release2 \cup {u}) \ {v}) \cup {w} = (Release2 \ {v}) \cup {u, w}
      OBVIOUS
    <3>2. <<"subscriptions", "userId">> # <<"subscriptions", "id">>
      OBVIOUS
    <3> QED BY <3>1, <3>2, Zenon DEF Release3
  <2> QED BY <2>1, <2>2, ModifyBack
<1> DEFINE up == <<Add("subscriptions", "userId"),
                    Modify("subscriptions", "id", "id auto_increment", {})>>
           down == <<Modify("subscriptions", "id auto_increment", "id", {}),
                      Drop("subscriptions", "userId")>>
<1>3. ExtendSubscriptions.up = up /\ ExtendSubscriptions.down = down
  BY DEF ExtendSubscriptions, Script
<1>4. AllKnown(up) /\ AllKnown(down)
  BY <1>3, TablesKnown, ChangesKnown DEF KnownScript
<1> HIDE DEF b
<1>5. Release2 \in SUBSET SchemaParts => Passes(up, Release2, Release3)
  BY <1>1, <1>2, <1>4, ListsPass, Zenon DEF Undoes
<1>6. Release3 \in SUBSET SchemaParts => Passes(down, Release3, Release2)
  BY <1>1, <1>2, <1>4, ListsPass, Zenon DEF Undoes
<1> HIDE DEF up, down
<1> QED BY <1>3, <1>5, <1>6 DEF Fits, Passes

\* The fourth adds six columns and drops them again.
LEMMA TimestampsFits ==
    Release3 \in SUBSET SchemaParts => Fits(Timestamps, Release3, Release4)
<1> DEFINE b == Release3 \cup {<<"users", "dateCreated">>}
           c == b \cup {<<"users", "dateModified">>}
           d == c \cup {<<"googleProfiles", "dateCreated">>}
           e == d \cup {<<"googleProfiles", "dateModified">>}
           f == e \cup {<<"subscriptions", "dateCreated">>}
<1>1. Undoes(Add("users", "dateCreated"), Drop("users", "dateCreated"), Release3, b)
  <2>1. /\ <<"users", "">> \in Release3 /\ <<"users", "dateCreated">> \notin Release3
    BY DEF Release1, Release2, Release3, Of
  <2> QED BY <2>1, AddDrop
<1>2. Undoes(Add("users", "dateModified"), Drop("users", "dateModified"), b, c)
  <2>1. /\ <<"users", "">> \in b /\ <<"users", "dateModified">> \notin b
    BY DEF Release1, Release2, Release3, Of
  <2> QED BY <2>1, AddDrop
<1>3. Undoes(Add("googleProfiles", "dateCreated"), Drop("googleProfiles", "dateCreated"), c, d)
  <2>1. /\ <<"googleProfiles", "">> \in c /\ <<"googleProfiles", "dateCreated">> \notin c
    BY DEF Release1, Release2, Release3, Of
  <2> QED BY <2>1, AddDrop
<1>4. Undoes(Add("googleProfiles", "dateModified"),
             Drop("googleProfiles", "dateModified"), d, e)
  <2>1. /\ <<"googleProfiles", "">> \in d /\ <<"googleProfiles", "dateModified">> \notin d
    BY DEF Release1, Release2, Release3, Of
  <2> QED BY <2>1, AddDrop
<1>5. Undoes(Add("subscriptions", "dateCreated"), Drop("subscriptions", "dateCreated"), e, f)
  <2>1. /\ <<"subscriptions", "">> \in e /\ <<"subscriptions", "dateCreated">> \notin e
    BY DEF Release1, Release2, Release3, Of
  <2> QED BY <2>1, AddDrop
<1>6. Undoes(Add("subscriptions", "dateModified"),
             Drop("subscriptions", "dateModified"), f, Release4)
  <2>1. /\ <<"subscriptions", "">> \in f /\ <<"subscriptions", "dateModified">> \notin f
    BY DEF Release1, Release2, Release3, Of
  <2>2. f \cup {<<"subscriptions", "dateModified">>} = Release4
    BY DEF Release4, Of
  <2> QED BY <2>1, <2>2, AddDrop
<1> DEFINE up == <<Add("users", "dateCreated"),
                    Add("users", "dateModified"),
                    Add("googleProfiles", "dateCreated"),
                    Add("googleProfiles", "dateModified"),
                    Add("subscriptions", "dateCreated"),
                    Add("subscriptions", "dateModified")>>
           down == <<Drop("subscriptions", "dateModified"),
                      Drop("subscriptions", "dateCreated"),
                      Drop("googleProfiles", "dateModified"),
                      Drop("googleProfiles", "dateCreated"),
                      Drop("users", "dateModified"),
                      Drop("users", "dateCreated")>>
<1>7. Timestamps.up = up /\ Timestamps.down = down
  BY DEF Timestamps, Script
<1>8. AllKnown(up) /\ AllKnown(down)
  BY <1>7, TablesKnown, ChangesKnown DEF KnownScript
<1> HIDE DEF b, c, d, e, f
<1>9. Release3 \in SUBSET SchemaParts => Passes(up, Release3, Release4)
  BY <1>1, <1>2, <1>3, <1>4, <1>5, <1>6, <1>8, ListsPass, Zenon DEF Undoes
<1>10. Release4 \in SUBSET SchemaParts => Passes(down, Release4, Release3)
  BY <1>1, <1>2, <1>3, <1>4, <1>5, <1>6, <1>8, ListsPass, Zenon DEF Undoes
<1> HIDE DEF up, down
<1> QED BY <1>7, <1>9, <1>10 DEF Fits, Passes

\* The fifth creates a table with two indexes.
LEMMA StoresFeedPostsFits ==
    Release4 \in SUBSET SchemaParts => Fits(StoresFeedPosts, Release4, Release5)
<1> DEFINE b == Release4 \cup Of("feedPosts", {""} \cup {})
           c == b \cup {<<"feedPosts", "idx postUrlHash">>}
<1>1. Undoes(CreateTable("feedPosts", {}), DropTable("feedPosts"), Release4, b)
  <2>1. {} \in SUBSET Parts /\ \A n : <<"feedPosts", n>> \notin Release4
    BY DEF Release1, Release2, Release3, Release4, Of
  <2> QED BY <2>1, CreateDrop
<1>2. Undoes(Add("feedPosts", "idx postUrlHash"), Drop("feedPosts", "idx postUrlHash"), b, c)
  <2>1. /\ <<"feedPosts", "">> \in b /\ <<"feedPosts", "idx postUrlHash">> \notin b
    BY DEF Release1, Release2, Release3, Release4, Of
  <2> QED BY <2>1, AddDrop
<1>3. Undoes(Add("feedPosts", "idx rssUrlHash"),
             Drop("feedPosts", "idx rssUrlHash"), c, Release5)
  <2>1. /\ <<"feedPosts", "">> \in c /\ <<"feedPosts", "idx rssUrlHash">> \notin c
    BY DEF Release1, Release2, Release3, Release4, Of
  <2>2. c \cup {<<"feedPosts", "idx rssUrlHash">>} = Release5
    BY DEF Release5, Of
  <2> QED BY <2>1, <2>2, AddDrop
<1> DEFINE up == <<CreateTable("feedPosts", {}),
                    Add("feedPosts", "idx postUrlHash"),
                    Add("feedPosts", "idx rssUrlHash")>>
           down == <<Drop("feedPosts", "idx rssUrlHash"),
                      Drop("feedPosts", "idx postUrlHash"),
                      DropTable("feedPosts")>>
<1>4. StoresFeedPosts.up = up /\ StoresFeedPosts.down = down
  BY DEF StoresFeedPosts, Script
<1>5. AllKnown(up) /\ AllKnown(down)
  BY <1>4, TablesKnown, ChangesKnown DEF KnownScript
<1> HIDE DEF b, c
<1>6. Release4 \in SUBSET SchemaParts => Passes(up, Release4, Release5)
  BY <1>1, <1>2, <1>3, <1>5, ListsPass, Zenon DEF Undoes
<1>7. Release5 \in SUBSET SchemaParts => Passes(down, Release5, Release4)
  BY <1>1, <1>2, <1>3, <1>5, ListsPass, Zenon DEF Undoes
<1> HIDE DEF up, down
<1> QED BY <1>4, <1>6, <1>7 DEF Fits, Passes

\* The sixth creates a table with an index.
LEMMA TableUserPostsReadFits ==
    Release5 \in SUBSET SchemaParts => Fits(TableUserPostsRead, Release5, Release6)
<1> DEFINE b == Release5 \cup Of("userPostsRead", {""} \cup {})
<1>1. Undoes(CreateTable("userPostsRead", {}), DropTable("userPostsRead"), Release5, b)
  <2>1. {} \in SUBSET Parts /\ \A n : <<"userPostsRead", n>> \notin Release5
    BY DEF Release1, Release2, Release3, Release4, Release5, Of
  <2> QED BY <2>1, CreateDrop
<1>2. Undoes(Add("userPostsRead", "idx userId_urlHash"),
             Drop("userPostsRead", "idx userId_urlHash"), b, Release6)
  <2>1. /\ <<"userPostsRead", "">> \in b /\ <<"userPostsRead", "idx userId_urlHash">> \notin b
    BY DEF Release1, Release2, Release3, Release4, Release5, Of
  <2>2. b \cup {<<"userPostsRead", "idx userId_urlHash">>} = Release6
    BY DEF Release6, Of
  <2> QED BY <2>1, <2>2, AddDrop
<1> DEFINE up == <<CreateTable("userPostsRead", {}),
                    Add("userPostsRead", "idx userId_urlHash")>>
           down == <<Drop("userPostsRead", "idx userId_urlHash"),
                      DropTable("userPostsRead")>>
<1>3. TableUserPostsRead.up = up /\ TableUserPostsRead.down = down
  BY DEF TableUserPostsRead, Script
<1>4. AllKnown(up) /\ AllKnown(down)
  BY <1>3, TablesKnown, ChangesKnown DEF KnownScript
<1> HIDE DEF b
<1>5. Release5 \in SUBSET SchemaParts => Passes(up, Release5, Release6)
  BY <1>1, <1>2, <1>4, ListsPass, Zenon DEF Undoes
<1>6. Release6 \in SUBSET SchemaParts => Passes(down, Release6, Release5)
  BY <1>1, <1>2, <1>4, ListsPass, Zenon DEF Undoes
<1> HIDE DEF up, down
<1> QED BY <1>3, <1>5, <1>6 DEF Fits, Passes

\* The seventh adds a column to each of these.
LEMMA MoarTimestampsFits ==
    Release6 \in SUBSET SchemaParts => Fits(MoarTimestamps, Release6, Release7)
<1> DEFINE b == Release6 \cup {<<"feedPosts", "dateCreated">>}
<1>1. Undoes(Add("feedPosts", "dateCreated"), Drop("feedPosts", "dateCreated"), Release6, b)
  <2>1. /\ <<"feedPosts", "">> \in Release6 /\ <<"feedPosts", "dateCreated">> \notin Release6
    BY DEF Release1, Release2, Release3, Release4, Release5, Release6, Of
  <2> QED BY <2>1, AddDrop
<1>2. Undoes(Add("userPostsRead", "dateCreated"),
             Drop("userPostsRead", "dateCreated"), b, Release7)
  <2>1. /\ <<"userPostsRead", "">> \in b /\ <<"userPostsRead", "dateCreated">> \notin b
    BY DEF Release1, Release2, Release3, Release4, Release5, Release6, Of
  <2>2. b \cup {<<"userPostsRead", "dateCreated">>} = Release7
    BY DEF Release7, Of
  <2> QED BY <2>1, <2>2, AddDrop
<1> DEFINE up == <<Add("feedPosts", "dateCreated"),
                    Add("userPostsRead", "dateCreated")>>
           down == <<Drop("userPostsRead", "dateCreated"),
                      Drop("feedPosts", "dateCreated")>>
<1>3. MoarTimestamps.up = up /\ MoarTimestamps.down = down
  BY DEF MoarTimestamps, Script
<1>4. AllKnown(up) /\ AllKnown(down)
  BY <1>3, TablesKnown, ChangesKnown DEF KnownScript
<1> HIDE DEF b
<1>5. Release6 \in SUBSET SchemaParts => Passes(up, Release6, Release7)
  BY <1>1, <1>2, <1>4, ListsPass, Zenon DEF Undoes
<1>6. Release7 \in SUBSET SchemaParts => Passes(down, Release7, Release6)
  BY <1>1, <1>2, <1>4, ListsPass, Zenon DEF Undoes
<1> HIDE DEF up, down
<1> QED BY <1>3, <1>5, <1>6 DEF Fits, Passes

\* The eighth creates a table.
LEMMA CanTrackRssUrlStatusFits ==
    Release7 \in SUBSET SchemaParts => Fits(CanTrackRssUrlStatus, Release7, Release8)
<1>1. Undoes(CreateTable("rssUrlStatus", {}), DropTable("rssUrlStatus"), Release7, Release8)
  <2>1. {} \in SUBSET Parts /\ \A n : <<"rssUrlStatus", n>> \notin Release7
    BY DEF Release1, Release2, Release3, Release4, Release5, Release6, Release7, Of
  <2>2. Release7 \cup Of("rssUrlStatus", {""} \cup {}) = Release8
    BY DEF Release8, Of
  <2> QED BY <2>1, <2>2, CreateDrop
<1> DEFINE up == <<CreateTable("rssUrlStatus", {})>>
           down == <<DropTable("rssUrlStatus")>>
<1>2. CanTrackRssUrlStatus.up = up /\ CanTrackRssUrlStatus.down = down
  BY DEF CanTrackRssUrlStatus, Script
<1>3. AllKnown(up) /\ AllKnown(down)
  BY <1>2, TablesKnown, ChangesKnown DEF KnownScript
<1>4. Release7 \in SUBSET SchemaParts => Passes(up, Release7, Release8)
  BY <1>1, <1>3, ListsPass, Zenon DEF Undoes
<1>5. Release8 \in SUBSET SchemaParts => Passes(down, Release8, Release7)
  BY <1>1, <1>3, ListsPass, Zenon DEF Undoes
<1> HIDE DEF up, down
<1> QED BY <1>2, <1>4, <1>5 DEF Fits, Passes

\* The ninth adds a column with an index and two triggers, and fills it.
LEMMA SubscriptionsRssUrlHashFits ==
    Release8 \in SUBSET SchemaParts => Fits(SubscriptionsRssUrlHash, Release8, Release9)
<1> DEFINE b == Release8 \cup {<<"subscriptions", "rssUrlHash">>}
           c == b \cup {<<"subscriptions", "idx rssUrlHash">>}
           d == c \cup {<<"subscriptions", "trigger update">>}
<1>1. Undoes(Add("subscriptions", "rssUrlHash"),
             DropWith("subscriptions", "rssUrlHash", {"idx rssUrlHash"}), Release8, b)
  <2>1. /\ <<"subscriptions", "">> \in Release8 /\ <<"subscriptions", "rssUrlHash">> \notin Release8
        /\ <<"subscriptions", "idx rssUrlHash">> \notin Release8
    BY DEF Release1, Release2, Release3, Release4, Release5, Release6, Release7, Release8, Of
  <2> QED BY <2>1, AddDropWith
<1>2. Undoes(AddOn("subscriptions", "idx rssUrlHash", {"rssUrlHash"}),
             Drop("subscriptions", "idx rssUrlHash"), b, c)
  <2>1. /\ <<"subscriptions", "">> \in b /\ <<"subscriptions", "idx rssUrlHash">> \notin b
        /\ <<"subscriptions", "rssUrlHash">> \in b
    BY DEF Release1, Release2, Release3, Release4, Release5, Release6, Release7, Release8, Of
  <2> QED BY <2>1, AddOnDrop
<1>3. Undoes(AddOn("subscriptions", "trigger update", {"rssUrlHash"}),
             Drop("subscriptions", "trigger update"), c, d)
  <2>1. /\ <<"subscriptions", "">> \in c /\ <<"subscriptions", "trigger update">> \notin c
        /\ <<"subscriptions", "rssUrlHash">> \in c
    BY DEF Release1, Release2, Release3, Release4, Release5, Release6, Release7, Release8, Of
  <2> QED BY <2>1, AddOnDrop
<1>4. Undoes(AddOn("subscriptions", "trigger insert", {"rssUrlHash"}),
             Drop("subscriptions", "trigger insert"), d, Release9)
  <2>1. /\ <<"subscriptions", "">> \in d /\ <<"subscriptions", "trigger insert">> \notin d
        /\ <<"subscriptions", "rssUrlHash">> \in d
    BY DEF Release1, Release2, Release3, Release4, Release5, Release6, Release7, Release8, Of
  <2>2. d \cup {<<"subscriptions", "trigger insert">>} = Release9
    BY DEF Release9, Of
  <2> QED BY <2>1, <2>2, AddOnDrop
<1>5. Goes(Fill("subscriptions", "rssUrlHash"), Release9, Release9)
  <2>1. <<"subscriptions", "">> \in Release9 /\ <<"subscriptions", "rssUrlHash">> \in Release9
    BY
      DEF Release1, Release2, Release3, Release4, Release5, Release6, Release7, Release8,
          Release9, Of
  <2> QED BY <2>1, FillGoes
<1> DEFINE up == <<Add("subscriptions", "rssUrlHash"),
                    AddOn("subscriptions", "idx rssUrlHash", {"rssUrlHash"}),
                    AddOn("subscriptions", "trigger update", {"rssUrlHash"}),
                    AddOn("subscriptions", "trigger insert", {"rssUrlHash"}),
                    Fill("subscriptions", "rssUrlHash")>>
           down == <<Drop("subscriptions", "trigger insert"),
                      Drop("subscriptions", "trigger update"),
                      Drop("subscriptions", "idx rssUrlHash"),
                      DropWith("subscriptions", "rssUrlHash", {"idx rssUrlHash"})>>
<1>6. SubscriptionsRssUrlHash.up = up /\ SubscriptionsRssUrlHash.down = down
  BY DEF SubscriptionsRssUrlHash, Script
<1>7. AllKnown(up) /\ AllKnown(down)
  BY <1>6, TablesKnown, ChangesKnown DEF KnownScript
<1> HIDE DEF b, c, d
<1>8. Release8 \in SUBSET SchemaParts => Passes(up, Release8, Release9)
  BY <1>1, <1>2, <1>3, <1>4, <1>5, <1>7, ListsPass, Zenon DEF Undoes
<1>9. Release9 \in SUBSET SchemaParts => Passes(down, Release9, Release8)
  BY <1>1, <1>2, <1>3, <1>4, <1>5, <1>7, ListsPass, Zenon DEF Undoes
<1> HIDE DEF up, down
<1> QED BY <1>6, <1>8, <1>9 DEF Fits, Passes

\* The tenth creates a table.
LEMMA UserPasswordsFits ==
    Release9 \in SUBSET SchemaParts => Fits(UserPasswords, Release9, Release10)
<1>1. Undoes(CreateTable("userPasswords", {}), DropTable("userPasswords"), Release9, Release10)
  <2>1. {} \in SUBSET Parts /\ \A n : <<"userPasswords", n>> \notin Release9
    BY
      DEF Release1, Release2, Release3, Release4, Release5, Release6, Release7, Release8,
          Release9, Of
  <2>2. Release9 \cup Of("userPasswords", {""} \cup {}) = Release10
    BY DEF Release10, Of
  <2> QED BY <2>1, <2>2, CreateDrop
<1> DEFINE up == <<CreateTable("userPasswords", {})>>
           down == <<DropTable("userPasswords")>>
<1>2. UserPasswords.up = up /\ UserPasswords.down = down
  BY DEF UserPasswords, Script
<1>3. AllKnown(up) /\ AllKnown(down)
  BY <1>2, TablesKnown, ChangesKnown DEF KnownScript
<1>4. Release9 \in SUBSET SchemaParts => Passes(up, Release9, Release10)
  BY <1>1, <1>3, ListsPass, Zenon DEF Undoes
<1>5. Release10 \in SUBSET SchemaParts => Passes(down, Release10, Release9)
  BY <1>1, <1>3, ListsPass, Zenon DEF Undoes
<1> HIDE DEF up, down
<1> QED BY <1>2, <1>4, <1>5 DEF Fits, Passes

\* The twelfth creates a table and adds a column.
LEMMA PasswordResetsTableFits ==
    Release11 \in SUBSET SchemaParts => Fits(PasswordResetsTable, Release11, Release12)
<1> DEFINE b == Release11 \cup Of("passwordResets", {""} \cup {})
<1>1. Undoes(CreateTable("passwordResets", {}), DropTable("passwordResets"), Release11, b)
  <2>1. {} \in SUBSET Parts /\ \A n : <<"passwordResets", n>> \notin Release11
    BY
      DEF Release1, Release2, Release3, Release4, Release5, Release6, Release7, Release8,
          Release9, Release10, Release11, FriendlyName, Of
  <2> QED BY <2>1, CreateDrop
<1>2. Undoes(Add("passwordResets", "dateCreated"),
             Drop("passwordResets", "dateCreated"), b, Release12)
  <2>1. /\ <<"passwordResets", "">> \in b /\ <<"passwordResets", "dateCreated">> \notin b
    BY
      DEF Release1, Release2, Release3, Release4, Release5, Release6, Release7, Release8,
          Release9, Release10, Release11, FriendlyName, Of
  <2>2. b \cup {<<"passwordResets", "dateCreated">>} = Release12
    BY DEF Release12, Of
  <2> QED BY <2>1, <2>2, AddDrop
<1> DEFINE up == <<CreateTable("passwordResets", {}),
                    Add("passwordResets", "dateCreated")>>
           down == <<Drop("passwordResets", "dateCreated"),
                      DropTable("passwordResets")>>
<1>3. PasswordResetsTable.up = up /\ PasswordResetsTable.down = down
  BY DEF PasswordResetsTable, Script
<1>4. AllKnown(up) /\ AllKnown(down)
  BY <1>3, TablesKnown, ChangesKnown DEF KnownScript
<1> HIDE DEF b
<1>5. Release11 \in SUBSET SchemaParts => Passes(up, Release11, Release12)
  BY <1>1, <1>2, <1>4, ListsPass, Zenon DEF Undoes
<1>6. Release12 \in SUBSET SchemaParts => Passes(down, Release12, Release11)
  BY <1>1, <1>2, <1>4, ListsPass, Zenon DEF Undoes
<1> HIDE DEF up, down
<1> QED BY <1>3, <1>5, <1>6 DEF Fits, Passes

\* The thirteenth adds a column and fills it.
LEMMA UsernameFixFits ==
    Release12 \in SUBSET SchemaParts => Fits(UsernameFix, Release12, Release13)
<1>1. Undoes(Add("userPasswords", "username"),
             DropWith("userPasswords", "username", {"idx username"}), Release12, Release13)
  <2>1. /\ <<"userPasswords", "">> \in Release12 /\ <<"userPasswords", "username">> \notin Release12
        /\ <<"userPasswords", "idx username">> \notin Release12
    BY
      DEF Release1, Release2, Release3, Release4, Release5, Release6, Release7, Release8,
          Release9, Release10, Release11, Release12, FriendlyName, Of
  <2>2. Release12 \cup {<<"userPasswords", "username">>} = Release13
    BY DEF Release13, Of
  <2> QED BY <2>1, <2>2, AddDropWith
<1>2. Goes(Fill("userPasswords", "username"), Release13, Release13)
  <2>1. <<"userPasswords", "">> \in Release13 /\ <<"userPasswords", "username">> \in Release13
    BY
      DEF Release1, Release2, Release3, Release4, Release5, Release6, Release7, Release8,
          Release9, Release10, Release11, Release12, Release13, FriendlyName, Of
  <2> QED BY <2>1, FillGoes
<1> DEFINE up == <<Add("userPasswords", "username"),
                    Fill("userPasswords", "username")>>
           down == <<DropWith("userPasswords", "username", {"idx username"})>>
<1>3. UsernameFix.up = up /\ UsernameFix.down = down
  BY DEF UsernameFix, Script
<1>4. AllKnown(up) /\ AllKnown(down)
  BY <1>3, TablesKnown, ChangesKnown DEF KnownScript
<1>5. Release12 \in SUBSET SchemaParts => Passes(up, Release12, Release13)
  BY <1>1, <1>2, <1>4, ListsPass, Zenon DEF Undoes
<1>6. Release13 \in SUBSET SchemaParts => Passes(down, Release13, Release12)
  BY <1>1, <1>2, <1>4, ListsPass, Zenon DEF Undoes
<1> HIDE DEF up, down
<1> QED BY <1>3, <1>5, <1>6 DEF Fits, Passes

\* The fourteenth adds an index on that.
LEMMA UsernameFixPart2Fits ==
    Release13 \in SUBSET SchemaParts => Fits(UsernameFixPart2, Release13, Release14)
<1>1. Undoes(AddOn("userPasswords", "idx username", {"username"}),
             Drop("userPasswords", "idx username"), Release13, Release14)
  <2>1. /\ <<"userPasswords", "">> \in Release13
        /\ <<"userPasswords", "idx username">> \notin Release13
        /\ <<"userPasswords", "username">> \in Release13
    BY
      DEF Release1, Release2, Release3, Release4, Release5, Release6, Release7, Release8,
          Release9, Release10, Release11, Release12, Release13, FriendlyName, Of
  <2>2. Release13 \cup {<<"userPasswords", "idx username">>} = Release14
    BY DEF Release14, Of
  <2> QED BY <2>1, <2>2, AddOnDrop
<1> DEFINE up == <<AddOn("userPasswords", "idx username", {"username"})>>
           down == <<Drop("userPasswords", "idx username")>>
<1>2. UsernameFixPart2.up = up /\ UsernameFixPart2.down = down
  BY DEF UsernameFixPart2, Script
<1>3. AllKnown(up) /\ AllKnown(down)
  BY <1>2, TablesKnown, ChangesKnown DEF KnownScript
<1>4. Release13 \in SUBSET SchemaParts => Passes(up, Release13, Release14)
  BY <1>1, <1>3, ListsPass, Zenon DEF Undoes
<1>5. Release14 \in SUBSET SchemaParts => Passes(down, Release14, Release13)
  BY <1>1, <1>3, ListsPass, Zenon DEF Undoes
<1> HIDE DEF up, down
<1> QED BY <1>2, <1>4, <1>5 DEF Fits, Passes

\* The last one adds an index.
LEMMA FeedPostsPostDateIndexFits ==
    Release15 \in SUBSET SchemaParts => Fits(FeedPostsPostDateIndex, Release15, Release16)
<1>1. Undoes(Add("feedPosts", "idx postDate"),
             Drop("feedPosts", "idx postDate"), Release15, Release16)
  <2>1. /\ <<"feedPosts", "">> \in Release15 /\ <<"feedPosts", "idx postDate">> \notin Release15
    BY
      DEF Release1, Release2, Release3, Release4, Release5, Release6, Release7, Release8,
          Release9, Release10, Release11, Release12, Release13, Release14, Release15,
          FriendlyName, Of
  <2>2. Release15 \cup {<<"feedPosts", "idx postDate">>} = Release16
    BY DEF Release16, Of
  <2> QED BY <2>1, <2>2, AddDrop
<1> DEFINE up == <<Add("feedPosts", "idx postDate")>>
           down == <<Drop("feedPosts", "idx postDate")>>
<1>2. FeedPostsPostDateIndex.up = up /\ FeedPostsPostDateIndex.down = down
  BY DEF FeedPostsPostDateIndex, Script
<1>3. AllKnown(up) /\ AllKnown(down)
  BY <1>2, TablesKnown, ChangesKnown DEF KnownScript
<1>4. Release15 \in SUBSET SchemaParts => Passes(up, Release15, Release16)
  BY <1>1, <1>3, ListsPass, Zenon DEF Undoes
<1>5. Release16 \in SUBSET SchemaParts => Passes(down, Release16, Release15)
  BY <1>1, <1>3, ListsPass, Zenon DEF Undoes
<1> HIDE DEF up, down
<1> QED BY <1>2, <1>4, <1>5 DEF Fits, Passes

\* The first script sets the collation, again if it must, and does not take it back.
LEMMA CollationFits ==
    /\ Release1 \in SUBSET SchemaParts
    /\ \A a \in {{}, Release1} : Passes(Collation.up, a, Release1)
    /\ Passes(Collation.down, Release1, Release1)
<1> DEFINE s == Statement({}, {}, {}, Release1)
<1>1. /\ s.needs = {} /\ s.free = {} /\ s.minus = {} /\ s.unnamed = <<>>
      /\ s.plus = Release1
  BY DEF Statement
<1>2. Collation.up = <<s>> /\ Collation.down = <<>>
  BY DEF Collation, Script, Release1
<1>3. AllKnown(<<s>>)
  BY <1>2, TablesKnown DEF KnownScript
<1> HIDE DEF s
<1>4. Release1 \in SUBSET SchemaParts
  BY <1>1, <1>3 DEF AllKnown, Known
<1>5. ASSUME NEW a \in {{}, Release1}
      PROVE  Passes(<<s>>, a, Release1)
  <2>1. Goes(s, a, Release1)
    BY <1>1, FirstFreeKeys DEF Goes, Runs, After
  <2> QED BY <1>3, <1>4, <2>1, ListsPass
<1>6. Passes(<<>>, Release1, Release1)
  BY <1>4, ListsPass
<1> QED BY <1>2, <1>4, <1>5, <1>6

\* The eleventh makes a text a varchar, and adds the unnamed key on it.
LEMMA UniqueFriendlyNameFits ==
    Release10 \in SUBSET SchemaParts => Passes(UniqueFriendlyName.up, Release10, Release11)
<1> DEFINE b == (Release10 \ {<<"users", "friendlyName text">>})
                  \cup {<<"users", "friendlyName varchar">>}
           s == Modify("users", "friendlyName text", "friendlyName varchar", {})
           t == AddUniqueFriendlyName
<1>1. Goes(s, Release10, b)
  <2>1. /\ <<"users", "">> \in Release10 /\ <<"users", "friendlyName text">> \in Release10
        /\ <<"users", "friendlyName varchar">> \notin Release10
        /\ Of("users", {}) \cap Release10 = {}
    BY
      DEF Release1, Release2, Release3, Release4, Release5, Release6, Release7, Release8,
          Release9, Release10, Of
  <2> QED BY <2>1, ModifyBack DEF Undoes
<1>2. Goes(t, b, Release11)
  <2>1. <<"users", "friendlyName varchar">> \in b /\ FriendlyName \notin b
    BY
      DEF Release1, Release2, Release3, Release4, Release5, Release6, Release7, Release8,
          Release9, Release10, Of, FriendlyName
  <2>2. b \cup {FriendlyName} = Release11
    BY DEF Release11
  <2> QED BY <2>1, <2>2, UniqueGoes
<1>3. UniqueFriendlyName.up = <<s, t>>
  BY DEF UniqueFriendlyName, Script
<1>4. AllKnown(<<s, t>>)
  BY <1>3, ChangesKnown DEF KnownScript
<1> HIDE DEF b, s, t
<1>5. Release10 \in SUBSET SchemaParts => Passes(<<s, t>>, Release10, Release11)
  BY <1>1, <1>2, <1>4, ListsPass, Zenon
<1> QED BY <1>3, <1>5

\* The fifteenth takes both back, and its way down does them again.
LEMMA UsernameFixPart3Fits ==
    Release14 \in SUBSET SchemaParts => Fits(UsernameFixPart3, Release14, Release15)
<1> DEFINE b == Release14 \ {FriendlyName}
           s == Drop("users", "friendlyName")
           t == Modify("users", "friendlyName varchar", "friendlyName text",
                       {"friendlyName", "friendlyName_2", "friendlyName_3"})
           u == Modify("users", "friendlyName text", "friendlyName varchar", {})
           v == AddUniqueFriendlyName
<1>0. FriendlyName \in Release14 /\ FriendlyName = <<"users", "friendlyName">>
  BY
    DEF Release1, Release2, Release3, Release4, Release5, Release6, Release7, Release8,
        Release9, Release10, Release11, Release12, Release13, Release14, FriendlyName, Of
<1>1. Goes(s, Release14, b)
  <2>1. <<"users", "">> \in b /\ FriendlyName \notin b
    BY
      DEF Release1, Release2, Release3, Release4, Release5, Release6, Release7, Release8,
          Release9, Release10, Release11, Release12, Release13, Release14, FriendlyName, Of
  <2>2. b \cup {FriendlyName} = Release14
    BY <1>0
  <2> HIDE DEF b
  <2>3. Undoes(Add("users", "friendlyName"), s, b, b \cup {FriendlyName})
    BY <1>0, <2>1, AddDrop
  <2> QED BY <2>2, <2>3 DEF Undoes
<1>2. Undoes(t, u, b, Release15)
  <2>1. /\ <<"users", "">> \in b /\ <<"users", "friendlyName varchar">> \in b
        /\ <<"users", "friendlyName text">> \notin b
        /\ <<"users", "friendlyName">> \notin b /\ <<"users", "friendlyName_2">> \notin b
        /\ <<"users", "friendlyName_3">> \notin b
    BY
      DEF Release1, Release2, Release3, Release4, Release5, Release6, Release7, Release8,
          Release9, Release10, Release11, Release12, Release13, Release14, FriendlyName, Of
  <2>3. Of("users", {"friendlyName", "friendlyName_2", "friendlyName_3"}) \cap b = {}
    BY <2>1 DEF Of
  <2>2. (b \ {<<"users", "friendlyName varchar">>}) \cup {<<"users", "friendlyName text">>}
           = Release15
    BY DEF Release15
  <2> HIDE DEF b
  <2> QED BY <2>1, <2>2, <2>3, ModifyBack
<1>3. Goes(v, b, Release14)
  <2>1. <<"users", "friendlyName varchar">> \in b /\ FriendlyName \notin b
    BY
      DEF Release1, Release2, Release3, Release4, Release5, Release6, Release7, Release8,
          Release9, Release10, Release11, Release12, Release13, Release14, FriendlyName, Of
  <2>2. b \cup {FriendlyName} = Release14
    BY <1>0
  <2> HIDE DEF b
  <2> QED BY <2>1, <2>2, UniqueGoes
<1>4. UsernameFixPart3.up = <<s, t>> /\ UsernameFixPart3.down = <<u, v>>
  BY DEF UsernameFixPart3, Script
<1>5. AllKnown(<<s, t>>) /\ AllKnown(<<u, v>>)
  BY <1>4, ChangesKnown DEF KnownScript
<1> HIDE DEF b, s, t, u, v
<1>6. Release14 \in SUBSET SchemaParts => Passes(<<s, t>>, Release14, Release15)
  BY <1>1, <1>2, <1>5, ListsPass, Zenon DEF Undoes
<1>7. Release15 \in SUBSET SchemaParts => Passes(<<u, v>>, Release15, Release14)
  BY <1>2, <1>3, <1>5, ListsPass, Zenon DEF Undoes
<1> QED BY <1>4, <1>6, <1>7 DEF Fits, Passes

\* What a run has made once it passes through its statements.
LEMMA PassesApplied ==
    ASSUME NEW ss, AllKnown(ss), NEW a \in SUBSET SchemaParts, NEW b, Passes(ss, a, b)
    PROVE  Applied(ss, a) = b /\ b \in SUBSET SchemaParts
BY PathIs DEF Passes

\* Such a run makes the schema of the next release.
LEMMA NextBuilt ==
    ASSUME NEW k \in 1..16, NEW a \in SUBSET SchemaParts, Built[k - 1] = a,
           NEW b, Passes(Scripts[k].up, a, b)
    PROVE  Built[k] = b /\ b \in SUBSET SchemaParts
<1>1. AllKnown(Scripts[k].up)
  BY ScriptsKnown, Sixteen DEF KnownScript
<1> QED BY <1>1, BuiltIs, PassesApplied

\* The schemas with the first migrations recorded: the first one is not undone.
Stands(k) == IF k = 0 THEN {Built[0], Built[1]} ELSE {Built[k]}

\* The schemas of the releases are those the scripts say.
ReleasesBuilt ==
    /\ Built[1] = Release1
    /\ Built[2] = Release2
    /\ Built[3] = Release3
    /\ Built[4] = Release4
    /\ Built[5] = Release5
    /\ Built[6] = Release6
    /\ Built[7] = Release7
    /\ Built[8] = Release8
    /\ Built[9] = Release9
    /\ Built[10] = Release10
    /\ Built[11] = Release11
    /\ Built[12] = Release12
    /\ Built[13] = Release13
    /\ Built[14] = Release14
    /\ Built[15] = Release15
    /\ Built[16] = Release16

\* A script that leads from the schema of the release before to that of its
\* own, and back.
FitsUp(k, b) ==
    /\ Built[k] = b /\ b \in SUBSET SchemaParts
    /\ \A c \in Stands(k - 1) : Passes(Scripts[k].up, c, Built[k])
FitsDown(k) == \E c \in Stands(k - 1) : Passes(Scripts[k].down, Built[k], c)

\* A script that fits the schema it is given, after the first one, does so.
LEMMA FitsNext ==
    ASSUME NEW k \in 2..16, NEW a, Built[k - 1] = a, a \in SUBSET SchemaParts, NEW b, NEW script,
           Scripts[k] = script, Fits(script, a, b)
    PROVE  FitsUp(k, b) /\ FitsDown(k)
<1>1. Passes(Scripts[k].up, a, b) /\ Passes(Scripts[k].down, b, a)
  BY DEF Fits
<1>2. Stands(k - 1) = {a}
  BY DEF Stands
<1>3. Built[k] = b /\ b \in SUBSET SchemaParts
  BY <1>1, NextBuilt
<1> QED BY <1>1, <1>2, <1>3 DEF FitsUp, FitsDown

\* Each script takes the schema of the release before to that of its own, and
\* back, but for the two that cannot.
LEMMA ScriptsFit ==
    /\ ReleasesBuilt
    /\ \A k \in 1..16 : \A b \in Stands(k - 1) : Passes(Scripts[k].up, b, Built[k])
    /\ \A k \in 1..16 : k # 11 => \E b \in Stands(k - 1) : Passes(Scripts[k].down, Built[k], b)
<1>1. FitsUp(1, Release1) /\ FitsDown(1)
  <2>1. Scripts[1] = Collation
    BY DEF Scripts
  <2>2. Built[1] = Release1
    <3>1. Built[1 - 1] = {} /\ {} \in SUBSET SchemaParts /\ Passes(Scripts[1].up, {}, Release1)
      BY <2>1, BuiltIs, CollationFits
    <3>2. 1 \in 1..16
      OBVIOUS
    <3> QED BY <3>1, <3>2, NextBuilt, Zenon
  <2>3. Stands(1 - 1) = {{}, Release1}
    BY <2>2, BuiltIs DEF Stands
  <2> QED BY <2>1, <2>2, <2>3, CollationFits DEF FitsUp, FitsDown
<1>2. FitsUp(2, Release2) /\ FitsDown(2)
  BY <1>1, FitsNext, RssFeedFits DEF Scripts, FitsUp
<1>3. FitsUp(3, Release3) /\ FitsDown(3)
  BY <1>2, FitsNext, ExtendSubscriptionsFits DEF Scripts, FitsUp
<1>4. FitsUp(4, Release4) /\ FitsDown(4)
  BY <1>3, FitsNext, TimestampsFits DEF Scripts, FitsUp
<1>5. FitsUp(5, Release5) /\ FitsDown(5)
  BY <1>4, FitsNext, StoresFeedPostsFits DEF Scripts, FitsUp
<1>6. FitsUp(6, Release6) /\ FitsDown(6)
  BY <1>5, FitsNext, TableUserPostsReadFits DEF Scripts, FitsUp
<1>7. FitsUp(7, Release7) /\ FitsDown(7)
  BY <1>6, FitsNext, MoarTimestampsFits DEF Scripts, FitsUp
<1>8. FitsUp(8, Release8) /\ FitsDown(8)
  BY <1>7, FitsNext, CanTrackRssUrlStatusFits DEF Scripts, FitsUp
<1>9. FitsUp(9, Release9) /\ FitsDown(9)
  BY <1>8, FitsNext, SubscriptionsRssUrlHashFits DEF Scripts, FitsUp
<1>10. FitsUp(10, Release10) /\ FitsDown(10)
  BY <1>9, FitsNext, UserPasswordsFits DEF Scripts, FitsUp
<1>11. FitsUp(11, Release11)
  <2>1. Passes(Scripts[11].up, Release10, Release11)
    BY <1>10, UniqueFriendlyNameFits DEF Scripts, FitsUp
  <2>2. Stands(11 - 1) = {Release10}
    BY <1>10 DEF Stands, FitsUp
  <2> QED BY <1>10, <2>1, <2>2, NextBuilt DEF FitsUp
<1>12. FitsUp(12, Release12) /\ FitsDown(12)
  BY <1>11, FitsNext, PasswordResetsTableFits DEF Scripts, FitsUp
<1>13. FitsUp(13, Release13) /\ FitsDown(13)
  BY <1>12, FitsNext, UsernameFixFits DEF Scripts, FitsUp
<1>14. FitsUp(14, Release14) /\ FitsDown(14)
  BY <1>13, FitsNext, UsernameFixPart2Fits DEF Scripts, FitsUp
<1>15. FitsUp(15, Release15) /\ FitsDown(15)
  BY <1>14, FitsNext, UsernameFixPart3Fits DEF Scripts, FitsUp
<1>16. FitsUp(16, Release16) /\ FitsDown(16)
  BY <1>15, FitsNext, FeedPostsPostDateIndexFits DEF Scripts, FitsUp
<1>17. \A k \in 1..16 : \E b : FitsUp(k, b)
  BY <1>1, <1>2, <1>3, <1>4, <1>5, <1>6, <1>7, <1>8, <1>9, <1>10, <1>11, <1>12, <1>13, <1>14,
     <1>15, <1>16
<1>18. \A k \in 1..16 : k # 11 => FitsDown(k)
  BY <1>1, <1>2, <1>3, <1>4, <1>5, <1>6, <1>7, <1>8, <1>9, <1>10, <1>12, <1>13, <1>14, <1>15,
     <1>16
<1>19. ReleasesBuilt
  BY <1>1, <1>2, <1>3, <1>4, <1>5, <1>6, <1>7, <1>8, <1>9, <1>10, <1>11, <1>12, <1>13, <1>14,
     <1>15, <1>16
    DEF ReleasesBuilt, FitsUp
<1> QED BY <1>17, <1>18, <1>19 DEF FitsUp, FitsDown

\* The schemas with the unique friendlyName.
LEMMA KeyOfReleases ==
    /\ \A k \in 11..15 : Built[k] \cap Copies = {}
    /\ \A k \in 11..14 : FriendlyName \in Built[k]
<1> DEFINE c == <<"users", "friendlyName_2">> d == <<"users", "friendlyName_3">>
<1>0. /\ c \notin Release10 /\ d \notin Release10
  BY
    DEF Release1, Release2, Release3, Release4, Release5, Release6, Release7, Release8,
        Release9, Release10, Of
<1>3. /\ c \notin Release11 /\ d \notin Release11 /\ FriendlyName \in Release11
  BY <1>0 DEF Release11, FriendlyName
<1>4. /\ c \notin Release12 /\ d \notin Release12 /\ FriendlyName \in Release12
  BY <1>3 DEF Release12, Of
<1>5. /\ c \notin Release13 /\ d \notin Release13 /\ FriendlyName \in Release13
  BY <1>4 DEF Release13, Of
<1>6. /\ c \notin Release14 /\ d \notin Release14 /\ FriendlyName \in Release14
  BY <1>5 DEF Release14, Of
<1>7. /\ c \notin Release15 /\ d \notin Release15
  BY <1>6 DEF Release15
<1>1. /\ Release11 \cap Copies = {} /\ FriendlyName \in Release11
      /\ Release12 \cap Copies = {} /\ FriendlyName \in Release12
      /\ Release13 \cap Copies = {} /\ FriendlyName \in Release13
      /\ Release14 \cap Copies = {} /\ FriendlyName \in Release14
      /\ Release15 \cap Copies = {}
  BY <1>3, <1>4, <1>5, <1>6, <1>7 DEF Copies
<1>2. ReleasesBuilt
  BY ScriptsFit
<1> QED BY <1>1, <1>2 DEF ReleasesBuilt

\* A statement that adds no unnamed key leads no name astray.
Plain(s) == s.unnamed = <<>>
AllPlain(ss) == \A i \in 1..Len(ss) : Plain(ss[i])
PlainScript(script) == AllPlain(script.up) /\ AllPlain(script.down)

\* All but one kind of statement are plain,
LEMMA StatementsPlain ==
    /\ \A needs, free, minus, plus : Plain(Statement(needs, free, minus, plus))
    /\ \A t, names : Plain(CreateTable(t, names))
    /\ \A t : Plain(DropTable(t))
    /\ \A t, name, on : Plain(AddOn(t, name, on))
    /\ \A t, name : Plain(Add(t, name))
    /\ \A t, name, index : Plain(DropWith(t, name, index))
    /\ \A t, name : Plain(Drop(t, name))
    /\ \A t, from, to, keys : Plain(Modify(t, from, to, keys))
    /\ \A t, column : Plain(Fill(t, column))
    /\ Plain(SyntaxError)
<1>1. \A needs, free, minus, plus : Plain(Statement(needs, free, minus, plus))
  BY DEF Plain, Statement
<1> QED BY <1>1, Zenon
          DEF CreateTable, DropTable, AddOn, Add, DropWith, Drop, Modify, Fill, SyntaxError

\* and so are the lists of them, of all the lengths there are,
LEMMA WaysPlain ==
    /\ AllPlain(<<>>)
    /\ \A a : Plain(a) => AllPlain(<<a>>)
    /\ \A a, b : Plain(a) /\ Plain(b) => AllPlain(<<a, b>>)
    /\ \A a, b, c : Plain(a) /\ Plain(b) /\ Plain(c) => AllPlain(<<a, b, c>>)
    /\ \A a, b, c, d :
          Plain(a) /\ Plain(b) /\ Plain(c) /\ Plain(d) => AllPlain(<<a, b, c, d>>)
    /\ \A a, b, c, d, e :
          Plain(a) /\ Plain(b) /\ Plain(c) /\ Plain(d) /\ Plain(e) => AllPlain(<<a, b, c, d, e>>)
    /\ \A a, b, c, d, e, f :
          Plain(a) /\ Plain(b) /\ Plain(c) /\ Plain(d) /\ Plain(e) /\ Plain(f) =>
             AllPlain(<<a, b, c, d, e, f>>)
BY DEF AllPlain

\* and the scripts of such lists.
LEMMA ScriptPlain ==
    /\ \A up, down : AllPlain(up) /\ AllPlain(down) => PlainScript(Script(up, down))
    /\ \A up, down : AllPlain(up) => AllPlain(Script(up, down).up)
    /\ \A up, down : AllPlain(down) => AllPlain(Script(up, down).down)
BY DEF Script, PlainScript

\* So are all scripts but for the two ways that add the unnamed key.
LEMMA ScriptsPlain ==
    /\ \A k \in 1..16 : k # 11 => AllPlain(Scripts[k].up)
    /\ \A k \in 1..16 : k # 15 => AllPlain(Scripts[k].down)
<1> USE StatementsPlain, WaysPlain, ScriptPlain
<1>1. PlainScript(Collation)
  BY Zenon DEF Collation
<1>2. PlainScript(RssFeed)
  BY Zenon DEF RssFeed
<1>3. PlainScript(ExtendSubscriptions)
  BY Zenon DEF ExtendSubscriptions
<1>4. PlainScript(Timestamps)
  BY Zenon DEF Timestamps
<1>5. PlainScript(StoresFeedPosts)
  BY Zenon DEF StoresFeedPosts
<1>6. PlainScript(TableUserPostsRead)
  BY Zenon DEF TableUserPostsRead
<1>7. PlainScript(MoarTimestamps)
  BY Zenon DEF MoarTimestamps
<1>8. PlainScript(CanTrackRssUrlStatus)
  BY Zenon DEF CanTrackRssUrlStatus
<1>9. PlainScript(SubscriptionsRssUrlHash)
  BY Zenon DEF SubscriptionsRssUrlHash
<1>10. PlainScript(UserPasswords)
  BY Zenon DEF UserPasswords
<1>11. AllPlain(UniqueFriendlyName.down)
  BY Zenon DEF UniqueFriendlyName
<1>12. PlainScript(PasswordResetsTable)
  BY Zenon DEF PasswordResetsTable
<1>13. PlainScript(UsernameFix)
  BY Zenon DEF UsernameFix
<1>14. PlainScript(UsernameFixPart2)
  BY Zenon DEF UsernameFixPart2
<1>15. AllPlain(UsernameFixPart3.up)
  BY Zenon DEF UsernameFixPart3
<1>16. PlainScript(FeedPostsPostDateIndex)
  BY Zenon DEF FeedPostsPostDateIndex
<1>17. /\ Scripts[1] = Collation /\ Scripts[2] = RssFeed /\ Scripts[3] = ExtendSubscriptions
      /\ Scripts[4] = Timestamps /\ Scripts[5] = StoresFeedPosts /\ Scripts[6] = TableUserPostsRead
      /\ Scripts[7] = MoarTimestamps /\ Scripts[8] = CanTrackRssUrlStatus
      /\ Scripts[9] = SubscriptionsRssUrlHash /\ Scripts[10] = UserPasswords
      /\ Scripts[11] = UniqueFriendlyName /\ Scripts[12] = PasswordResetsTable
      /\ Scripts[13] = UsernameFix /\ Scripts[14] = UsernameFixPart2
      /\ Scripts[15] = UsernameFixPart3 /\ Scripts[16] = FeedPostsPostDateIndex
  BY DEF Scripts
<1> QED BY <1>1, <1>2, <1>3, <1>4, <1>5, <1>6, <1>7, <1>8, <1>9, <1>10, <1>11, <1>12, <1>13,
           <1>14, <1>15, <1>16, <1>17
          DEF PlainScript

\* So no list of plain statements does.
LEMMA PlainStrays ==
    ASSUME NEW ss, AllPlain(ss), NEW j \in 0..Len(ss), Len(ss) \in Nat
    PROVE  StrayOf(ss, j) = {}
BY DEF AllPlain, Plain, StrayOf, Stray

\* The third fix of the usernames runs over no key that was added again.
LEMMA FixLeavesNoCopies ==
    ASSUME NEW st, Runs(Scripts[15].up[2], st)
    PROVE  After(Scripts[15].up[2], st) \cap Copies = {}
<1> DEFINE s == Modify("users", "friendlyName varchar", "friendlyName text",
                       {"friendlyName", "friendlyName_2", "friendlyName_3"})
<1>1. Scripts[15].up[2] = s
  BY DEF Scripts, UsernameFixPart3, Script
<1>2. /\ s.free = Of("users", {"friendlyName", "friendlyName_2", "friendlyName_3"})
      /\ s.plus = {<<"users", "friendlyName text">>} /\ s.unnamed = <<>>
  BY DEF Modify, Statement
<1>3. Copies \subseteq Of("users", {"friendlyName", "friendlyName_2", "friendlyName_3"})
  BY DEF Copies, Of
<1>4. {<<"users", "friendlyName text">>} \cap Copies = {}
  BY DEF Copies
<1> HIDE DEF s
<1>5. st \cap Copies = {}
  BY <1>1, <1>2, <1>3 DEF Runs
<1>6. After(s, st) \subseteq st \cup {<<"users", "friendlyName text">>}
  BY <1>2, FirstFreeKeys DEF After
<1> QED BY <1>1, <1>4, <1>5, <1>6

\* No schema runs the way down from the unique friendlyName.
LEMMA NoWayDown ==
    /\ Scripts[11] = UniqueFriendlyName /\ Len(Scripts[11].down) = 1
    /\ \A st \in SUBSET SchemaParts : ~Runs(Scripts[11].down[1], st)
<1>1. /\ Scripts[11] = UniqueFriendlyName
      /\ Len(Scripts[11].down) = 1 /\ Scripts[11].down[1] = SyntaxError
  BY DEF Scripts, UniqueFriendlyName, Script
<1>2. SyntaxError.needs = {<<"no such table", "">>}
  BY DEF SyntaxError, Statement
<1>3. <<"no such table", "">> \notin SchemaParts
  BY DEF SchemaParts, Tables
<1> QED BY <1>1, <1>2, <1>3 DEF Runs

\* The third fix has two statements.
LEMMA FixHasTwo == Len(Scripts[15].up) = 2
BY DEF Scripts, UsernameFixPart3, Script

-----------------------------------------------------------------------------
(* What runs that were broken off leave behind. *)

\* What the schema may differ by from that of the first k migrations, when the
\* migrations of c have been broken off on the way up.
Loose(k, c) ==
    (UNION {Touched(Scripts[m].up) : m \in {i \in c : i > k}})
       \cup (IF c # {} /\ k \in 11..14 THEN Copies ELSE {})

\* What is loose comes of a migration broken off, and grows with their number.
LEMMA LooseFacts ==
    ASSUME NEW k \in 0..16, NEW c \in SUBSET Nat
    PROVE  /\ Loose(k, c) # {} => c # {}
           /\ \A m \in c : m > k => Touched(Scripts[m].up) \subseteq Loose(k, c)
           /\ \A d \in SUBSET Nat : c \subseteq d => Loose(k, c) \subseteq Loose(k, d)
           /\ c # {} /\ k \in 11..14 => Copies \subseteq Loose(k, c)
           /\ \A x \in Loose(k, c) :
                 \/ x \in Copies /\ k \in 11..14
                 \/ \E m \in c : m > k /\ x \in Touched(Scripts[m].up)
BY DEF Loose

\* All strays are names of keys.
LEMMA StraysAreCopies ==
    ASSUME NEW ss, NEW j
    PROVE  StrayOf(ss, j) \subseteq Copies
BY DEF StrayOf, Stray

\* The scripts by number.
LEMMA WaysOf ==
    ASSUME NEW k \in 1..16
    PROVE  /\ AllKnown(Scripts[k].up) /\ AllKnown(Scripts[k].down)
           /\ Len(Scripts[k].up) \in Nat /\ Len(Scripts[k].down) \in Nat
           /\ Built[k] \in SUBSET SchemaParts
           /\ \A b \in Stands(k) : b \in SUBSET SchemaParts
           /\ \A b \in Stands(k - 1) : b \in SUBSET SchemaParts
<1>1. AllKnown(Scripts[k].up) /\ AllKnown(Scripts[k].down)
  BY ScriptsKnown, Sixteen DEF KnownScript
<1>2. \A i \in 0..16 : \A b \in Stands(i) : b \in SUBSET SchemaParts
  BY BuiltIs DEF Stands
<1>3. k \in 0..16 /\ k - 1 \in 0..16
  OBVIOUS
<1>4. Len(Scripts[k].up) \in Nat /\ Len(Scripts[k].down) \in Nat
  BY <1>1 DEF AllKnown
<1> QED BY <1>1, <1>2, <1>3, <1>4, BuiltIs

\* A script that has come to its end on the way up.
LEMMA DoneUp ==
    ASSUME NEW k \in 0..15, NEW c \in SUBSET Nat, NEW b \in Stands(k), NEW st,
           Near(st, Scripts[k + 1].up, b, Len(Scripts[k + 1].up), Loose(k, c)),
           k = 14 => st \cap Copies = {}
    PROVE  Diff(st, Built[k + 1]) \subseteq Loose(k + 1, c)
<1> DEFINE m == k + 1
           ss == Scripts[m].up
           L == Loose(k, c)
<1>0. m \in 1..16 /\ k \in 0..16 /\ b \in Stands(m - 1)
  OBVIOUS
<1>1. Path(ss, b)[Len(ss)] = Built[m]
  BY <1>0, ScriptsFit DEF Passes
<1>2. Diff(st, Built[m])
        \subseteq IF L = {} THEN {} ELSE (L \ SettledBy(ss, Len(ss))) \cup StrayOf(ss, Len(ss))
  BY <1>1 DEF Near
<1>3. CASE L = {}
  BY <1>2, <1>3
<1>4. CASE L # {}
  <2>1. c # {}
    BY <1>0, <1>4, LooseFacts
  <2>2. StrayOf(ss, Len(ss)) \subseteq Loose(m, c)
    <3>1. CASE m = 11
      BY <1>0, <2>1, <3>1, LooseFacts, StraysAreCopies
    <3>2. CASE m # 11
      <4>1. AllPlain(ss) /\ Len(ss) \in Nat
        BY <1>0, <3>2, ScriptsPlain, WaysOf
      <4>2. Len(ss) \in 0..Len(ss)
        BY <4>1
      <4> QED BY <4>1, <4>2, PlainStrays
    <3> QED BY <3>1, <3>2
  <2>3. ASSUME NEW x \in Diff(st, Built[m]), x \in L, x \notin SettledBy(ss, Len(ss)),
               x \notin StrayOf(ss, Len(ss))
        PROVE  x \in Loose(m, c)
    <3>1. CASE x \in Copies
      <4>1. CASE m = 15
        <5>1. Built[m] \cap Copies = {}
          BY <4>1, KeyOfReleases
        <5> QED BY <2>3, <3>1, <4>1, <5>1 DEF Diff
      <4>2. CASE m \in 11..14
        BY <1>0, <2>1, <3>1, <4>2, LooseFacts
      <4>3. CASE m \notin 11..15
        <5>1. PICK i \in c : i > k /\ x \in Touched(Scripts[i].up)
          BY <1>0, <2>3, <4>3, LooseFacts
        <5>2. i # m
          BY <2>3, <5>1, TouchedUnsettled
        <5>3. i > m
          BY <5>1, <5>2
        <5> QED BY <1>0, <5>1, <5>3, LooseFacts
      <4> QED BY <1>0, <4>1, <4>2, <4>3
    <3>2. CASE x \notin Copies
      <4>1. PICK i \in c : i > k /\ x \in Touched(Scripts[i].up)
        BY <1>0, <2>3, <3>2, LooseFacts
      <4>2. i # m
        BY <2>3, <4>1, TouchedUnsettled
      <4>3. i > m
        BY <4>1, <4>2
      <4> QED BY <1>0, <4>1, <4>3, LooseFacts
    <3> QED BY <3>1, <3>2
  <2> QED BY <1>2, <1>4, <2>2, <2>3
<1> QED BY <1>3, <1>4

\* And one that has come to its end on the way down.
LEMMA DoneDown ==
    ASSUME NEW k \in 1..16, k # 11, NEW c \in SUBSET Nat, NEW st,
           Near(st, Scripts[k].down, Built[k], Len(Scripts[k].down), Loose(k, c))
    PROVE  \E b \in Stands(k - 1) : Diff(st, b) \subseteq Loose(k - 1, c)
<1> DEFINE ss == Scripts[k].down
           L == Loose(k, c)
<1>0. k - 1 \in 0..16 /\ k \in 0..16
  OBVIOUS
<1>1. PICK b \in Stands(k - 1) : Path(ss, Built[k])[Len(ss)] = b
  BY ScriptsFit DEF Passes
<1>2. Diff(st, b)
        \subseteq IF L = {} THEN {} ELSE (L \ SettledBy(ss, Len(ss))) \cup StrayOf(ss, Len(ss))
  BY <1>1 DEF Near
<1>3. ASSUME NEW x \in L
      PROVE  x \in Loose(k - 1, c)
  <2>1. c # {}
    BY <1>0, <1>3, LooseFacts
  <2>2. CASE x \in Copies /\ k \in 11..14
    <3>1. k - 1 \in 11..14
      BY <2>2
    <3> QED BY <1>0, <2>1, <2>2, <3>1, LooseFacts
  <2>3. ASSUME NEW m \in c, m > k, x \in Touched(Scripts[m].up)
        PROVE  x \in Loose(k - 1, c)
    <3>1. m > k - 1
      BY <2>3
    <3> QED BY <1>0, <2>3, <3>1, LooseFacts
  <2> QED BY <1>0, <1>3, <2>2, <2>3, LooseFacts
<1>4. L # {} => StrayOf(ss, Len(ss)) \subseteq Loose(k - 1, c)
  <2>1. CASE k = 15
    BY <1>0, <2>1, LooseFacts, StraysAreCopies
  <2>2. CASE k # 15
    <3>1. AllPlain(ss) /\ Len(ss) \in Nat
      BY <2>2, ScriptsPlain, WaysOf
    <3>2. Len(ss) \in 0..Len(ss)
      BY <3>1
    <3> QED BY <3>1, <3>2, PlainStrays
  <2> QED BY <2>1, <2>2
<1>5. Diff(st, b) \subseteq Loose(k - 1, c)
  BY <1>2, <1>3, <1>4
<1> QED BY <1>5

\* A script that is broken off on the way up.
LEMMA BrokenUp ==
    ASSUME NEW k \in 0..15, NEW c \in SUBSET Nat, NEW b \in Stands(k), NEW st,
           NEW j \in 0..Len(Scripts[k + 1].up),
           Near(st, Scripts[k + 1].up, b, j, Loose(k, c))
    PROVE  Diff(st, b) \subseteq Loose(k, c \cup {k + 1})
<1>0. k + 1 \in 1..16 /\ k \in 0..16 /\ b \in Stands((k + 1) - 1)
  OBVIOUS
<1>1. AllKnown(Scripts[k + 1].up) /\ b \in SUBSET SchemaParts
  BY <1>0, WaysOf
<1>2. Diff(st, b) \subseteq Loose(k, c) \cup Touched(Scripts[k + 1].up)
  BY <1>1, NearTouched
<1> DEFINE d == c \cup {k + 1}
<1>3. d \in SUBSET Nat /\ c \subseteq d /\ k + 1 \in d /\ k + 1 > k
  OBVIOUS
<1> HIDE DEF d
<1>4. Loose(k, c) \subseteq Loose(k, d)
  BY <1>0, <1>3, LooseFacts
<1>5. Touched(Scripts[k + 1].up) \subseteq Loose(k, d)
  BY <1>0, <1>3, LooseFacts
<1> QED BY <1>2, <1>4, <1>5 DEF d

\* Before its first statement.
LEMMA NearStart ==
    ASSUME NEW ss, AllKnown(ss), NEW b \in SUBSET SchemaParts, NEW st, NEW L
    PROVE  Near(st, ss, b, 0, L) <=> Diff(st, b) \subseteq L
<1>1. Path(ss, b)[0] = b
  BY PathIs
<1>2. SettledBy(ss, 0) = {} /\ StrayOf(ss, 0) = {}
  BY DEF SettledBy, StrayOf
<1> QED BY <1>1, <1>2 DEF Near

-----------------------------------------------------------------------------
(* The schema during the runs. *)

\* The statements of the migration that a run is at, when the first k are recorded.
ScriptAt(k) == IF way = "up" THEN Scripts[k + 1].up ELSE Scripts[k].down

\* A run that has migrations to run.
Running == pc \in {"running", "recording"}

\* The records are those of the first k migrations, and a run does what they
\* leave to do.
RunAt(k) ==
    /\ recorded = 1..k
    /\ Running /\ way = "up" => k < release /\ todo = (k + 1)..release
    /\ Running /\ way = "down" => k \in 1..16 /\ todo = {k}
    /\ pc = "done" /\ way = "up" => release <= k
    /\ pc = "recording" => step = Len(ScriptAt(k)) + 1
    /\ pc = "running" => step <= Len(ScriptAt(k)) + 1

\* The schema is the one that the script makes of b, but for what earlier runs
\* left behind.
MidScript(k, b) ==
    /\ Near(schema, ScriptAt(k), b, step - 1, Loose(k, cut))
    /\ way = "up" /\ k = 14 /\ step = 3 => schema \cap Copies = {}
    /\ way = "down" /\ k = 11 => step = 1

\* The schema is that of the first k migrations, or on its way from there.
SchemaAt(k) ==
    \E b \in Stands(k) :
        /\ ~Running => Diff(schema, b) \subseteq Loose(k, cut)
        /\ Running => MidScript(k, b)

\* Records and schema agree on k migrations; but for the schema after a run down
\* that was broken off.
InPlace(k) == RunAt(k) /\ (torn = {} => SchemaAt(k))

\* As long as every record was written, there is such a k.
SchemaInv ==
    /\ cut \in SUBSET Nat
    /\ unwritten = {} => \E k \in 0..16 : InPlace(k)

\* The migration a run is at, by the number of those recorded.
LEMMA CurrentIs ==
    ASSUME MigrationsTypeOK, NEW k \in 0..16, RunAt(k), Running
    PROVE  /\ way = "up" => Current = k + 1 /\ k \in 0..15
           /\ way = "down" => Current = k /\ k \in 1..16
           /\ way \in {"up", "down"}
           /\ Statements = ScriptAt(k)
           /\ AllKnown(ScriptAt(k)) /\ Len(ScriptAt(k)) \in Nat
           /\ step - 1 \in 0..Len(ScriptAt(k))
<1>0. /\ release \in 0..16 /\ way \in {"up", "down"} /\ todo \subseteq 1..16 /\ todo # {}
      /\ step \in 1..7
  BY Sixteen DEF MigrationsTypeOK, Running
<1>1. CASE way = "up"
  <2>1. k < release /\ todo = (k + 1)..release
    BY <1>1 DEF RunAt
  <2>2. k \in 0..15 /\ k + 1 \in todo /\ \A m \in todo : k + 1 <= m
    BY <1>0, <2>1
  <2>3. PICK n \in todo : n = Min(todo) /\ \A m \in todo : n <= m
    BY <2>2 DEF Min
  <2>4. n = k + 1
    <3>1. n <= k + 1 /\ k + 1 <= n /\ n \in Nat
      BY <1>0, <2>2, <2>3
    <3> QED BY <3>1
  <2>5. Current = k + 1
    BY <1>1, <2>3, <2>4 DEF Current
  <2>6. Statements = ScriptAt(k) /\ ScriptAt(k) = Scripts[k + 1].up /\ k + 1 \in 1..16
    BY <1>1, <2>2, <2>5 DEF Statements, ScriptAt
  <2>7. AllKnown(ScriptAt(k)) /\ Len(ScriptAt(k)) \in Nat
    BY <2>6, WaysOf
  <2>8. step - 1 \in 0..Len(ScriptAt(k))
    BY <1>0, <2>7 DEF RunAt, Running
  <2> QED BY <1>0, <1>1, <2>2, <2>5, <2>6, <2>7, <2>8
<1>2. CASE way = "down"
  <2>1. k \in 1..16 /\ todo = {k}
    BY <1>2 DEF RunAt
  <2>2. Max(todo) = k
    BY <2>1 DEF Max
  <2>3. Current = k
    BY <1>2, <2>2 DEF Current
  <2>4. Statements = ScriptAt(k) /\ ScriptAt(k) = Scripts[k].down
    BY <1>2, <2>3 DEF Statements, ScriptAt
  <2>5. AllKnown(ScriptAt(k)) /\ Len(ScriptAt(k)) \in Nat
    BY <2>1, <2>4, WaysOf
  <2>6. step - 1 \in 0..Len(ScriptAt(k))
    BY <1>0, <2>5 DEF RunAt, Running
  <2> QED BY <1>0, <1>2, <2>1, <2>3, <2>4, <2>5, <2>6
<1> QED BY <1>0, <1>1, <1>2

\* The base of a schema is made of parts there are.
LEMMA StandsKnown ==
    \A k \in 0..16 : \A b \in Stands(k) : b \in SUBSET SchemaParts
BY BuiltIs DEF Stands

\* What a run finds and leaves as it is.
LEMMA BeginSchema ==
    ASSUME SchemaInv, NEW w, NEW n, Begin(w, n)
    PROVE  SchemaInv'
<1>1. /\ ~Running /\ ~Running'
      /\ pc' = "reading"
      /\ UNCHANGED <<schema, recorded, cut, torn, unwritten>>
  BY DEF Begin, Running, historyVars
<1>2. \A k : InPlace(k) => InPlace(k)'
  BY <1>1 DEF InPlace, RunAt, SchemaAt, Running
<1> QED BY <1>1, <1>2 DEF SchemaInv

\* A run that reads what is recorded starts on the schema as it is.
LEMMA ReadSchema ==
    ASSUME MigrationsTypeOK, SchemaInv, ReadRecorded
    PROVE  SchemaInv'
<1>1. /\ ~Running /\ todo' = Left /\ step' = 1 /\ pc' = IF Left = {} THEN "done" ELSE "running"
      /\ Left \subseteq 1..release
      /\ UNCHANGED <<schema, release, recorded, way, cut, torn, unwritten>>
  BY DEF ReadRecorded, Running, historyVars
<1>2. release \in 0..16 /\ way \in {"up", "down"}
  BY Sixteen DEF MigrationsTypeOK
<1>3. ASSUME NEW k \in 0..16, InPlace(k)
      PROVE  InPlace(k)'
  <2>1. recorded = 1..k
    BY <1>3 DEF InPlace, RunAt
  <2>2. way = "up" => Left = (k + 1)..release
    BY <1>2, <2>1 DEF Left
  <2>3. way = "down" => Left = IF k = 0 THEN {} ELSE {k}
    BY <1>2, <2>1 DEF Left
  <2>4. /\ ScriptAt(k)' = ScriptAt(k)
        /\ Running' => Left # {}
    BY <1>1 DEF ScriptAt, Running
  <2>5. /\ Running' /\ way = "up" => k < release
        /\ Running' /\ way = "down" => k \in 1..16
    <3>1. (k + 1)..release # {} => k < release
      BY <1>2
    <3>2. k # 0 => k \in 1..16
      OBVIOUS
    <3> HIDE DEF Running
    <3>3. Running' /\ way = "up" => k < release
      BY <2>2, <2>4, <3>1
    <3>4. Running' /\ way = "down" => k \in 1..16
      BY <2>3, <2>4, <3>2
    <3> QED BY <3>3, <3>4
  <2>6. Running' => AllKnown(ScriptAt(k)) /\ Len(ScriptAt(k)) \in Nat
    <3>1. way = "up" /\ k < release => k + 1 \in 1..16 /\ ScriptAt(k) = Scripts[k + 1].up
      BY <1>2 DEF ScriptAt
    <3>2. way = "down" => ScriptAt(k) = Scripts[k].down
      BY DEF ScriptAt
    <3> QED BY <1>2, <2>5, <3>1, <3>2, WaysOf
  <2>7. RunAt(k)'
    <3>1. pc' = "done" /\ way = "up" => release <= k
      BY <1>1, <1>2, <2>2
    <3> QED BY <1>1, <2>1, <2>2, <2>3, <2>4, <2>5, <2>6, <3>1 DEF RunAt, Running
  <2>8. ASSUME torn' = {}
        PROVE  SchemaAt(k)'
    <3>1. PICK b \in Stands(k) : Diff(schema, b) \subseteq Loose(k, cut)
      BY <1>1, <1>3, <2>8 DEF InPlace, SchemaAt
    <3>2. Running' => Near(schema, ScriptAt(k), b, 0, Loose(k, cut))
      BY <2>6, <3>1, NearStart, StandsKnown
    <3>3. Running' => MidScript(k, b)'
      BY <1>1, <2>4, <3>2 DEF MidScript
    <3> QED BY <1>1, <3>1, <3>3 DEF SchemaAt
  <2> QED BY <2>7, <2>8 DEF InPlace
<1> QED BY <1>1, <1>3 DEF SchemaInv

\* The migration a run is at has a number.
LEMMA CurrentIsNumber ==
    ASSUME MigrationsTypeOK, Running
    PROVE  Current \in Nat
<1>1. todo \subseteq Migrations /\ todo # {}
  BY DEF MigrationsTypeOK, Running
<1>2. Current \in todo
  BY <1>1, CurrentIsLeft
<1>3. Migrations \subseteq Nat
  BY Sixteen
<1> QED BY <1>1, <1>2, <1>3

\* A run that has ended leaves the records in place.
LEMMA EndedRun ==
    ASSUME NEW k \in 0..16, recorded = 1..k, recorded' = recorded, pc' = "failed"
    PROVE  RunAt(k)' /\ ~Running'
BY DEF RunAt, Running

\* A migration that is broken off in its j-th statement or after it.
LEMMA BrokenOffSchema ==
    ASSUME MigrationsTypeOK, cut \in SUBSET Nat, NEW k \in 0..16, InPlace(k), Running,
           Fails, BrokenOff, recorded' = recorded, NEW j \in 0..Len(ScriptAt(k)),
           torn = {} => \E b \in Stands(k) : Near(schema', ScriptAt(k), b, j, Loose(k, cut))
    PROVE  InPlace(k)' /\ cut' \in SUBSET Nat
<1>0. RunAt(k) /\ recorded = 1..k
  BY DEF InPlace, RunAt
<1>1. RunAt(k)' /\ ~Running'
  BY <1>0, EndedRun DEF Fails
<1>2. CASE way = "up"
  <2>1. Current = k + 1 /\ k \in 0..15 /\ ScriptAt(k) = Scripts[k + 1].up
    BY <1>0, <1>2, CurrentIs DEF ScriptAt
  <2>2. cut' = cut \cup {k + 1} /\ torn' = torn
    BY <1>2, <2>1 DEF BrokenOff
  <2>3. ASSUME torn' = {}
        PROVE  SchemaAt(k)'
    <3>1. PICK b \in Stands(k) : Near(schema', ScriptAt(k), b, j, Loose(k, cut))
      BY <2>2, <2>3
    <3>2. Diff(schema', b) \subseteq Loose(k, cut \cup {k + 1})
      BY <2>1, <3>1, BrokenUp
    <3> QED BY <1>1, <2>2, <3>2 DEF SchemaAt
  <2> QED BY <1>1, <2>2, <2>3 DEF InPlace
<1>3. CASE way # "up"
  <2>1. way = "down"
    BY <1>3 DEF MigrationsTypeOK
  <2>2. cut' = cut /\ torn' # {}
    BY <1>3, <2>1 DEF BrokenOff
  <2> QED BY <1>1, <2>2 DEF InPlace
<1> QED BY <1>2, <1>3

\* A run that stops between two statements.
LEMMA StopsSchema ==
    ASSUME MigrationsTypeOK, SchemaInv, NoSuchScript \/ Refused \/ StepFails
    PROVE  SchemaInv'
<1>1. Fails /\ UNCHANGED <<schema, recorded, unwritten>>
  BY DEF NoSuchScript, Refused, StepFails, historyVars
<1>2. pc' = "failed"
  BY <1>1 DEF Fails
<1>3. CASE NoSuchScript
  <2>1. ~Running /\ UNCHANGED <<cut, torn>>
    BY <1>3 DEF NoSuchScript, Running, historyVars
  <2>2. ASSUME NEW k \in 0..16, InPlace(k)
        PROVE  InPlace(k)'
    <3>1. RunAt(k)' /\ ~Running'
      BY <1>1, <1>2, <2>2, EndedRun DEF InPlace, RunAt
    <3> QED BY <1>1, <2>1, <2>2, <3>1 DEF InPlace, SchemaAt
  <2> QED BY <1>1, <2>1, <2>2 DEF SchemaInv
<1>4. CASE Refused \/ StepFails
  <2>1. /\ Running
        /\ IF step > 1 THEN BrokenOff ELSE UNCHANGED <<cut, torn>>
    BY <1>4 DEF Refused, StepFails, Running
  <2>2. ASSUME NEW k \in 0..16, InPlace(k)
        PROVE  InPlace(k)'
    <3>0. RunAt(k) /\ recorded = 1..k /\ cut \in SUBSET Nat
      BY <2>2 DEF InPlace, RunAt, SchemaInv
    <3>1. AllKnown(ScriptAt(k)) /\ step - 1 \in 0..Len(ScriptAt(k))
      BY <2>1, <3>0, CurrentIs
    <3>2. torn = {} => \E b \in Stands(k) : Near(schema, ScriptAt(k), b, step - 1, Loose(k, cut))
      BY <2>1, <2>2 DEF InPlace, SchemaAt, MidScript
    <3>3. CASE step > 1
      BY <1>1, <2>1, <2>2, <3>0, <3>1, <3>2, <3>3, BrokenOffSchema
    <3>4. CASE ~(step > 1)
      <4>1. step - 1 = 0 /\ UNCHANGED <<cut, torn>>
        BY <2>1, <3>1, <3>4 DEF MigrationsTypeOK
      <4>2. RunAt(k)' /\ ~Running'
        BY <1>1, <1>2, <3>0, EndedRun
      <4>3. ASSUME torn = {}
            PROVE  SchemaAt(k)'
        <5>1. PICK b \in Stands(k) : Near(schema, ScriptAt(k), b, 0, Loose(k, cut))
          BY <3>2, <4>1, <4>3
        <5>2. Diff(schema, b) \subseteq Loose(k, cut)
          BY <3>1, <5>1, NearStart, StandsKnown
        <5> QED BY <1>1, <4>1, <4>2, <5>2 DEF SchemaAt
      <4> QED BY <4>1, <4>2, <4>3 DEF InPlace
    <3> QED BY <3>3, <3>4
  <2>3. cut' \in SUBSET Nat
    <3>1. Current \in Nat
      BY <2>1, CurrentIsNumber
    <3> QED BY <2>1, <3>1 DEF SchemaInv, BrokenOff
  <2> QED BY <1>1, <2>2, <2>3 DEF SchemaInv
<1> QED BY <1>3, <1>4

\* A statement that runs, answered or not.
LEMMA StatementNear ==
    ASSUME MigrationsTypeOK, NEW k \in 0..16, InPlace(k), torn = {},
           pc = "running", step <= Len(Statements), schema' = After(Statements[step], schema)
    PROVE  /\ step \in 1..Len(ScriptAt(k))
           /\ \E b \in Stands(k) : /\ MidScript(k, b)
                                   /\ Near(schema', ScriptAt(k), b, step, Loose(k, cut))
<1>0. Running /\ RunAt(k)
  BY DEF Running, InPlace
<1>1. Statements = ScriptAt(k) /\ AllKnown(ScriptAt(k)) /\ Len(ScriptAt(k)) \in Nat
  BY <1>0, CurrentIs
<1>2. step \in 1..Len(ScriptAt(k))
  BY <1>1 DEF MigrationsTypeOK
<1>3. PICK b \in Stands(k) : MidScript(k, b)
  BY <1>0 DEF InPlace, SchemaAt
<1>4. Near(schema, ScriptAt(k), b, step - 1, Loose(k, cut)) /\ b \in SUBSET SchemaParts
  BY <1>3, StandsKnown DEF MidScript
<1>5. Near(After(ScriptAt(k)[step], schema), ScriptAt(k), b, step, Loose(k, cut))
  BY <1>1, <1>2, <1>4, NearNext
<1> QED BY <1>1, <1>2, <1>3, <1>5

\* A statement that was run though its answer was lost.
LEMMA AnswerLostSchema ==
    ASSUME MigrationsTypeOK, SchemaInv, AnswerLost
    PROVE  SchemaInv'
<1>1. /\ pc = "running" /\ step <= Len(Statements) /\ schema' = After(Statements[step], schema)
      /\ Fails /\ BrokenOff /\ UNCHANGED <<recorded, unwritten>>
      /\ Running
  BY DEF AnswerLost, Running
<1>2. ASSUME NEW k \in 0..16, InPlace(k)
      PROVE  InPlace(k)'
  <2>1. RunAt(k) /\ cut \in SUBSET Nat
    BY <1>2 DEF InPlace, SchemaInv
  <2>2. Statements = ScriptAt(k) /\ Len(ScriptAt(k)) \in Nat
    BY <1>1, <2>1, CurrentIs
  <2>3. step \in 0..Len(ScriptAt(k))
    BY <1>1, <2>2 DEF MigrationsTypeOK
  <2>4. torn = {} => \E b \in Stands(k) : Near(schema', ScriptAt(k), b, step, Loose(k, cut))
    BY <1>1, <1>2, StatementNear
  <2> QED BY <1>1, <1>2, <2>1, <2>3, <2>4, BrokenOffSchema
<1>3. cut' \in SUBSET Nat
  <2>1. Current \in Nat
    BY <1>1, CurrentIsNumber
  <2> QED BY <1>1, <2>1 DEF SchemaInv, BrokenOff
<1> QED BY <1>1, <1>2, <1>3 DEF SchemaInv

\* A statement that was run and answered.
LEMMA ExecuteSchema ==
    ASSUME MigrationsTypeOK, SchemaInv, Execute
    PROVE  SchemaInv'
<1>1. /\ pc = "running" /\ step <= Len(Statements) /\ schema' = After(Statements[step], schema)
      /\ Runs(Statements[step], schema)
      /\ step' = step + 1
      /\ UNCHANGED <<recorded, release, pc, way, todo, cut, torn, unwritten>>
      /\ Running /\ Running'
  BY DEF Execute, Running, historyVars
<1>2. ASSUME NEW k \in 0..16, InPlace(k)
      PROVE  InPlace(k)'
  <2>1. RunAt(k)
    BY <1>2 DEF InPlace
  <2>2. Statements = ScriptAt(k) /\ Len(ScriptAt(k)) \in Nat /\ ScriptAt(k)' = ScriptAt(k)
    BY <1>1, <2>1, CurrentIs DEF ScriptAt
  <2>3. step \in 1..Len(ScriptAt(k)) /\ step' - 1 = step
    BY <1>1, <2>2 DEF MigrationsTypeOK
  <2>4. RunAt(k)'
    BY <1>1, <2>1, <2>2, <2>3 DEF RunAt, Running
  <2>5. ASSUME torn' = {}
        PROVE  SchemaAt(k)'
    <3>1. PICK b \in Stands(k) : /\ MidScript(k, b)
                                 /\ Near(schema', ScriptAt(k), b, step, Loose(k, cut))
      BY <1>1, <1>2, <2>5, StatementNear
    <3>2. Near(schema', ScriptAt(k), b, step, Loose(k, cut))
      BY <3>1
    <3>3. ASSUME way = "up", k = 14, step' = 3
          PROVE  schema' \cap Copies = {}
      <4>1. step = 2 /\ ScriptAt(k) = Scripts[15].up
        BY <1>1, <2>3, <3>3 DEF ScriptAt, MigrationsTypeOK
      <4> QED BY <1>1, <2>2, <4>1, FixLeavesNoCopies
    <3>4. ~(way = "down" /\ k = 11)
      <4> SUFFICES ASSUME way = "down", k = 11 PROVE FALSE
        OBVIOUS
      <4>1. step = 1 /\ ScriptAt(k) = Scripts[11].down
        BY <3>1 DEF MidScript, ScriptAt
      <4>2. schema \in SUBSET SchemaParts
        BY DEF MigrationsTypeOK, SchemaParts
      <4> QED BY <1>1, <2>2, <4>1, <4>2, NoWayDown
    <3>5. MidScript(k, b)'
      BY <1>1, <2>2, <2>3, <3>2, <3>3, <3>4 DEF MidScript
    <3> QED BY <1>1, <3>5 DEF SchemaAt
  <2> QED BY <2>4, <2>5 DEF InPlace
<1> QED BY <1>1, <1>2 DEF SchemaInv

\* A script that comes to its end.
LEMMA ScriptEndsSchema ==
    ASSUME MigrationsTypeOK, SchemaInv, ScriptEnds
    PROVE  SchemaInv'
<1>1. /\ pc = "running" /\ step > Len(Statements) /\ pc' = "recording" /\ Running /\ Running'
      /\ UNCHANGED <<schema, recorded, release, way, todo, step, cut, torn, unwritten>>
  BY DEF ScriptEnds, Running, historyVars
<1>2. ASSUME NEW k \in 0..16, InPlace(k)
      PROVE  InPlace(k)'
  <2>1. RunAt(k)
    BY <1>2 DEF InPlace
  <2>2. Statements = ScriptAt(k) /\ Len(ScriptAt(k)) \in Nat /\ ScriptAt(k)' = ScriptAt(k)
    BY <1>1, <2>1, CurrentIs DEF ScriptAt
  <2>3. step = Len(ScriptAt(k)) + 1
    BY <1>1, <2>1, <2>2 DEF RunAt, MigrationsTypeOK
  <2>4. RunAt(k)'
    BY <1>1, <2>1, <2>2, <2>3 DEF RunAt
  <2> QED BY <1>1, <1>2, <2>2, <2>4 DEF InPlace, SchemaAt, MidScript
<1> QED BY <1>1, <1>2 DEF SchemaInv

\* A migration that is recorded: the next one starts on the schema it has made.
LEMMA RecordSchema ==
    ASSUME MigrationsTypeOK, SchemaInv, Record
    PROVE  SchemaInv'
<1>1. /\ pc = "recording" /\ Running
      /\ recorded' = IF way = "up" THEN recorded \cup {Current} ELSE recorded \ {Current}
      /\ todo' = todo \ {Current} /\ step' = 1 /\ pc' = IF todo' = {} THEN "done" ELSE "running"
      /\ UNCHANGED <<schema, release, way, cut, torn, unwritten>>
  BY DEF Record, GoOn, Running, historyVars
<1>2. release \in 0..16 /\ way \in {"up", "down"} /\ cut \in SUBSET Nat
  BY Sixteen DEF MigrationsTypeOK, SchemaInv
<1>3. ASSUME NEW k \in 0..16, InPlace(k), way = "up"
      PROVE  \E l \in 0..16 : InPlace(l)'
  <2>1. RunAt(k)
    BY <1>3 DEF InPlace
  <2>2. Current = k + 1 /\ k \in 0..15 /\ ScriptAt(k) = Scripts[k + 1].up
    BY <1>1, <1>3, <2>1, CurrentIs DEF ScriptAt
  <2>3. recorded = 1..k /\ todo = (k + 1)..release /\ k < release
    BY <1>1, <1>3, <2>1 DEF RunAt
  <2>4. recorded' = 1..(k + 1) /\ todo' = (k + 2)..release
    BY <1>1, <1>2, <1>3, <2>2, <2>3
  <2>5. Running' => k + 1 < release /\ k + 2 \in 1..16
    BY <1>1, <1>2, <2>2, <2>4 DEF Running
  <2>6. pc' = "done" => release <= k + 1
    BY <1>1, <1>2, <2>2, <2>4
  <2>7. Running' => /\ ScriptAt(k + 1)' = Scripts[k + 2].up
                    /\ AllKnown(Scripts[k + 2].up) /\ Len(Scripts[k + 2].up) \in Nat
    <3>1. (k + 1) + 1 = k + 2
      BY <2>2
    <3>2. ScriptAt(k + 1)' = Scripts[k + 2].up
      BY <1>1, <1>3, <3>1 DEF ScriptAt
    <3> QED BY <2>5, <3>2, WaysOf
  <2>8. RunAt(k + 1)'
    <3>1. (k + 1) + 1 = k + 2
      BY <2>2
    <3> QED BY <1>1, <1>3, <2>4, <2>5, <2>6, <2>7, <3>1 DEF RunAt, Running
  <2>9. ASSUME torn' = {}
        PROVE  SchemaAt(k + 1)'
    <3>1. PICK b \in Stands(k) : MidScript(k, b)
      BY <1>1, <1>3, <2>9 DEF InPlace, SchemaAt
    <3>2. step = Len(ScriptAt(k)) + 1 /\ Len(ScriptAt(k)) \in Nat
      BY <1>1, <2>1, CurrentIs DEF RunAt
    <3>3. Near(schema, Scripts[k + 1].up, b, Len(Scripts[k + 1].up), Loose(k, cut))
      BY <2>2, <3>1, <3>2 DEF MidScript
    <3>4. k = 14 => schema \cap Copies = {}
      <4> SUFFICES ASSUME k = 14 PROVE schema \cap Copies = {}
        OBVIOUS
      <4>1. k + 1 = 15
        OBVIOUS
      <4>2. ScriptAt(k) = Scripts[15].up
        BY <2>2, <4>1, Zenon
      <4>3. Len(ScriptAt(k)) = 2
        BY <4>2, FixHasTwo, Zenon
      <4>4. PICK n : n = Len(ScriptAt(k)) /\ step = n + 1
        BY <3>2, Zenon
      <4>5. n = 2
        BY <4>3, <4>4, Zenon
      <4>6. step = 2 + 1
        BY <4>4, <4>5, Zenon
      <4> QED BY <1>3, <3>1, <4>6 DEF MidScript
    <3>5. Diff(schema, Built[k + 1]) \subseteq Loose(k + 1, cut)
      BY <1>2, <2>2, <3>3, <3>4, DoneUp
    <3>6. Built[k + 1] \in Stands(k + 1) /\ Built[k + 1] \in SUBSET SchemaParts
      BY <2>2, BuiltIs DEF Stands
    <3>7. Running' => Near(schema, Scripts[k + 2].up, Built[k + 1], 0, Loose(k + 1, cut))
      BY <2>7, <3>5, <3>6, NearStart
    <3>8. Running' => MidScript(k + 1, Built[k + 1])'
      BY <1>1, <1>3, <2>7, <3>7 DEF MidScript
    <3> QED BY <1>1, <3>5, <3>6, <3>8 DEF SchemaAt
  <2>10. k + 1 \in 0..16
    BY <2>2
  <2> QED BY <2>8, <2>9, <2>10 DEF InPlace
<1>4. ASSUME NEW k \in 0..16, InPlace(k), way = "down"
      PROVE  \E l \in 0..16 : InPlace(l)'
  <2>1. RunAt(k)
    BY <1>4 DEF InPlace
  <2>2. Current = k /\ k \in 1..16 /\ ScriptAt(k) = Scripts[k].down
    BY <1>1, <1>4, <2>1, CurrentIs DEF ScriptAt
  <2>3. recorded = 1..k /\ todo = {k}
    BY <1>1, <1>4, <2>1 DEF RunAt
  <2>4. recorded' = 1..(k - 1) /\ todo' = {} /\ pc' = "done" /\ ~Running'
    BY <1>1, <1>4, <2>2, <2>3 DEF Running
  <2>5. RunAt(k - 1)'
    BY <1>1, <1>4, <2>4 DEF RunAt
  <2>6. ASSUME torn' = {}
        PROVE  SchemaAt(k - 1)'
    <3>1. PICK b \in Stands(k) : MidScript(k, b)
      BY <1>1, <1>4, <2>6 DEF InPlace, SchemaAt
    <3>2. step = Len(ScriptAt(k)) + 1 /\ Len(ScriptAt(k)) \in Nat
      BY <1>1, <2>1, CurrentIs DEF RunAt
    <3>3. b = Built[k]
      BY <2>2, <3>1 DEF Stands
    <3>4. Near(schema, Scripts[k].down, Built[k], Len(Scripts[k].down), Loose(k, cut))
      BY <2>2, <3>1, <3>2, <3>3 DEF MidScript
    <3>5. k # 11
      BY <1>4, <2>2, <3>1, <3>2, NoWayDown DEF MidScript
    <3>6. \E c \in Stands(k - 1) : Diff(schema, c) \subseteq Loose(k - 1, cut)
      BY <1>2, <2>2, <3>4, <3>5, DoneDown
    <3> QED BY <1>1, <2>4, <3>6 DEF SchemaAt
  <2>7. k - 1 \in 0..16
    BY <2>2
  <2> QED BY <2>5, <2>6, <2>7 DEF InPlace
<1> QED BY <1>1, <1>2, <1>3, <1>4 DEF SchemaInv

\* Every step of a run keeps the schema in place.
LEMMA MigrateSchema ==
    ASSUME MigrationsTypeOK, SchemaInv, Migrate
    PROVE  SchemaInv'
<1>1. CASE RecordFailsUnnoticed
  <2>1. unwritten' # {} /\ cut' = cut
    BY <1>1 DEF RecordFailsUnnoticed
  <2> QED BY <2>1 DEF SchemaInv
<1> QED BY <1>1, ReadSchema, StopsSchema, ExecuteSchema, AnswerLostSchema, ScriptEndsSchema,
           RecordSchema
        DEF Migrate

\* A run is refused by a schema that it should fit only after some trouble.
LEMMA RefusedNot ==
    ASSUME MigrationsTypeOK, SchemaInv, Refused, cut = {}, torn = {}, unwritten = {}
    PROVE  way = "down" /\ Scripts[Current] = UniqueFriendlyName
<1>1. PICK k \in 0..16 : InPlace(k)
  BY DEF SchemaInv
<1>2. /\ RunAt(k) /\ Running /\ pc = "running"
      /\ step <= Len(Statements) /\ ~Runs(Statements[step], schema)
  BY <1>1 DEF InPlace, Refused, Running
<1>3. /\ Statements = ScriptAt(k) /\ Len(ScriptAt(k)) \in Nat
      /\ way = "up" => k \in 0..15
      /\ way = "down" => Current = k /\ k \in 1..16
      /\ way \in {"up", "down"}
  BY <1>2, CurrentIs
<1>4. step \in 1..Len(ScriptAt(k))
  BY <1>2, <1>3 DEF MigrationsTypeOK
<1>5. PICK b \in Stands(k) : MidScript(k, b)
  BY <1>1, <1>2 DEF InPlace, SchemaAt
<1>6. schema = Path(ScriptAt(k), b)[step - 1]
  <2>1. Loose(k, cut) = {}
    BY LooseFacts
  <2>2. Diff(schema, Path(ScriptAt(k), b)[step - 1]) = {}
    BY <1>5, <2>1 DEF MidScript, Near
  <2> QED BY <2>2 DEF Diff
<1>7. CASE way = "up"
  <2>1. /\ k + 1 \in 1..16 /\ ScriptAt(k) = Scripts[k + 1].up
        /\ b \in Stands((k + 1) - 1)
    BY <1>3, <1>7 DEF ScriptAt
  <2>2. Passes(Scripts[k + 1].up, b, Built[k + 1])
    BY <2>1, ScriptsFit
  <2> QED BY <1>2, <1>3, <1>4, <1>6, <2>1, <2>2 DEF Passes
<1>8. CASE way = "down"
  <2>1. k \in 1..16 /\ Current = k /\ ScriptAt(k) = Scripts[k].down /\ b = Built[k]
    BY <1>3, <1>5, <1>8 DEF ScriptAt, Stands
  <2>2. CASE k = 11
    BY <1>8, <2>1, <2>2, NoWayDown
  <2>3. CASE k # 11
    <3>1. PICK c : Passes(Scripts[k].down, Built[k], c)
      BY <2>1, <2>3, ScriptsFit
    <3> QED BY <1>2, <1>3, <1>4, <1>6, <2>1, <3>1 DEF Passes
  <2> QED BY <2>2, <2>3
<1> QED BY <1>3, <1>7, <1>8

-----------------------------------------------------------------------------
(* The deployment around the runs. *)

\* A deployment runs the migrations up, and goes on when they are done.
WayInv ==
    /\ at = "prerun" => way = "up" /\ release \in 1..16
    /\ at \in Switching => way = "up" /\ release \in 1..16 /\ pc = "done"

\* The releases have the numbers of migrations.
LEMMA ReleasesAre == Releases \subseteq 1..16
BY ReleasesAssumption, Sixteen

\* deploy.sh and run.sh leave the migrations alone,
LEMMA SwitchFacts ==
    ASSUME Switch
    PROVE  /\ UNCHANGED <<schema, recorded, release, pc, way, todo, step, cut, torn, unwritten>>
           /\ at' = "prerun" => at = "prerun"
           /\ at' \in Switching => at \in Switching \/ (at = "prerun" /\ pc = "done")
BY
  DEF Switch, PrerunSucceeds, PrerunFails, Unlink, Link, ListServers, Start, DeleteServer,
      Succeed,
       RunFails, UnlinkBack, LinkBack, Killed, Reboot, vars, runVars, historyVars, Switching

\* and a run keeps its way, until it is done.
LEMMA MigrateFacts ==
    ASSUME Migrate
    PROVE  way' = way /\ release' = release /\ pc # "done"
BY DEF Migrate, ReadRecorded, NoSuchScript, Execute, AnswerLost, Refused, StepFails, ScriptEnds,
       Record, RecordFailsUnnoticed, Fails, GoOn

\* Every step keeps runs and schema in place.
LEMMA SchemaNext ==
    MigrationsTypeOK /\ SchemaInv /\ WayInv /\ [DeploymentNext]_allVars => SchemaInv' /\ WayInv'
<1> SUFFICES ASSUME MigrationsTypeOK, SchemaInv, WayInv, [DeploymentNext]_allVars
             PROVE  SchemaInv' /\ WayInv'
  OBVIOUS
<1>1. ASSUME NEW n \in Releases, Deploy(n)
      PROVE  SchemaInv' /\ WayInv'
  <2>1. SchemaInv'
    BY <1>1, BeginSchema DEF Deploy
  <2>2. WayInv'
    BY <1>1, ReleasesAre DEF Deploy, Begin, WayInv, Switching
  <2> QED BY <2>1, <2>2
<1>2. ASSUME NEW n \in Releases, NEW w \in {"up", "down"}, ByHand(w, n)
      PROVE  SchemaInv' /\ WayInv'
  <2>1. SchemaInv'
    BY <1>2, BeginSchema DEF ByHand
  <2>2. WayInv'
    BY <1>2 DEF ByHand, WayInv, Switching, Resting, switchVars
  <2> QED BY <2>1, <2>2
<1>3. CASE Migrate /\ UNCHANGED switchVars
  <2>1. SchemaInv'
    BY <1>3, MigrateSchema
  <2>2. WayInv'
    BY <1>3, MigrateFacts DEF WayInv, switchVars
  <2> QED BY <2>1, <2>2
<1>4. ASSUME UNCHANGED <<schema, recorded, release, pc, way, todo, step, cut, torn, unwritten>>
      PROVE  SchemaInv'
  BY <1>4 DEF SchemaInv, InPlace, RunAt, SchemaAt, MidScript, Running, ScriptAt
<1>5. CASE Switch
  <2>1. SchemaInv'
    BY <1>4, <1>5, SwitchFacts
  <2>2. WayInv'
    BY <1>5, SwitchFacts DEF WayInv
  <2> QED BY <2>1, <2>2
<1>6. CASE UNCHANGED allVars
  <2>1. SchemaInv'
    BY <1>4, <1>6 DEF allVars, vars, runVars, historyVars
  <2>2. WayInv'
    BY <1>6 DEF WayInv, allVars, vars, runVars, switchVars
  <2> QED BY <2>1, <2>2
<1> QED BY <1>1, <1>2, <1>3, <1>5, <1>6 DEF DeploymentNext

\* A new database is the schema of no migration.
LEMMA SchemaStart == DeploymentInit => SchemaInv /\ WayInv
<1> SUFFICES ASSUME DeploymentInit PROVE SchemaInv /\ WayInv
  OBVIOUS
<1>1. /\ schema = {} /\ recorded = {} /\ pc = "idle" /\ cut = {} /\ at = "idle"
  BY DEF DeploymentInit, Init
<1>2. 0 \in 0..16 /\ Built[0] \in Stands(0) /\ Built[0] = {}
  BY BuiltIs DEF Stands
<1>3. RunAt(0) /\ ~Running
  BY <1>1 DEF RunAt, Running
<1>4. Diff(schema, Built[0]) \subseteq Loose(0, cut)
  BY <1>1, <1>2 DEF Diff
<1>5. InPlace(0)
  BY <1>2, <1>3, <1>4 DEF InPlace, SchemaAt
<1> QED BY <1>1, <1>2, <1>5 DEF SchemaInv, WayInv, Switching

\* The schema is always that of the migrations recorded, or on its way between
\* two such schemas, but for what migrations that were broken off have left
\* behind: after any deployments, runs by hand, refusals, failures of statements
\* and lost answers (sql.js and db-migrate, over the sixteen scripts).
THEOREM SchemaInvariant == DeploymentSpec => [](SchemaInv /\ WayInv)
<1>1. DeploymentTypeOK => MigrationsTypeOK
  BY DEF DeploymentTypeOK
<1> QED BY <1>1, SchemaStart, SchemaNext, DeploymentTypes, PTL DEF DeploymentSpec

\* A server that is started finds its schema.
LEMMA StartFinds ==
    ASSUME MigrationsTypeOK, SchemaInv, WayInv, at = "start",
           unwritten = {}, torn = {}, \A m \in cut : m <= release
    PROVE  \E n \in release..Len(Scripts) : IsReleased(n)
<1>1. PICK k \in 0..16 : InPlace(k)
  BY DEF SchemaInv
<1>2. way = "up" /\ release \in 1..16 /\ pc = "done" /\ ~Running
  BY DEF WayInv, Switching, Running
<1>3. k \in 1..16 /\ release <= k
  BY <1>1, <1>2 DEF InPlace, RunAt
<1>4. Diff(schema, Built[k]) \subseteq Loose(k, cut)
  BY <1>1, <1>2, <1>3 DEF InPlace, SchemaAt, Stands
<1>5. \A x \in Loose(k, cut) : x \in Copies /\ k \in 11..14
  <2>1. cut \in SUBSET Nat
    BY DEF SchemaInv
  <2>2. \A m \in cut : ~(m > k)
    BY <1>2, <1>3, <2>1
  <2> QED BY <2>1, <2>2, LooseFacts
<1>6. IsReleased(k)
  <2>1. CASE k \in 11..14
    <3>1. Built[k] \cap Copies = {} /\ FriendlyName \in Built[k]
      BY <2>1, KeyOfReleases
    <3>2. schema \ Copies = Built[k]
      BY <1>4, <1>5, <3>1 DEF Diff
    <3> QED BY <3>1, <3>2 DEF IsReleased, FriendlyName
  <2>2. CASE k \notin 11..14
    <3>1. schema = Built[k]
      BY <1>4, <1>5, <2>2 DEF Diff
    <3> QED BY <3>1 DEF IsReleased
  <2> QED BY <2>1, <2>2
<1>7. k \in release..Len(Scripts)
  BY <1>2, <1>3, Sixteen
<1> QED BY <1>6, <1>7

\* A server is started on the schema of its release or of a later one, whatever
\* runs were broken off before and repaired since: unless a record was not
\* written, a run down was broken off, or a migration later than the release was.
THEOREM DeploymentStartsOnItsSchema == DeploymentSpec => StartsOnItsSchema
<1>1. MigrationsTypeOK /\ SchemaInv /\ WayInv /\ [DeploymentNext]_allVars
        => [/\ at = "start" /\ at' = "delete"
            /\ unwritten = {} /\ torn = {} /\ \A m \in cut : m <= release
            => \E n \in release..Len(Scripts) : IsReleased(n)]_allVars
  BY StartFinds
<1>2. DeploymentTypeOK => MigrationsTypeOK
  BY DEF DeploymentTypeOK
<1> QED BY <1>1, <1>2, SchemaInvariant, DeploymentTypes, PTL
          DEF StartsOnItsSchema, DeploymentSpec

\* A run is refused by a schema only after a run that was broken off or not
\* recorded; but for the way down whose SQL no server accepts.
THEOREM DeploymentRefusedOnlyAfterTrouble == DeploymentSpec => RefusedOnlyAfterTrouble
<1>1. MigrationsTypeOK /\ SchemaInv /\ [DeploymentNext]_allVars
        => [Refused =>
              \/ cut # {} \/ torn # {} \/ unwritten # {}
              \/ way = "down" /\ Scripts[Current] = UniqueFriendlyName]_vars
  BY RefusedNot
<1>2. DeploymentTypeOK => MigrationsTypeOK
  BY DEF DeploymentTypeOK
<1> QED BY <1>1, <1>2, SchemaInvariant, DeploymentTypes, PTL
          DEF RefusedOnlyAfterTrouble, DeploymentSpec

=============================================================================
