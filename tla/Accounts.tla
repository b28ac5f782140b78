------------------------------- MODULE Accounts -------------------------------
(***************************************************************************)
(* How accounts come into being (src/server/data/users.js): registration   *)
(* with e-mail address and username, two INSERTs in a transaction, and the *)
(* first login through Google, a SELECT and two INSERTs that commit one by *)
(* one.  Requests run at the same time, statements fail, connections die   *)
(* and the server is restarted between any two statements.                 *)
(*                                                                         *)
(* The rows of an open transaction are seen by nobody, but hold the keys:  *)
(* an INSERT of the same e-mail address or username waits for its end.     *)
(***************************************************************************)
EXTENDS Naturals, FiniteSets

CONSTANTS
    Requests,   \* slots for requests under way
    Emails, Names, Profiles,
    NoForm,     \* an idle slot
    MaxId       \* bound: rows of the table users, those of lost rows included

ASSUME FormsAssumption ==
    /\ NoForm \notin Profiles \cup (Emails \X Names)
    /\ Profiles \cap (Emails \X Names) = {}
    /\ Profiles \cap (Emails \cup Names) = {}
    /\ Emails \cap Names = {}       \* a username has no `@' (auth.js:143)

ASSUME MaxIdAssumption == MaxId \in Nat

VARIABLES
    users,      \* ids of the committed rows of users
    passwords,  \* committed rows of userPasswords: [form, user]
    profiles,   \* rows of googleProfiles: [form, user]
    nextId,     \* auto-increment of users, not rolled back
    pc,         \* how far a request has come
    form,       \* what it was sent with: <<email, username>> or a profile
    own,        \* the user it has inserted or found
    reply,      \* how it will be answered
    abandoned   \* history: rows of users a Google login left without a profile

accountVars == <<users, passwords, profiles, nextId, pc, form, own, reply, abandoned>>

Registrations == Emails \X Names

Registering == {"starting",   \* before START TRANSACTION and INSERT INTO users
                "opened",     \* its row of users is in
                "registered", \* its row of userPasswords is in
                "undoing",    \* a statement failed: ROLLBACK
                "signingIn"}  \* committed: look the new user up

LoggingIn == {"seeking",      \* SELECT the profile
              "creating",     \* INSERT INTO users
              "linking"}      \* INSERT INTO googleProfiles

Phases == {"idle", "done", "hung"} \cup Registering \cup LoggingIn

Replies == {"none", "welcome", "emailTaken", "nameTaken", "error"}

TypeOK ==
    /\ users \in SUBSET (1..MaxId)
    /\ passwords \in SUBSET [form: Registrations, user: 1..MaxId]
    /\ profiles \in SUBSET [form: Profiles, user: 1..MaxId]
    /\ nextId \in 1..(MaxId + 1)
    /\ pc \in [Requests -> Phases]
    /\ form \in [Requests -> Registrations \cup Profiles \cup {NoForm}]
    /\ own \in [Requests -> 0..MaxId]
    /\ reply \in [Requests -> Replies]
    /\ abandoned \in SUBSET users

Init ==
    /\ users = {}
    /\ passwords = {}
    /\ profiles = {}
    /\ nextId = 1
    /\ pc = [r \in Requests |-> "idle"]
    /\ form = [r \in Requests |-> NoForm]
    /\ own = [r \in Requests |-> 0]
    /\ reply = [r \in Requests |-> "none"]
    /\ abandoned = {}

tables == <<users, passwords, profiles, nextId, abandoned>>

Go(r, phase) == pc' = [pc EXCEPT ![r] = phase]

End(r, answer) == Go(r, "done") /\ reply' = [reply EXCEPT ![r] = answer]

Start(r, f, phase) ==
    /\ pc[r] = "idle"
    /\ form' = [form EXCEPT ![r] = f]
    /\ Go(r, phase)
    /\ UNCHANGED <<tables, own, reply>>

\* A row of users, in a transaction or not, takes the next id.
TakeId(r) ==
    /\ nextId <= MaxId
    /\ own' = [own EXCEPT ![r] = nextId]
    /\ nextId' = nextId + 1

-----------------------------------------------------------------------------
(* createLocalUser, and POST /register around it. *)

Register(r) == \E f \in Registrations : Start(r, f, "starting")

\* Mutant: no START TRANSACTION.
InsertUserAtOnce(r) ==
    /\ pc[r] = "starting"
    /\ TakeId(r)
    /\ users' = users \cup {nextId}
    /\ Go(r, "opened")
    /\ UNCHANGED <<passwords, profiles, form, reply, abandoned>>

InsertUser(r) ==
    /\ pc[r] = "starting"
    /\ TakeId(r)
    /\ Go(r, "opened")
    /\ UNCHANGED <<users, passwords, profiles, form, reply, abandoned>>

SameKey(f, g) == f[1] = g[1] \/ f[2] = g[2]

\* Mutant: the table has no unique keys an open transaction would hold.
NeverWaits(r) == FALSE

\* Another open transaction holds the e-mail address or the username.
MustWait(r) == \E q \in Requests : pc[q] = "registered" /\ SameKey(form[q], form[r])

EmailTaken(r) == \E row \in passwords : row.form[1] = form[r][1]
NameTaken(r) == \E row \in passwords : row.form[2] = form[r][2]

\* Mutant: the handler takes the key's name for the other's.
InsertPasswordSwapped(r) ==
    /\ pc[r] = "opened"
    /\ ~MustWait(r)
    /\ IF EmailTaken(r) \/ NameTaken(r)
          THEN /\ Go(r, "undoing")
               /\ reply' = [reply EXCEPT ![r] = IF EmailTaken(r) THEN "nameTaken" ELSE "emailTaken"]
          ELSE Go(r, "registered") /\ UNCHANGED reply
    /\ UNCHANGED <<tables, form, own>>

\* The primary key, the e-mail address, is looked at first.
InsertPassword(r) ==
    /\ pc[r] = "opened"
    /\ ~MustWait(r)
    /\ IF EmailTaken(r) \/ NameTaken(r)
          THEN /\ Go(r, "undoing")
               /\ reply' = [reply EXCEPT ![r] = IF EmailTaken(r) THEN "emailTaken" ELSE "nameTaken"]
          ELSE Go(r, "registered") /\ UNCHANGED reply
    /\ UNCHANGED <<tables, form, own>>

\* A statement is refused, a wait for a key included that times out or ends
\* as the victim of a deadlock.
StatementFails(r) ==
    /\ pc[r] \in {"starting", "opened"}
    /\ Go(r, "undoing")
    /\ reply' = [reply EXCEPT ![r] = "error"]
    /\ UNCHANGED <<tables, form, own>>

\* The ROLLBACK that follows goes to the lost connection and is never answered.
ConnectionLost(r) ==
    /\ pc[r] \in {"starting", "opened"}
    /\ Go(r, "hung")
    /\ UNCHANGED <<tables, form, own, reply>>

Rollback(r) ==
    /\ pc[r] = "undoing"
    /\ End(r, reply[r])
    /\ UNCHANGED <<tables, form, own>>

\* Its error takes the place of the one that led to it.
RollbackFails(r) ==
    /\ pc[r] = "undoing"
    /\ End(r, "error")
    /\ UNCHANGED <<tables, form, own>>

Store(r) ==
    /\ users' = users \cup {own[r]}
    /\ passwords' = passwords \cup {[form |-> form[r], user |-> own[r]]}

Commit(r) ==
    /\ pc[r] = "registered"
    /\ Store(r)
    /\ Go(r, "signingIn")
    /\ UNCHANGED <<profiles, nextId, form, own, reply, abandoned>>

\* Mutant: an error of COMMIT is not looked at.
CommitFailsUnseen(r) ==
    /\ pc[r] = "registered"
    /\ Store(r) \/ UNCHANGED <<users, passwords>>
    /\ End(r, "welcome")
    /\ UNCHANGED <<profiles, nextId, form, own, abandoned>>

\* COMMIT is not answered well: it was done, or the transaction is gone.
CommitFails(r) ==
    /\ pc[r] = "registered"
    /\ Store(r) \/ UNCHANGED <<users, passwords>>
    /\ End(r, "error")
    /\ UNCHANGED <<profiles, nextId, form, own, abandoned>>

\* findUserByLocalAuth with the address and the password just stored.
FindUser(r) ==
    /\ pc[r] = "signingIn"
    /\ \E row \in passwords : row.form[1] = form[r][1] /\ own' = [own EXCEPT ![r] = row.user]
    /\ End(r, "welcome")
    /\ UNCHANGED <<tables, form>>

FindFails(r) ==
    /\ pc[r] = "signingIn"
    /\ End(r, "error")
    /\ UNCHANGED <<tables, form, own>>

-----------------------------------------------------------------------------
(* findOrCreateUserByGoogleIdentifier. *)

GoogleReturn(r) == \E p \in Profiles : Start(r, p, "seeking")

Linked(r) == {row \in profiles : row.form = form[r]}

Seek(r) ==
    /\ pc[r] = "seeking"
    /\ IF Linked(r) = {}
          THEN Go(r, "creating") /\ UNCHANGED <<own, reply>>
          ELSE /\ \E row \in Linked(r) : own' = [own EXCEPT ![r] = row.user]
               /\ End(r, "welcome")
    /\ UNCHANGED <<tables, form>>

CreateUser(r) ==
    /\ pc[r] = "creating"
    /\ TakeId(r)
    /\ users' = users \cup {nextId}
    /\ Go(r, "linking")
    /\ UNCHANGED <<passwords, profiles, form, reply, abandoned>>

Abandon(r) == abandoned' = abandoned \cup {own[r]}

\* Mutant: an error of the second INSERT is taken for success.
LinkUnchecked(r) ==
    /\ pc[r] = "linking"
    /\ IF Linked(r) = {}
          THEN /\ profiles' = profiles \cup {[form |-> form[r], user |-> own[r]]}
               /\ UNCHANGED abandoned
          ELSE UNCHANGED profiles /\ Abandon(r)
    /\ End(r, "welcome")
    /\ UNCHANGED <<users, passwords, nextId, form, own>>

\* The profile is a primary key: of two first logins one is too late.
Link(r) ==
    /\ pc[r] = "linking"
    /\ IF Linked(r) = {}
          THEN /\ profiles' = profiles \cup {[form |-> form[r], user |-> own[r]]}
               /\ End(r, "welcome")
               /\ UNCHANGED abandoned
          ELSE UNCHANGED profiles /\ End(r, "error") /\ Abandon(r)
    /\ UNCHANGED <<users, passwords, nextId, form, own>>

\* Mutant: no .fail, the callback is not called.
GoogleFailsSilently(r) ==
    /\ pc[r] \in LoggingIn
    /\ Go(r, "hung")
    /\ UNCHANGED <<tables, own, form, reply>>

\* A statement is not answered well; an INSERT may have been done all the same.
GoogleFails(r) ==
    /\ \/ pc[r] \in {"seeking", "creating"} /\ UNCHANGED <<tables, own>>
       \/ /\ pc[r] = "creating"
          /\ TakeId(r)
          /\ users' = users \cup {nextId}
          /\ abandoned' = abandoned \cup {nextId}
          /\ UNCHANGED <<passwords, profiles>>
       \/ /\ pc[r] = "linking"
          /\ Abandon(r)
          /\ UNCHANGED <<users, passwords, profiles, nextId, own>>
       \/ /\ pc[r] = "linking"
          /\ Linked(r) = {}
          /\ profiles' = profiles \cup {[form |-> form[r], user |-> own[r]]}
          /\ UNCHANGED <<users, passwords, nextId, own, abandoned>>
    /\ End(r, "error")
    /\ UNCHANGED form

-----------------------------------------------------------------------------
\* The answer is on its way, nothing of the request is left.
Finish(r) ==
    /\ pc[r] = "done"
    /\ Go(r, "idle")
    /\ form' = [form EXCEPT ![r] = NoForm]
    /\ own' = [own EXCEPT ![r] = 0]
    /\ reply' = [reply EXCEPT ![r] = "none"]
    /\ UNCHANGED tables

\* The server is stopped and started: requests and transactions are gone.
Crash ==
    /\ \E r \in Requests : pc[r] # "idle"
    /\ abandoned' = abandoned \cup {own[r] : r \in {q \in Requests : pc[q] = "linking"}}
    /\ pc' = [r \in Requests |-> "idle"]
    /\ form' = [r \in Requests |-> NoForm]
    /\ own' = [r \in Requests |-> 0]
    /\ reply' = [r \in Requests |-> "none"]
    /\ UNCHANGED <<users, passwords, profiles, nextId>>

RegisterSteps(r) ==
    \/ InsertUser(r) \/ InsertPassword(r) \/ StatementFails(r) \/ ConnectionLost(r)
    \/ Rollback(r) \/ RollbackFails(r)
    \/ Commit(r) \/ CommitFails(r)
    \/ FindUser(r) \/ FindFails(r)

GoogleSteps(r) == Seek(r) \/ CreateUser(r) \/ Link(r) \/ GoogleFails(r)

Next ==
    \/ \E r \in Requests :
          Register(r) \/ RegisterSteps(r) \/ GoogleReturn(r) \/ GoogleSteps(r) \/ Finish(r)
    \/ Crash

Spec == Init /\ [][Next]_accountVars

-----------------------------------------------------------------------------
(* Properties. *)

\* The accounts there are: who has a password, who a Google profile.
accounts ==
    {[user |-> row.user, keys |-> {row.form[1], row.form[2]}] : row \in passwords}
    \cup {[user |-> row.user, keys |-> {row.form}] : row \in profiles}

Owners == {row.user : row \in passwords \cup profiles}

\* Whatever fails between the statements, the two tables and the keys behave
\* like a store that opens whole accounts, each with a user and keys of its own.
Promise == INSTANCE AccountStore WITH
    Accounts <- [user: 1..MaxId, keys: {{f[1], f[2]} : f \in Registrations} \cup {{p} : p \in Profiles}]

OpensWholeAccounts == Promise!Spec

\* createLocalUser is "a transaction" (users.js:65): a row of users without an
\* account is never left by a registration, only by a Google login that is
\* under way, or was cut between its INSERTs or overtaken by another.
OnlyGoogleLeavesRows ==
    \A u \in users :
       \/ u \in Owners
       \/ u \in abandoned
       \/ \E r \in Requests : pc[r] = "linking" /\ own[r] = u

\* "That email (username) has already been registered" is said only when it
\* has, by somebody else, and what the request had inserted is gone.
TakenIsTrue ==
    \A r \in Requests :
       reply[r] \in {"emailTaken", "nameTaken"} =>
          /\ IF reply[r] = "emailTaken" THEN EmailTaken(r) ELSE NameTaken(r)
          /\ own[r] \notin users

\* Who is welcomed is logged in as the owner of the account that belongs to
\* the address or the profile sent, whoever else is creating it meanwhile.
WelcomedAsOwner ==
    \A r \in Requests :
       reply[r] = "welcome" => [form |-> form[r], user |-> own[r]] \in passwords \cup profiles

=============================================================================
