---------------------------- MODULE Subscriptions ----------------------------
(***************************************************************************)
(* The table subscriptions and the data-layer calls on it.                 *)
(* saveSubscriptions walks through a list: for each feed it asks whether   *)
(* the user has it, then inserts or updates.  Each statement commits by    *)
(* itself, so two saves of one user (an upload and a subscribe, two tabs,  *)
(* a doubled click) and an unsubscribe interleave between any two of them, *)
(* and a failure leaves the list half saved.                               *)
(*                                                                         *)
(* Every statement names one userId, so one user's rows are the whole      *)
(* table; the table has no unique key on the url.                          *)
(***************************************************************************)
EXTENDS Naturals, Sequences

CONSTANTS
    Urls,
    Names,
    Lists,      \* the lists a save may be given
    Requests,   \* identities of saves; one that ended may start again
    MaxIds      \* bound: rows inserted in one behaviour

Entries == [url : Urls, name : Names]

ASSUME ListsAssumption == \A l \in Lists : l \in Seq(Entries) /\ l # <<>>

ASSUME MaxIdsAssumption == MaxIds \in Nat

VARIABLES
    subs,      \* the rows [id, url, name]
    nextId,    \* AUTO_INCREMENT
    pc,        \* what each save does next, or how it ended
    list,      \* the list it was given
    at,        \* its `first': the position it has reached
    removed,   \* history: urls an unsubscribe has deleted since it began
    raced      \* history: urls two saves were about to insert at a time

vars == <<subs, nextId, pc, list, at, removed, raced>>

Ended == {"idle", "saved", "failed"}

Rows == [id : 1..MaxIds, url : Urls, name : Names]

TypeOK ==
    /\ subs \in SUBSET Rows
    /\ nextId \in 1..(MaxIds + 1)
    /\ pc \in [Requests -> Ended \cup {"select", "insert", "update"}]
    /\ list \in [Requests -> Lists \cup {<<>>}]
    /\ at \in [Requests -> Nat]
    /\ removed \in [Requests -> SUBSET Urls]
    /\ raced \in SUBSET Urls
    /\ \A r \in Requests :
          IF pc[r] \in {"select", "insert", "update"}
             THEN at[r] \in DOMAIN list[r]
             ELSE at[r] \in 0..(Len(list[r]) + 1)

First(r) == list[r][at[r]]

Subscribed(u) == \E s \in subs : s.url = u

Init ==
    /\ subs = {}
    /\ nextId = 1
    /\ pc = [r \in Requests |-> "idle"]
    /\ list = [r \in Requests |-> <<>>]
    /\ at = [r \in Requests |-> 0]
    /\ removed = [r \in Requests |-> {}]
    /\ raced = {}

-----------------------------------------------------------------------------
(* saveSubscriptions *)

Save(r, l) ==
    /\ pc[r] \in Ended
    /\ pc' = [pc EXCEPT ![r] = "select"]
    /\ list' = [list EXCEPT ![r] = l]
    /\ at' = [at EXCEPT ![r] = 1]
    /\ removed' = [removed EXCEPT ![r] = {}]
    /\ UNCHANGED <<subs, nextId, raced>>

\* Mutant: the question is asked for any feed of the user.
SelectAny(r) ==
    /\ pc[r] = "select"
    /\ pc' = [pc EXCEPT ![r] = IF subs # {} THEN "update" ELSE "insert"]
    /\ UNCHANGED <<subs, nextId, list, at, removed, raced>>

\* Another save has found the url missing and is about to insert it, too.
Rivals(r) == {q \in Requests \ {r} : pc[q] = "insert" /\ First(q).url = First(r).url}

\* Mutant: the question is asked with the name, which may have changed.
SelectByName(r) ==
    /\ pc[r] = "select"
    /\ IF \E s \in subs : s.url = First(r).url /\ s.name = First(r).name
          THEN pc' = [pc EXCEPT ![r] = "update"] /\ UNCHANGED raced
          ELSE /\ pc' = [pc EXCEPT ![r] = "insert"]
               /\ raced' = IF Rivals(r) = {} THEN raced ELSE raced \cup {First(r).url}
    /\ UNCHANGED <<subs, nextId, list, at, removed>>

\* SELECT ... WHERE S.userId = ? AND S.rssUrl = ?
Select(r) ==
    /\ pc[r] = "select"
    /\ IF Subscribed(First(r).url)
          THEN pc' = [pc EXCEPT ![r] = "update"] /\ UNCHANGED raced
          ELSE /\ pc' = [pc EXCEPT ![r] = "insert"]
               /\ raced' = IF Rivals(r) = {} THEN raced ELSE raced \cup {First(r).url}
    /\ UNCHANGED <<subs, nextId, list, at, removed>>

Fail(r) ==
    /\ pc' = [pc EXCEPT ![r] = "failed"]
    /\ at' = at

\* Mutant: one step too far in the list.
AdvanceTooFar(r) ==
    /\ at' = [at EXCEPT ![r] = @ + 1]
    /\ pc' = [pc EXCEPT ![r] = "select"]

\* saveSubscriptionsInternal(connection, userId, subscriptions.slice(1))
Advance(r) ==
    /\ at' = [at EXCEPT ![r] = @ + 1]
    /\ pc' = [pc EXCEPT ![r] = IF at[r] = Len(list[r]) THEN "saved" ELSE "select"]

\* INSERT INTO subscriptions
Insert(r) ==
    /\ pc[r] = "insert"
    /\ nextId <= MaxIds
    /\ subs' = subs \cup {[id |-> nextId, url |-> First(r).url, name |-> First(r).name]}
    /\ nextId' = nextId + 1
    /\ Advance(r) \/ Fail(r)   \* its answer may be lost
    /\ UNCHANGED <<list, removed, raced>>

\* UPDATE subscriptions ... WHERE userId = ? AND rssUrl = ?: every row of the
\* url, or none if it is gone by now.
Update(r) ==
    /\ pc[r] = "update"
    /\ subs' = {IF s.url = First(r).url THEN [s EXCEPT !.name = First(r).name] ELSE s : s \in subs}
    /\ Advance(r) \/ Fail(r)   \* its answer may be lost
    /\ UNCHANGED <<nextId, list, removed, raced>>

\* A statement fails, or the process stops: the rest of the list is not saved.
StepFails(r) ==
    /\ pc[r] \in {"select", "insert", "update"}
    /\ Fail(r)
    /\ UNCHANGED <<subs, nextId, list, removed, raced>>

\* DELETE FROM subscriptions WHERE rssUrl = ? AND userId = ?
Unsubscribe(u) ==
    /\ subs' = {s \in subs : s.url # u}
    /\ removed' = IF Subscribed(u) THEN [r \in Requests |-> removed[r] \cup {u}] ELSE removed
    /\ UNCHANGED <<nextId, pc, list, at, raced>>

-----------------------------------------------------------------------------
Step(r) == Select(r) \/ Insert(r) \/ Update(r) \/ StepFails(r)

Next ==
    \/ \E r \in Requests : (\E l \in Lists : Save(r, l)) \/ Step(r)
    \/ \E u \in Urls : Unsubscribe(u)

Spec == Init /\ [][Next]_vars

-----------------------------------------------------------------------------
(* Properties. *)

\* What a save has dealt with stays subscribed: at any moment, and after it
\* was cut short, each feed of the list up to where it has come has a row,
\* unless the user unsubscribed it after the save began.
DealtWithIsSubscribed ==
    \A r \in Requests : \A i \in DOMAIN list[r] :
       i < at[r] => Subscribed(list[r][i].url) \/ list[r][i].url \in removed[r]

\* "saveSubscriptions treats duplicates as updates" (subscriptions.test.js:72),
\* but for saves that overlap: a feed is subscribed twice only if two saves
\* once stood between the SELECT that did not find it and their INSERTs.
TwiceOnlyIfRaced ==
    \A s, t \in subs : s # t /\ s.url = t.url => s.url \in raced

=============================================================================
