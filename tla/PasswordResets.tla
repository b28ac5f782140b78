--------------------------- MODULE PasswordResets ---------------------------
(***************************************************************************)
(* Password reset links: the table passwordResets, the two data-layer      *)
(* calls on it (requestResetId, useResetId) and the two handlers of        *)
(* auth.js that run them for a browser.  Each call is a chain of separate  *)
(* SQL statements outside any transaction, so concurrent requests          *)
(* interleave between any two of them, and a failure stops a chain where   *)
(* it stands.                                                              *)
(*                                                                         *)
(* A row is a record [id, user, born]; its uuid, which is what the link in *)
(* the mail carries, is as unique as its id and is not kept apart.         *)
(***************************************************************************)
EXTENDS Naturals, FiniteSets

CONSTANTS
    Users,
    Requests,   \* identities of HTTP requests; one that ended may start again
    NoRow,      \* "this request has no row yet"
    Keep,       \* how many links of one user are kept (5)
    Lifetime,   \* how long a link is honoured (2 hours), in ticks
    MaxIds,     \* bound: rows inserted in one behaviour
    MaxTime     \* bound: ticks of the clock in one behaviour

ASSUME KeepAssumption == Keep \in Nat \ {0}

ASSUME ClockAssumption == Lifetime \in Nat /\ MaxTime \in Nat /\ MaxIds \in Nat

Rows == [id : 1..MaxIds, user : Users, born : 0..MaxTime]

ASSUME NoRowAssumption == NoRow \notin Rows

VARIABLES
    rows,      \* the table passwordResets
    nextId,    \* its AUTO_INCREMENT
    now,       \* the database's NOW()
    pc,        \* what each request is about to do, or how it ended
    row,       \* the row it inserted, or the row of the link it was sent
    cutoff,    \* idCutoff
    issued,    \* history: every row ever inserted
    mailed,    \* the links that reached their user's mailbox
    consumed,  \* history: rows a use has deleted
    honoured,  \* history: links that changed a password
    raced      \* history: links that a request looked up before another,
               \* which had found them too, had deleted them

vars == <<rows, nextId, now, pc, row, cutoff, issued, mailed, consumed, honoured, raced>>

Working == {"cutoff", "prune", "mail", "consume", "change"}
Ended == {"idle", "failed", "sent", "refused", "honoured"}

TypeOK ==
    /\ rows \in SUBSET Rows
    /\ nextId \in 1..(MaxIds + 1)
    /\ now \in 0..MaxTime
    /\ pc \in [Requests -> Working \cup Ended]
    /\ row \in [Requests -> Rows \cup {NoRow}]
    /\ cutoff \in [Requests -> 0..MaxIds]
    /\ issued \in SUBSET Rows
    /\ mailed \in SUBSET Rows
    /\ consumed \in SUBSET Rows
    /\ honoured \in SUBSET Rows
    /\ raced \in SUBSET Rows

RowsOf(u) == {l \in rows : l.user = u}

Expired(l) == l.born + Lifetime <= now

Valid == {l \in rows : ~Expired(l)}

Init ==
    /\ rows = {}
    /\ nextId = 1
    /\ now = 0
    /\ pc = [r \in Requests |-> "idle"]
    /\ row = [r \in Requests |-> NoRow]
    /\ cutoff = [r \in Requests |-> 0]
    /\ issued = {}
    /\ mailed = {}
    /\ consumed = {}
    /\ honoured = {}
    /\ raced = {}

\* The promise of a statement is fulfilled and the chain goes on, or the
\* statement took effect but its answer is lost and the chain is rejected.
GoesTo(r, next) == \E p \in {next, "failed"} : pc' = [pc EXCEPT ![r] = p]

-----------------------------------------------------------------------------
(* POST /resetPassword: requestResetId, then the mail. *)

\* INSERT INTO passwordResets
Insert(r, u) ==
    /\ pc[r] \in Ended
    /\ nextId <= MaxIds
    /\ LET l == [id |-> nextId, user |-> u, born |-> now] IN
          /\ rows' = rows \cup {l}
          /\ issued' = issued \cup {l}
          /\ row' = [row EXCEPT ![r] = l]
    /\ nextId' = nextId + 1
    /\ cutoff' = [cutoff EXCEPT ![r] = 0]
    /\ GoesTo(r, "cutoff")
    /\ UNCHANGED <<now, mailed, consumed, honoured, raced>>

NewerOrSame(S, l) == {m \in S : m.id >= l.id}

\* Mutant: one row too many is kept (LIMIT 5,1).
SelectCutoffKeepsOneMore(r) ==
    /\ pc[r] = "cutoff"
    /\ LET mine == RowsOf(row[r].user) IN
          \/ /\ \E l \in mine : /\ Cardinality(NewerOrSame(mine, l)) = Keep + 1
                                /\ cutoff' = [cutoff EXCEPT ![r] = l.id]
             /\ GoesTo(r, "prune")
          \/ /\ Cardinality(mine) < Keep + 1
             /\ GoesTo(r, "mail")
             /\ cutoff' = cutoff
    /\ UNCHANGED <<rows, nextId, now, row, issued, mailed, consumed, honoured, raced>>

\* SELECT id ... ORDER BY id DESC LIMIT 4,1: the user's fifth newest row.
SelectCutoff(r) ==
    /\ pc[r] = "cutoff"
    /\ LET mine == RowsOf(row[r].user) IN
          \/ /\ \E l \in mine : /\ Cardinality(NewerOrSame(mine, l)) = Keep
                                /\ cutoff' = [cutoff EXCEPT ![r] = l.id]
             /\ GoesTo(r, "prune")
          \/ /\ Cardinality(mine) < Keep
             /\ GoesTo(r, "mail")
             /\ cutoff' = cutoff
    /\ UNCHANGED <<rows, nextId, now, row, issued, mailed, consumed, honoured, raced>>

\* Mutant: the DELETE forgets the user.
PruneEverybody(r) ==
    /\ pc[r] = "prune"
    /\ rows' = {l \in rows : l.id >= cutoff[r]}
    /\ GoesTo(r, "mail")
    /\ UNCHANGED <<nextId, now, row, cutoff, issued, mailed, consumed, honoured, raced>>

\* DELETE ... WHERE userId = ? AND id < ?
Prune(r) ==
    /\ pc[r] = "prune"
    /\ rows' = {l \in rows : ~(l.user = row[r].user /\ l.id < cutoff[r])}
    /\ GoesTo(r, "mail")
    /\ UNCHANGED <<nextId, now, row, cutoff, issued, mailed, consumed, honoured, raced>>

\* transport.sendMail
SendMail(r) ==
    /\ pc[r] = "mail"
    /\ mailed' = mailed \cup {row[r]}
    /\ GoesTo(r, "sent")
    /\ UNCHANGED <<rows, nextId, now, row, cutoff, issued, consumed, honoured, raced>>

-----------------------------------------------------------------------------
(* POST /resetPassword/:uuid: useResetId. *)

\* The requests, r aside, that have found link l and not deleted it.
Rivals(r, l) == {q \in Requests \ {r} : pc[q] = "consume" /\ row[q] = l}

\* Mutant: an empty result is not looked at.
LookupAlwaysFinds(r, l) ==
    /\ pc[r] \in Ended
    /\ row' = [row EXCEPT ![r] = l]
    /\ cutoff' = [cutoff EXCEPT ![r] = 0]
    /\ GoesTo(r, "consume")
    /\ raced' = IF Rivals(r, l) # {} THEN raced \cup {l} ELSE raced
    /\ UNCHANGED <<rows, nextId, now, issued, mailed, consumed, honoured>>

\* SELECT ... WHERE PR.uuid = ? AND PR.dateCreated > NOW() - 2 HOUR
Lookup(r, l) ==
    /\ pc[r] \in Ended
    /\ row' = [row EXCEPT ![r] = l]
    /\ cutoff' = [cutoff EXCEPT ![r] = 0]
    /\ \/ /\ l \in Valid
          /\ GoesTo(r, "consume")
          /\ raced' = IF Rivals(r, l) # {} THEN raced \cup {l} ELSE raced
       \/ /\ l \notin Valid
          /\ GoesTo(r, "refused")
          /\ raced' = raced
    /\ UNCHANGED <<rows, nextId, now, issued, mailed, consumed, honoured>>

\* Mutant: the DELETE is cut off and the password changed all the same.
ConsumeNothing(r) ==
    /\ pc[r] = "consume"
    /\ consumed' = consumed \cup {row[r]}
    /\ GoesTo(r, "change")
    /\ UNCHANGED <<rows, nextId, now, row, cutoff, issued, mailed, honoured, raced>>

\* DELETE FROM passwordResets WHERE uuid = ?  The code does not look at how
\* many rows it deleted.
Consume(r) ==
    /\ pc[r] = "consume"
    /\ rows' = rows \ {row[r]}
    /\ consumed' = consumed \cup {row[r]}
    /\ GoesTo(r, "change")
    /\ UNCHANGED <<nextId, now, row, cutoff, issued, mailed, honoured, raced>>

\* updateUserPassword: UPDATE userPasswords
ChangePassword(r) ==
    /\ pc[r] = "change"
    /\ honoured' = honoured \cup {row[r]}
    /\ GoesTo(r, "honoured")
    /\ UNCHANGED <<rows, nextId, now, row, cutoff, issued, mailed, consumed, raced>>

-----------------------------------------------------------------------------
\* A statement or the mail fails without effect, or the process stops: the
\* rest of the chain is never run.  A stopped process fails every request of
\* the moment, one step each.
StepFails(r) ==
    /\ pc[r] \in Working
    /\ pc' = [pc EXCEPT ![r] = "failed"]
    /\ UNCHANGED <<rows, nextId, now, row, cutoff, issued, mailed, consumed, honoured, raced>>

Tick ==
    /\ now < MaxTime
    /\ now' = now + 1
    /\ UNCHANGED <<rows, nextId, pc, row, cutoff, issued, mailed, consumed, honoured, raced>>

RequestReset(r) == (\E u \in Users : Insert(r, u)) \/ SelectCutoff(r) \/ Prune(r) \/ SendMail(r)

\* The link is one of those mailed, or names no row (NoRow).
UseReset(r) == (\E l \in mailed \cup {NoRow} : Lookup(r, l)) \/ Consume(r) \/ ChangePassword(r)

Next ==
    \/ \E r \in Requests : RequestReset(r) \/ UseReset(r) \/ StepFails(r)
    \/ Tick

Spec == Init /\ [][Next]_vars

-----------------------------------------------------------------------------
(* Properties. *)

\* "should limit the number of password reset guids per user": once a request
\* has pruned, at most Keep of its user's links no newer than its own are
\* left, whatever other requests for the same user did meanwhile.
KeptAtMost ==
    \A r \in Requests : pc[r] \in {"mail", "sent"} =>
       Cardinality({l \in RowsOf(row[r].user) : l.id <= row[r].id}) <= Keep

\* "We expect the last 5 ids to work": a link is refused only if it never
\* was one, was used before, is too old, or its user has been issued Keep newer ones, whether
\* their mails arrived or not.
NoUndueRefusal ==
    \A r \in Requests : pc[r] = "refused" =>
       LET l == row[r] IN
          \/ l = NoRow
          \/ l \in consumed
          \/ Expired(l)
          \/ Cardinality({m \in issued : m.user = l.user /\ m.id > l.id}) >= Keep

\* A link that changed a password is gone for good, so nobody who comes later
\* can use it again.
HonouredIsSpent == honoured \cap rows = {}

\* "should only honor each password reset guid once": as far as the code
\* keeps it.  A link changes a password a second time only if two requests had
\* found it before either deleted it (useResetId does not look at how many
\* rows its DELETE removed); a use that failed half way never comes back.
HonouredOnceUnlessRaced ==
    [][\A r \in Requests :
          ChangePassword(r) => row[r] \notin honoured \/ row[r] \in raced]_vars

=============================================================================
