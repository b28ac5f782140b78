--------------------------- MODULE ConnectionPool ---------------------------
(***************************************************************************)
(* The pool of MySQL connections every call of the data layer goes        *)
(* through: database.getPooledConnection() (cauldron), the pool of the     *)
(* mysql driver, and the promise chains of src/server/data/*.js that take  *)
(* a connection, send statements one after the other and release it.       *)
(*                                                                         *)
(* Node runs one callback at a time.  A state change caused by the network *)
(* (a handshake, an answer, a lost connection) is a new turn of the event  *)
(* loop and starts only when every nextTick callback and every promise     *)
(* reaction of the previous turn has run: see Quiet.  Within a turn the    *)
(* calls interleave freely.                                                *)
(***************************************************************************)
EXTENDS Naturals, Sequences, FiniteSets

CONSTANTS
    Calls,          \* identities of data-layer calls; an idle one may start again
    ResetCalls,     \* the calls that are passwordResets.useResetId
    SignupCalls,    \* the calls that are users.createLocalUser
    Conns,          \* identities of connections
    NoConn,         \* "holds no connection"
    Limit,          \* connectionLimit
    MaxStatements,  \* bound: statements an ordinary call sends
    MaxLosses       \* bound: connections lost or refused in one behaviour

ASSUME CallsAssumption ==
    /\ ResetCalls \subseteq Calls
    /\ SignupCalls \subseteq Calls
    /\ ResetCalls \cap SignupCalls = {}

ASSUME ConnsAssumption == NoConn \notin Conns

ASSUME LimitAssumption ==
    /\ Limit \in Nat \ {0}
    /\ MaxStatements \in Nat \ {0}
    /\ MaxLosses \in Nat

VARIABLES
    all,     \* _allConnections
    free,    \* _freeConnections, oldest first
    queue,   \* _connectionQueue: the calls whose callbacks wait
    pc,      \* what each call is doing
    conn,    \* the connection each call has been given
    todo,    \* statements of the call not answered yet
    losses   \* connections lost so far

poolVars == <<all, free, queue>>
vars == <<all, free, queue, pc, conn, todo, losses>>

Phases == {"idle",        \* not started, or finished
           "connecting",  \* the pool is opening a connection for it
           "waiting",     \* its callback is in the queue
           "retrying",    \* taken off the queue to ask the pool again
           "running",     \* has a connection, no statement on its way
           "querying",    \* a statement is on its way
           "failing",     \* the statement failed, its chain is rejected
           "hung"}        \* sent a statement that is never answered

MaxTodo == IF MaxStatements > 4 THEN MaxStatements ELSE 4

TypeOK ==
    /\ all \in SUBSET Conns
    /\ free \in Seq(Conns)
    /\ queue \in Seq(Calls)
    /\ pc \in [Calls -> Phases]
    /\ conn \in [Calls -> Conns \cup {NoConn}]
    /\ todo \in [Calls -> 0..MaxTodo]
    /\ losses \in 0..MaxLosses

Members(s) == {s[i] : i \in DOMAIN s}

Without(s, i) == [j \in 1..(Len(s) - 1) |-> IF j < i THEN s[j] ELSE s[j + 1]]

\* Nothing is left to run in this turn of the event loop.
Quiet == \A t \in Calls : pc[t] \notin {"retrying", "running", "failing"}

\* How many statements the call will send.  useResetId: SELECT, DELETE.
\* createLocalUser: START TRANSACTION, two INSERTs, COMMIT.
Statements(t) ==
    IF t \in ResetCalls THEN {2}
    ELSE IF t \in SignupCalls THEN {4}
    ELSE 1..MaxStatements

Init ==
    /\ all = {}
    /\ free = <<>>
    /\ queue = <<>>
    /\ pc = [t \in Calls |-> "idle"]
    /\ conn = [t \in Calls |-> NoConn]
    /\ todo = [t \in Calls |-> 0]
    /\ losses = 0

-----------------------------------------------------------------------------
(* Pool.getConnection: the first free connection, else a new one if the   *)
(* limit allows, else wait.  A call asks when it starts and, taken off the *)
(* queue because a connection died, asks again.                            *)

Asks(t) == pc[t] \in {"idle", "retrying"}

TakeFree(t) ==
    /\ Asks(t)
    /\ free # <<>>
    /\ free' = Tail(free)
    /\ pc' = [pc EXCEPT ![t] = "running"]
    /\ conn' = [conn EXCEPT ![t] = Head(free)]
    /\ \E n \in Statements(t) : todo' = [todo EXCEPT ![t] = n]
    /\ UNCHANGED <<all, queue, losses>>

Create(t) ==
    /\ Asks(t)
    /\ free = <<>>
    /\ Cardinality(all) < Limit
    /\ \E c \in Conns \ (all \cup {conn[u] : u \in Calls}) :
          /\ all' = all \cup {c}
          /\ conn' = [conn EXCEPT ![t] = c]
    /\ pc' = [pc EXCEPT ![t] = "connecting"]
    /\ UNCHANGED <<free, queue, todo, losses>>

Enqueue(t) ==
    /\ Asks(t)
    /\ free = <<>>
    /\ Cardinality(all) >= Limit
    /\ queue' = Append(queue, t)
    /\ pc' = [pc EXCEPT ![t] = "waiting"]
    /\ UNCHANGED <<all, free, conn, todo, losses>>

Connected(t) ==
    /\ Quiet
    /\ pc[t] = "connecting"
    /\ pc' = [pc EXCEPT ![t] = "running"]
    /\ \E n \in Statements(t) : todo' = [todo EXCEPT ![t] = n]
    /\ UNCHANGED <<all, free, queue, conn, losses>>

-----------------------------------------------------------------------------
(* Losing a connection.  The driver reports it once, on "end" or "error": *)
(* the connection leaves the pool, wherever it is, and the call that has   *)
(* waited longest asks the pool again; `loser' is then told of the error.  *)

\* Mutant: the end of _removeConnection does not wake the queue.
DropNoWake(c, pcAfter) ==
    /\ Quiet
    /\ losses < MaxLosses
    /\ losses' = losses + 1
    /\ all' = all \ {c}
    /\ IF \E i \in DOMAIN free : free[i] = c
          THEN free' = Without(free, CHOOSE i \in DOMAIN free : free[i] = c)
          ELSE free' = free
    /\ queue' = queue
    /\ pc' = pcAfter

\* Mutant: the free list keeps a connection that ended.
DropKeepsFree(c, pcAfter) ==
    /\ Quiet
    /\ losses < MaxLosses
    /\ losses' = losses + 1
    /\ all' = all \ {c}
    /\ free' = free
    /\ IF queue = <<>>
          THEN /\ queue' = queue
               /\ pc' = pcAfter
          ELSE /\ queue' = Tail(queue)
               /\ pc' = [pcAfter EXCEPT ![Head(queue)] = "retrying"]

Drop(c, pcAfter) ==
    /\ Quiet
    /\ losses < MaxLosses
    /\ losses' = losses + 1
    /\ all' = all \ {c}
    /\ IF \E i \in DOMAIN free : free[i] = c
          THEN free' = Without(free, CHOOSE i \in DOMAIN free : free[i] = c)
          ELSE free' = free
    /\ IF queue = <<>>
          THEN /\ queue' = queue
               /\ pc' = pcAfter
          ELSE /\ queue' = Tail(queue)
               /\ pc' = [pcAfter EXCEPT ![Head(queue)] = "retrying"]

\* connect() calls back with an error: the promise of the connection is
\* rejected and the call ends without one.
ConnectFails(t) ==
    /\ pc[t] = "connecting"
    /\ Drop(conn[t], [pc EXCEPT ![t] = "idle"])
    /\ conn' = [conn EXCEPT ![t] = NoConn]
    /\ UNCHANGED todo

\* An open connection ends: in use, free, or forgotten by its call.
LoseConnection(c) ==
    /\ c \in all
    /\ \A t \in Calls : pc[t] = "connecting" => conn[t] # c
    /\ Drop(c, [t \in Calls |-> IF pc[t] = "querying" /\ conn[t] = c
                                THEN "failing" ELSE pc[t]])
    /\ UNCHANGED <<conn, todo>>

-----------------------------------------------------------------------------
(* The statements of a call. *)

\* A statement put on a dead connection is never answered: the driver does
\* not start it and does not call back.
Send(t) ==
    pc' = [pc EXCEPT ![t] = IF conn[t] \in all THEN "querying" ELSE "hung"]

\* Mutant: the chain does not stop after its last statement.
SendOneMore(t) ==
    /\ pc[t] = "running"
    /\ Send(t)
    /\ UNCHANGED <<poolVars, conn, todo, losses>>

SendNext(t) ==
    /\ pc[t] = "running"
    /\ todo[t] > 0
    /\ Send(t)
    /\ UNCHANGED <<poolVars, conn, todo, losses>>

Answered(t) ==
    /\ Quiet
    /\ pc[t] = "querying"
    /\ pc' = [pc EXCEPT ![t] = "running"]
    /\ todo' = [todo EXCEPT ![t] = @ - 1]
    /\ UNCHANGED <<poolVars, conn, losses>>

StatementFails(t) ==
    /\ Quiet
    /\ pc[t] = "querying"
    /\ pc' = [pc EXCEPT ![t] = "failing"]
    /\ UNCHANGED <<poolVars, conn, todo, losses>>

\* createLocalUser: START TRANSACTION or an INSERT failed.
MustRollback(t) == pc[t] = "failing" /\ t \in SignupCalls /\ todo[t] > 1

Rollback(t) ==
    /\ MustRollback(t)
    /\ todo' = [todo EXCEPT ![t] = 1]
    /\ Send(t)
    /\ UNCHANGED <<poolVars, conn, losses>>

-----------------------------------------------------------------------------
(* The end of a call. *)

Finish(t) ==
    /\ conn' = [conn EXCEPT ![t] = NoConn]
    /\ todo' = [todo EXCEPT ![t] = 0]

\* Mutant: a call releases with .then in place of .fin.
AnyFailed(t) == pc[t] = "failing" /\ ~MustRollback(t)

\* useResetId attaches its .fin to the DELETE only: when the SELECT fails
\* nothing releases the connection.
SelectFailed(t) == pc[t] = "failing" /\ t \in ResetCalls /\ todo[t] = 2

Ends(t) ==
    \/ pc[t] = "running" /\ todo[t] = 0
    \/ pc[t] = "failing" /\ ~MustRollback(t) /\ ~SelectFailed(t)

\* .fin: hand the connection to the call that has waited longest, else put
\* it back.
Release(t) ==
    /\ Ends(t)
    /\ conn[t] \in all
    /\ IF queue = <<>>
          THEN /\ free' = Append(free, conn[t])
               /\ pc' = [pc EXCEPT ![t] = "idle"]
               /\ queue' = queue
               /\ Finish(t)
          ELSE LET next == Head(queue) IN
               /\ queue' = Tail(queue)
               /\ pc' = [pc EXCEPT ![t] = "idle", ![next] = "running"]
               /\ conn' = [conn EXCEPT ![t] = NoConn, ![next] = conn[t]]
               /\ \E n \in Statements(next) :
                     todo' = [todo EXCEPT ![t] = 0, ![next] = n]
               /\ free' = free
    /\ UNCHANGED <<all, losses>>

\* .fin on a connection that left the pool: release() throws, the call is
\* rejected, the pool does not notice.
ReleaseDead(t) ==
    /\ Ends(t)
    /\ conn[t] \notin all
    /\ pc' = [pc EXCEPT ![t] = "idle"]
    /\ Finish(t)
    /\ UNCHANGED <<poolVars, losses>>

\* useResetId finds no live row for the id and returns false: the
\* connection is neither released nor used again.
ResetNotFound(t) ==
    /\ Quiet
    /\ pc[t] = "querying" /\ t \in ResetCalls /\ todo[t] = 2
    /\ pc' = [pc EXCEPT ![t] = "idle"]
    /\ Finish(t)
    /\ UNCHANGED <<poolVars, losses>>

ResetSelectFailed(t) ==
    /\ SelectFailed(t)
    /\ pc' = [pc EXCEPT ![t] = "idle"]
    /\ Finish(t)
    /\ UNCHANGED <<poolVars, losses>>

-----------------------------------------------------------------------------
GetConnection(t) == TakeFree(t) \/ Create(t) \/ Enqueue(t)

\* What a call does by itself before the turn of the event loop ends.
Runs(t) ==
    \/ SendNext(t)
    \/ Rollback(t)
    \/ Release(t)
    \/ ReleaseDead(t)
    \/ ResetSelectFailed(t)

\* What the database answers.
Answers(t) ==
    \/ Connected(t)
    \/ ConnectFails(t)
    \/ Answered(t)
    \/ StatementFails(t)
    \/ ResetNotFound(t)

Next ==
    \/ \E t \in Calls : GetConnection(t) \/ Runs(t) \/ Answers(t)
    \/ \E c \in Conns : LoseConnection(c)

Spec == Init /\ [][Next]_vars

\* Callbacks that are due run; the event loop polls every ready socket in
\* each round, so an answer is not passed over for ever.  Nobody is obliged
\* to start a call, and no connection has to be lost.
Fairness ==
    \A t \in Calls :
       /\ WF_vars(Runs(t))
       /\ WF_vars(pc[t] = "retrying" /\ GetConnection(t))
       /\ SF_vars(Answers(t))

FairSpec == Spec /\ Fairness

-----------------------------------------------------------------------------
(* Properties. *)

\* No connection is ever used by two calls, or given away while it is in use:
\* a transaction of createLocalUser would otherwise mix with somebody's
\* statements.  What lies in the free list is open, listed once and nobody's
\* (getConnection, releaseConnection and _removeConnection together).
ExclusiveUse ==
    /\ \A t, u \in Calls : t # u /\ conn[t] # NoConn => conn[t] # conn[u]
    /\ \A i \in DOMAIN free :
          /\ free[i] \in all
          /\ \A t \in Calls : conn[t] # free[i]
          /\ \A j \in DOMAIN free : i # j => free[i] # free[j]

\* A call waits only for a reason: while somebody is queued no connection is
\* free and the pool is full, but for the place that the call taken off the
\* queue by a lost connection is about to fill.
NoLostWakeup ==
    queue # <<>> =>
       /\ free = <<>>
       /\ \/ Cardinality(all) >= Limit
          \/ /\ Cardinality(all) >= Limit - 1
             /\ \E t \in Calls : pc[t] = "retrying"

\* "When you are done with a connection ... the connection will return to the
\* pool" (README of the driver): every open connection is free or belongs to
\* a call that is still under way.
ReturnedWhenDone ==
    \A c \in all : c \in Members(free) \/ \E t \in Calls : conn[t] = c

\* The connections nobody will ever release.
Leaked == {c \in all : c \notin Members(free) /\ \A t \in Calls : conn[t] # c}

\* Every path of every other promise chain releases, whatever fails on it and
\* whenever its connection dies: a connection is leaked only by useResetId, and
\* only while its first statement, the SELECT, is the one not finished.
OnlyKnownLeaks ==
    [][\A c \in Leaked' : c \in Leaked \/ \E t \in ResetCalls : conn[t] = c /\ todo[t] = 2]_vars

\* Every call ends, whether its connection or its statements fail or not, and
\* however many calls wait, with two exceptions: a sign-up whose transaction
\* lost its connection, for the ROLLBACK it then sends is never answered, and
\* anybody once the whole pool has leaked.
EveryCallEnds ==
    \A t \in Calls :
       pc[t] # "idle" ~> \/ pc[t] = "idle"
                         \/ t \in SignupCalls /\ pc[t] = "hung"
                         \/ Cardinality(Leaked) = Limit

=============================================================================
