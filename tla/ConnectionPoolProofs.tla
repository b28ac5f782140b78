------------------------ MODULE ConnectionPoolProofs ------------------------
(***************************************************************************)
(* No two calls ever use one connection, and no call waits while the pool  *)
(* could serve it: for any number of calls, any connection limit and any   *)
(* losses.  The inductive invariant adds to the two properties what the    *)
(* phases of a call say about its connection and about the queue.  Under   *)
(* it, step by step, only useResetId ever leaks a connection; and whoever  *)
(* waits, waits in order, for a call that is on its way to let one go.     *)
(***************************************************************************)
EXTENDS ConnectionPool, FiniteSetTheorems, SequenceTheorems, TLAPS

\* A call that is idle or asks for a connection holds none, an unanswered
\* statement is one of those still to be answered.
PhaseOK ==
    \A t \in Calls :
       /\ pc[t] \in {"idle", "waiting", "retrying"} => conn[t] = NoConn
       /\ pc[t] = "querying" => todo[t] > 0

\* The queue holds calls that wait, each once.
QueueOK ==
    \A i \in DOMAIN queue :
       /\ pc[queue[i]] = "waiting"
       /\ \A j \in DOMAIN queue : i # j => queue[i] # queue[j]

\* A turn of the event loop takes at most one call off the queue to ask again.
OneRetry ==
    \A t, u \in Calls : pc[t] = "retrying" /\ pc[u] = "retrying" => t = u

\* The inductive invariant.
IInv ==
    /\ TypeOK
    /\ IsFiniteSet(all)
    /\ PhaseOK
    /\ QueueOK
    /\ OneRetry
    /\ ExclusiveUse
    /\ NoLostWakeup

-----------------------------------------------------------------------------
\* Taking the first element off a sequence keeps the others in order.
LEMMA TailFacts ==
    ASSUME NEW S, NEW s \in Seq(S), s # <<>>
    PROVE  /\ Tail(s) \in Seq(S)
           /\ Head(s) = s[1]
           /\ 1 \in DOMAIN s
           /\ \A i \in DOMAIN Tail(s) : i + 1 \in DOMAIN s /\ Tail(s)[i] = s[i + 1]
           /\ \A i \in DOMAIN Tail(s) : i \in Nat /\ i # 0
  BY HeadTailProperties, LenProperties, EmptySeq

\* Appending to a sequence adds one element at its end.
LEMMA AppendFacts ==
    ASSUME NEW S, NEW s \in Seq(S), NEW e \in S
    PROVE  /\ Append(s, e) \in Seq(S)
           /\ \A i \in DOMAIN Append(s, e) :
                 \/ i \in DOMAIN s /\ Append(s, e)[i] = s[i]
                 \/ i = Len(s) + 1 /\ Append(s, e)[i] = e
           /\ Len(s) + 1 \notin DOMAIN s
  BY AppendProperties, LenProperties

\* Cutting one element out of a sequence (splice) keeps exactly the others.
LEMMA WithoutFacts ==
    ASSUME NEW S, NEW s \in Seq(S), NEW k \in DOMAIN s
    PROVE  /\ Without(s, k) \in Seq(S)
           /\ \A i \in DOMAIN Without(s, k) :
                 \E m \in DOMAIN s \ {k} : /\ Without(s, k)[i] = s[m]
                                           /\ m = IF i < k THEN i ELSE i + 1
           /\ \A i \in DOMAIN Without(s, k) : i \in Nat
  <1>1. Len(s) \in Nat /\ DOMAIN s = 1..Len(s) /\ Len(s) >= 1
    BY LenProperties
  <1>2. \A i \in 1..(Len(s) - 1) : (IF i < k THEN s[i] ELSE s[i + 1]) \in S
    BY <1>1, ElementOfSeq
  <1>3. Without(s, k) \in [1..(Len(s) - 1) -> S]
    BY <1>2 DEF Without
  <1>4. Without(s, k) \in Seq(S)
    BY <1>1, <1>3
  <1> QED
    BY <1>1, <1>3, <1>4 DEF Without

-----------------------------------------------------------------------------
\* Nothing is open, nobody waits.
LEMMA InitIInv == Init => IInv
  <1> SUFFICES ASSUME Init PROVE IInv
    OBVIOUS
  <1>1. TypeOK
    BY LimitAssumption DEF Init, TypeOK, Phases, MaxTodo
  <1>2. IsFiniteSet(all)
    BY FS_EmptySet DEF Init
  <1> QED
    BY <1>1, <1>2, EmptySeq DEF Init, IInv, PhaseOK, QueueOK, OneRetry, ExclusiveUse, NoLostWakeup

\* The number of statements of a call is within its bound.
LEMMA StatementsType == \A t \in Calls : Statements(t) \subseteq 0..MaxTodo
  BY LimitAssumption DEF Statements, MaxTodo

\* The first free connection goes to one call only: nobody waits, for one
\* was free, and the call that asked again no longer does.
LEMMA TakeFreeIInv == ASSUME IInv, NEW t \in Calls, TakeFree(t) PROVE IInv'
  <1> USE DEF TakeFree, Asks, IInv
  <1>1. /\ Tail(free) \in Seq(Conns)
        /\ Head(free) = free[1]
        /\ 1 \in DOMAIN free
        /\ \A i \in DOMAIN Tail(free) : i + 1 \in DOMAIN free /\ Tail(free)[i] = free[i + 1]
        /\ \A i \in DOMAIN Tail(free) : i \in Nat /\ i # 0
    BY TailFacts DEF TypeOK
  <1>2. Head(free) \in Conns
    BY <1>1, HeadTailProperties DEF TypeOK
  <1>3. TypeOK'
    BY <1>1, <1>2, StatementsType DEF TypeOK, Phases, MaxTodo
  <1>4. ExclusiveUse'
    BY <1>1 DEF ExclusiveUse, TypeOK
  <1>5. PhaseOK' /\ OneRetry'
    BY DEF PhaseOK, OneRetry, TypeOK
  <1>6. QueueOK' /\ NoLostWakeup'
    BY DEF QueueOK, NoLostWakeup, TypeOK
  <1> QED
    BY <1>3, <1>4, <1>5, <1>6

\* A new connection belongs to nobody yet, and fills the place that a call
\* taken off the queue may have been promised.
LEMMA CreateIInv == ASSUME IInv, NEW t \in Calls, Create(t) PROVE IInv'
  <1> USE DEF Create, Asks, IInv
  <1>1. PICK c \in Conns \ (all \cup {conn[u] : u \in Calls}) :
              all' = all \cup {c} /\ conn' = [conn EXCEPT ![t] = c]
    OBVIOUS
  <1>2. TypeOK'
    BY <1>1 DEF TypeOK, Phases
  <1>3. /\ IsFiniteSet(all')
        /\ Cardinality(all') = Cardinality(all) + 1
        /\ Cardinality(all) \in Nat
    BY <1>1, FS_AddElement, FS_CardinalityType
  <1>4. ExclusiveUse'
    BY <1>1 DEF ExclusiveUse, TypeOK
  <1>5. PhaseOK' /\ OneRetry'
    BY <1>1 DEF PhaseOK, OneRetry, TypeOK
  <1>6. QueueOK'
    BY DEF QueueOK, TypeOK
  <1>7. NoLostWakeup'
    BY <1>3, LimitAssumption DEF NoLostWakeup
  <1> QED
    BY <1>2, <1>3, <1>4, <1>5, <1>6, <1>7

\* A call is queued only behind a full pool that has nothing free.
LEMMA EnqueueIInv == ASSUME IInv, NEW t \in Calls, Enqueue(t) PROVE IInv'
  <1> USE DEF Enqueue, Asks, IInv
  <1>1. /\ Append(queue, t) \in Seq(Calls)
        /\ \A i \in DOMAIN Append(queue, t) :
              \/ i \in DOMAIN queue /\ Append(queue, t)[i] = queue[i]
              \/ i = Len(queue) + 1 /\ Append(queue, t)[i] = t
        /\ Len(queue) + 1 \notin DOMAIN queue
    BY AppendFacts DEF TypeOK
  <1>2. \A i \in DOMAIN queue : queue[i] \in Calls
    BY ElementOfSeq, LenProperties DEF TypeOK
  <1>3. TypeOK'
    BY <1>1 DEF TypeOK, Phases
  <1>4. QueueOK'
    BY <1>1, <1>2 DEF QueueOK, TypeOK
  <1>5. PhaseOK' /\ OneRetry' /\ ExclusiveUse'
    BY DEF PhaseOK, OneRetry, ExclusiveUse, TypeOK
  <1>6. NoLostWakeup'
    BY DEF NoLostWakeup
  <1> QED
    BY <1>3, <1>4, <1>5, <1>6

-----------------------------------------------------------------------------
\* What dropping a connection leaves of the free list: the connections that
\* were in it, each once, without the lost one.
LEMMA DropFree ==
    ASSUME IInv, NEW c, NEW pcAfter, Drop(c, pcAfter)
    PROVE  /\ free' \in Seq(Conns)
           /\ \A i \in DOMAIN free' : /\ free'[i] \in all \ {c}
                                      /\ \A u \in Calls : conn[u] # free'[i]
                                      /\ \A j \in DOMAIN free' : i # j => free'[i] # free'[j]
           /\ free = <<>> => free' = <<>>
  <1> USE DEF IInv
  <1>1. CASE \E k \in DOMAIN free : free[k] = c
    <2> DEFINE k == CHOOSE i \in DOMAIN free : free[i] = c
    <2>1. k \in DOMAIN free /\ free[k] = c /\ free' = Without(free, k)
      BY <1>1 DEF Drop
    <2> HIDE DEF k
    <2>2. /\ free' \in Seq(Conns)
          /\ \A i \in DOMAIN free' :
                \E m \in DOMAIN free \ {k} : /\ free'[i] = free[m]
                                             /\ m = IF i < k THEN i ELSE i + 1
          /\ \A i \in DOMAIN free' : i \in Nat
      BY <2>1, WithoutFacts DEF TypeOK
    <2>3. k \in Nat
      BY <2>1, LenProperties DEF TypeOK
    <2>4. \A i, j \in DOMAIN free' : i # j => free'[i] # free'[j]
      BY <2>2, <2>3 DEF ExclusiveUse
    <2>5. \A i \in DOMAIN free' : free'[i] \in all \ {c} /\ \A u \in Calls : conn[u] # free'[i]
      BY <2>1, <2>2 DEF ExclusiveUse
    <2>6. free # <<>>
      BY <1>1
    <2> QED
      BY <2>2, <2>4, <2>5, <2>6
  <1>2. CASE ~\E k \in DOMAIN free : free[k] = c
    <2>1. free' = free
      BY <1>2 DEF Drop
    <2> QED
      BY <1>2, <2>1 DEF TypeOK, ExclusiveUse
  <1> QED
    BY <1>1, <1>2

\* Dropping a connection takes at most one call off the queue, and leaves the
\* pool one connection short of what it was.
LEMMA DropQueue ==
    ASSUME IInv, NEW c, NEW pcAfter \in [Calls -> Phases], Drop(c, pcAfter),
           \A t \in Calls : pcAfter[t] # pc[t] =>
              pc[t] # "waiting" /\ pcAfter[t] \notin {"waiting", "retrying", "querying"}
    PROVE  /\ queue' \in Seq(Calls)
           /\ pc' \in [Calls -> Phases]
           /\ all' \subseteq all
           /\ IsFiniteSet(all')
           /\ losses' \in 0..MaxLosses
           /\ \A t \in Calls : pc'[t] = pcAfter[t] \/ (pc[t] = "waiting" /\ pc'[t] = "retrying")
           /\ QueueOK'
           /\ OneRetry'
           /\ NoLostWakeup'
  <1> USE DEF IInv
  <1>1. /\ IsFiniteSet(all')
        /\ Cardinality(all) \in Nat /\ Cardinality(all') \in Nat
        /\ Cardinality(all') >= Cardinality(all) - 1
    <2>1. all' = all \ {c}
      BY DEF Drop
    <2>2. /\ IsFiniteSet(all \ {c})
          /\ Cardinality(all \ {c}) = IF c \in all THEN Cardinality(all) - 1 ELSE Cardinality(all)
      BY FS_RemoveElement
    <2>3. Cardinality(all) \in Nat /\ Cardinality(all \ {c}) \in Nat
      BY <2>2, FS_CardinalityType
    <2> QED
      BY <2>1, <2>2, <2>3
  <1>2. losses' \in 0..MaxLosses
    BY LimitAssumption DEF Drop, TypeOK
  <1>3. \A t \in Calls : pc[t] # "retrying" /\ pcAfter[t] # "retrying"
    BY DEF Drop, Quiet
  <1>4. \A i \in DOMAIN queue : queue[i] \in Calls
    BY ElementOfSeq, LenProperties DEF TypeOK
  <1>5. CASE queue = <<>>
    BY <1>1, <1>2, <1>3, <1>5 DEF Drop, QueueOK, OneRetry, NoLostWakeup, TypeOK
  <1>6. CASE queue # <<>>
    <2>1. /\ Tail(queue) \in Seq(Calls)
          /\ Head(queue) = queue[1]
          /\ 1 \in DOMAIN queue
          /\ \A i \in DOMAIN Tail(queue) : i + 1 \in DOMAIN queue /\ Tail(queue)[i] = queue[i + 1]
          /\ \A i \in DOMAIN Tail(queue) : i \in Nat /\ i # 0
      BY <1>6, TailFacts DEF TypeOK
    <2>2. queue' = Tail(queue) /\ pc' = [pcAfter EXCEPT ![Head(queue)] = "retrying"]
      BY <1>6 DEF Drop
    <2>3. Head(queue) \in Calls /\ pc[Head(queue)] = "waiting"
      BY <2>1, <1>4 DEF QueueOK
    <2>4. pc' \in [Calls -> Phases] /\ pc'[Head(queue)] = "retrying"
      BY <2>2, <2>3 DEF Phases
    <2>5. \A t \in Calls : t # Head(queue) => pc'[t] = pcAfter[t]
      BY <2>2
    <2>6. \A i \in DOMAIN Tail(queue) : i + 1 # 1 /\ Tail(queue)[i] # Head(queue)
      BY <2>1 DEF QueueOK
    <2>7. \A i, j \in DOMAIN Tail(queue) : i # j => Tail(queue)[i] # Tail(queue)[j]
      BY <2>1 DEF QueueOK
    <2>8. \A i \in DOMAIN Tail(queue) : pc'[Tail(queue)[i]] = "waiting"
      BY <2>1, <2>5, <2>6, <1>4 DEF QueueOK
    <2>9. QueueOK'
      BY <2>2, <2>7, <2>8 DEF QueueOK
    <2>10. OneRetry'
      BY <2>5, <1>3 DEF OneRetry
    <2>11. NoLostWakeup'
      <3>1. free = <<>> /\ Cardinality(all) >= Limit
        BY <1>6, <1>3 DEF NoLostWakeup
      <3>2. free' = <<>>
        BY <3>1, DropFree
      <3>3. Cardinality(all') >= Limit - 1
        BY <3>1, <1>1, LimitAssumption
      <3> QED
        BY <3>2, <3>3, <2>3, <2>4 DEF NoLostWakeup
    <2> QED
      BY <1>1, <1>2, <2>1, <2>2, <2>3, <2>4, <2>5, <2>9, <2>10, <2>11 DEF Drop
  <1> QED
    BY <1>5, <1>6

\* A connection that cannot be opened leaves the pool and wakes a waiting call.
LEMMA ConnectFailsIInv == ASSUME IInv, NEW t \in Calls, ConnectFails(t) PROVE IInv'
  <1> DEFINE pcA == [pc EXCEPT ![t] = "idle"]
  <1>1. Drop(conn[t], pcA)
    BY DEF ConnectFails
  <1>2. pcA \in [Calls -> Phases]
    BY DEF IInv, TypeOK, Phases
  <1>3. \A u \in Calls : pcA[u] # pc[u] =>
              pc[u] # "waiting" /\ pcA[u] \notin {"waiting", "retrying", "querying"}
    BY DEF ConnectFails, IInv, TypeOK
  <1> HIDE DEF pcA
  <1>4. /\ queue' \in Seq(Calls)
        /\ pc' \in [Calls -> Phases]
        /\ all' \subseteq all
        /\ IsFiniteSet(all')
        /\ losses' \in 0..MaxLosses
        /\ \A u \in Calls : pc'[u] = pcA[u] \/ (pc[u] = "waiting" /\ pc'[u] = "retrying")
        /\ QueueOK' /\ OneRetry' /\ NoLostWakeup'
    BY <1>1, <1>2, <1>3, DropQueue
  <1>5. /\ free' \in Seq(Conns)
        /\ \A i \in DOMAIN free' : /\ free'[i] \in all \ {conn[t]}
                                   /\ \A u \in Calls : conn[u] # free'[i]
                                   /\ \A j \in DOMAIN free' : i # j => free'[i] # free'[j]
    BY <1>1, DropFree
  <1>6. all' = all \ {conn[t]} /\ conn' = [conn EXCEPT ![t] = NoConn] /\ todo' = todo
    BY <1>1 DEF ConnectFails, Drop
  <1>7. TypeOK'
    BY <1>4, <1>5, <1>6 DEF IInv, TypeOK
  <1>8. PhaseOK'
    BY <1>4, <1>6 DEF IInv, PhaseOK, TypeOK, pcA
  <1>9. ExclusiveUse'
    BY <1>5, <1>6, ConnsAssumption DEF IInv, ExclusiveUse, TypeOK
  <1> QED
    BY <1>4, <1>7, <1>8, <1>9 DEF IInv

\* A connection that ends leaves the pool and wakes a waiting call; only the
\* call that waited for its answer is told.
LEMMA LoseConnectionIInv == ASSUME IInv, NEW c \in Conns, LoseConnection(c) PROVE IInv'
  <1> DEFINE pcA == [t \in Calls |-> IF pc[t] = "querying" /\ conn[t] = c
                                     THEN "failing" ELSE pc[t]]
  <1>1. Drop(c, pcA)
    BY DEF LoseConnection
  <1>2. pcA \in [Calls -> Phases]
    BY DEF IInv, TypeOK, Phases
  <1>3. \A u \in Calls : pcA[u] # pc[u] =>
              pc[u] # "waiting" /\ pcA[u] \notin {"waiting", "retrying", "querying"}
    OBVIOUS
  <1> HIDE DEF pcA
  <1>4. /\ queue' \in Seq(Calls)
        /\ pc' \in [Calls -> Phases]
        /\ all' \subseteq all
        /\ IsFiniteSet(all')
        /\ losses' \in 0..MaxLosses
        /\ \A u \in Calls : pc'[u] = pcA[u] \/ (pc[u] = "waiting" /\ pc'[u] = "retrying")
        /\ QueueOK' /\ OneRetry' /\ NoLostWakeup'
    BY <1>1, <1>2, <1>3, DropQueue
  <1>5. /\ free' \in Seq(Conns)
        /\ \A i \in DOMAIN free' : /\ free'[i] \in all \ {c}
                                   /\ \A u \in Calls : conn[u] # free'[i]
                                   /\ \A j \in DOMAIN free' : i # j => free'[i] # free'[j]
    BY <1>1, DropFree
  <1>6. all' = all \ {c} /\ conn' = conn /\ todo' = todo
    BY <1>1 DEF LoseConnection, Drop
  <1>7. TypeOK'
    BY <1>4, <1>5, <1>6 DEF IInv, TypeOK
  <1>8. PhaseOK'
    BY <1>4, <1>6 DEF IInv, PhaseOK, TypeOK, pcA
  <1>9. ExclusiveUse'
    BY <1>5, <1>6 DEF IInv, ExclusiveUse
  <1> QED
    BY <1>4, <1>7, <1>8, <1>9 DEF IInv

-----------------------------------------------------------------------------
\* The steps of one call that leave the pool alone: nobody's connection
\* changes, the queue keeps its members and their phase.

\* An opened connection stays with its call.
LEMMA ConnectedIInv == ASSUME IInv, NEW t \in Calls, Connected(t) PROVE IInv'
  <1>1. TypeOK'
    BY StatementsType, LimitAssumption DEF Connected, IInv, TypeOK, Phases, MaxTodo, poolVars, PhaseOK
  <1>2. PhaseOK' /\ OneRetry' /\ ExclusiveUse'
    BY <1>1, LimitAssumption DEF Connected, IInv, TypeOK, PhaseOK, OneRetry, ExclusiveUse, poolVars
  <1>3. QueueOK' /\ NoLostWakeup'
    BY ElementOfSeq, LenProperties DEF Connected, IInv, TypeOK, QueueOK, NoLostWakeup, poolVars
  <1> QED
    BY <1>1, <1>2, <1>3 DEF Connected, IInv, poolVars

\* Sending a statement leaves the pool alone.
LEMMA SendNextIInv == ASSUME IInv, NEW t \in Calls, SendNext(t) PROVE IInv'
  <1>1. TypeOK'
    BY StatementsType, LimitAssumption DEF SendNext, IInv, TypeOK, Phases, MaxTodo, poolVars, PhaseOK, Send
  <1>2. PhaseOK' /\ OneRetry' /\ ExclusiveUse'
    BY <1>1, LimitAssumption DEF SendNext, IInv, TypeOK, PhaseOK, OneRetry, ExclusiveUse, poolVars, Send
  <1>3. QueueOK' /\ NoLostWakeup'
    BY ElementOfSeq, LenProperties DEF SendNext, IInv, TypeOK, QueueOK, NoLostWakeup, poolVars, Send
  <1> QED
    BY <1>1, <1>2, <1>3 DEF SendNext, IInv, poolVars

\* An answered statement leaves the pool alone.
LEMMA AnsweredIInv == ASSUME IInv, NEW t \in Calls, Answered(t) PROVE IInv'
  <1>1. TypeOK'
    BY StatementsType, LimitAssumption DEF Answered, IInv, TypeOK, Phases, MaxTodo, poolVars, PhaseOK
  <1>2. PhaseOK' /\ OneRetry' /\ ExclusiveUse'
    BY <1>1, LimitAssumption DEF Answered, IInv, TypeOK, PhaseOK, OneRetry, ExclusiveUse, poolVars
  <1>3. QueueOK' /\ NoLostWakeup'
    BY ElementOfSeq, LenProperties DEF Answered, IInv, TypeOK, QueueOK, NoLostWakeup, poolVars
  <1> QED
    BY <1>1, <1>2, <1>3 DEF Answered, IInv, poolVars

\* A failed statement leaves the pool alone.
LEMMA StatementFailsIInv == ASSUME IInv, NEW t \in Calls, StatementFails(t) PROVE IInv'
  <1>1. TypeOK'
    BY StatementsType, LimitAssumption DEF StatementFails, IInv, TypeOK, Phases, MaxTodo, poolVars, PhaseOK
  <1>2. PhaseOK' /\ OneRetry' /\ ExclusiveUse'
    BY <1>1, LimitAssumption DEF StatementFails, IInv, TypeOK, PhaseOK, OneRetry, ExclusiveUse, poolVars
  <1>3. QueueOK' /\ NoLostWakeup'
    BY ElementOfSeq, LenProperties DEF StatementFails, IInv, TypeOK, QueueOK, NoLostWakeup, poolVars
  <1> QED
    BY <1>1, <1>2, <1>3 DEF StatementFails, IInv, poolVars

\* The ROLLBACK of a sign-up leaves the pool alone.
LEMMA RollbackIInv == ASSUME IInv, NEW t \in Calls, Rollback(t) PROVE IInv'
  <1>1. TypeOK'
    BY StatementsType, LimitAssumption DEF Rollback, IInv, TypeOK, Phases, MaxTodo, poolVars, PhaseOK, Send, MustRollback
  <1>2. PhaseOK' /\ OneRetry' /\ ExclusiveUse'
    BY <1>1, LimitAssumption DEF Rollback, IInv, TypeOK, PhaseOK, OneRetry, ExclusiveUse, poolVars, Send, MustRollback
  <1>3. QueueOK' /\ NoLostWakeup'
    BY ElementOfSeq, LenProperties DEF Rollback, IInv, TypeOK, QueueOK, NoLostWakeup, poolVars, Send, MustRollback
  <1> QED
    BY <1>1, <1>2, <1>3 DEF Rollback, IInv, poolVars

\* Releasing a connection that has left the pool changes only the call.
LEMMA ReleaseDeadIInv == ASSUME IInv, NEW t \in Calls, ReleaseDead(t) PROVE IInv'
  <1>1. TypeOK'
    BY StatementsType, LimitAssumption DEF ReleaseDead, IInv, TypeOK, Phases, MaxTodo, poolVars, PhaseOK, Ends, Finish
  <1>2. PhaseOK' /\ OneRetry' /\ ExclusiveUse'
    BY <1>1, LimitAssumption, ConnsAssumption DEF ReleaseDead, IInv, TypeOK, PhaseOK, OneRetry, ExclusiveUse, poolVars, Ends, Finish
  <1>3. QueueOK' /\ NoLostWakeup'
    BY ElementOfSeq, LenProperties DEF ReleaseDead, IInv, TypeOK, QueueOK, NoLostWakeup, poolVars, Ends, Finish
  <1> QED
    BY <1>1, <1>2, <1>3 DEF ReleaseDead, IInv, poolVars

\* A reset without a row forgets its connection, which stays out of the
\* free list.
LEMMA ResetNotFoundIInv == ASSUME IInv, NEW t \in Calls, ResetNotFound(t) PROVE IInv'
  <1>1. TypeOK'
    BY StatementsType, LimitAssumption DEF ResetNotFound, IInv, TypeOK, Phases, MaxTodo, poolVars, PhaseOK, Finish
  <1>2. PhaseOK' /\ OneRetry' /\ ExclusiveUse'
    BY <1>1, LimitAssumption, ConnsAssumption DEF ResetNotFound, IInv, TypeOK, PhaseOK, OneRetry, ExclusiveUse, poolVars, Finish
  <1>3. QueueOK' /\ NoLostWakeup'
    BY ElementOfSeq, LenProperties DEF ResetNotFound, IInv, TypeOK, QueueOK, NoLostWakeup, poolVars, Finish
  <1> QED
    BY <1>1, <1>2, <1>3 DEF ResetNotFound, IInv, poolVars

\* A reset whose SELECT failed forgets its connection, too.
LEMMA ResetSelectFailedIInv == ASSUME IInv, NEW t \in Calls, ResetSelectFailed(t) PROVE IInv'
  <1>1. TypeOK'
    BY StatementsType, LimitAssumption DEF ResetSelectFailed, IInv, TypeOK, Phases, MaxTodo, poolVars, PhaseOK, SelectFailed, Finish
  <1>2. PhaseOK' /\ OneRetry' /\ ExclusiveUse'
    BY <1>1, LimitAssumption, ConnsAssumption DEF ResetSelectFailed, IInv, TypeOK, PhaseOK, OneRetry, ExclusiveUse, poolVars, SelectFailed, Finish
  <1>3. QueueOK' /\ NoLostWakeup'
    BY ElementOfSeq, LenProperties DEF ResetSelectFailed, IInv, TypeOK, QueueOK, NoLostWakeup, poolVars, SelectFailed, Finish
  <1> QED
    BY <1>1, <1>2, <1>3 DEF ResetSelectFailed, IInv, poolVars

-----------------------------------------------------------------------------
\* A released connection passes to the call that has waited longest, or to
\* the free list when nobody waits.
LEMMA ReleaseIInv == ASSUME IInv, NEW t \in Calls, Release(t) PROVE IInv'
  <1>0. pc[t] \in {"running", "failing"} /\ conn[t] \in all /\ conn[t] \in Conns
    BY DEF Release, Ends, IInv, TypeOK
  <1>1. CASE queue = <<>>
    <2>1. /\ free' = Append(free, conn[t])
          /\ pc' = [pc EXCEPT ![t] = "idle"]
          /\ conn' = [conn EXCEPT ![t] = NoConn]
          /\ todo' = [todo EXCEPT ![t] = 0]
          /\ UNCHANGED <<queue, all, losses>>
      BY <1>1 DEF Release, Finish
    <2>2. /\ Append(free, conn[t]) \in Seq(Conns)
          /\ \A i \in DOMAIN Append(free, conn[t]) :
                \/ i \in DOMAIN free /\ Append(free, conn[t])[i] = free[i]
                \/ i = Len(free) + 1 /\ Append(free, conn[t])[i] = conn[t]
          /\ Len(free) + 1 \notin DOMAIN free
      BY <1>0, AppendFacts DEF IInv, TypeOK
    <2>3. TypeOK'
      BY <2>1, <2>2, LimitAssumption DEF IInv, TypeOK, Phases, MaxTodo
    <2>4. PhaseOK' /\ OneRetry' /\ QueueOK' /\ NoLostWakeup'
      BY <1>1, <2>1 DEF IInv, TypeOK, PhaseOK, OneRetry, QueueOK, NoLostWakeup
    <2>5. ExclusiveUse'
      <3>1. \A u, w \in Calls : u # w /\ conn'[u] # NoConn => conn'[u] # conn'[w]
        BY <2>1 DEF IInv, TypeOK, ExclusiveUse
      <3>2. \A i \in DOMAIN free : free[i] # conn[t]
        BY DEF IInv, ExclusiveUse
      <3>3. \A i, j \in DOMAIN free' : i # j => free'[i] # free'[j]
        BY <2>1, <2>2, <3>2 DEF IInv, ExclusiveUse
      <3>4. \A i \in DOMAIN free' : free'[i] \in all' /\ \A u \in Calls : conn'[u] # free'[i]
        BY <1>0, <2>1, <2>2, ConnsAssumption DEF IInv, TypeOK, ExclusiveUse
      <3> QED
        BY <3>1, <3>3, <3>4 DEF ExclusiveUse
    <2> QED
      BY <2>1, <2>3, <2>4, <2>5 DEF IInv
  <1>2. CASE queue # <<>>
    <2> DEFINE next == Head(queue)
    <2>1. /\ Tail(queue) \in Seq(Calls)
          /\ next = queue[1]
          /\ 1 \in DOMAIN queue
          /\ \A i \in DOMAIN Tail(queue) : i + 1 \in DOMAIN queue /\ Tail(queue)[i] = queue[i + 1]
          /\ \A i \in DOMAIN Tail(queue) : i \in Nat /\ i # 0
      BY <1>2, TailFacts DEF IInv, TypeOK
    <2>2. next \in Calls /\ pc[next] = "waiting" /\ conn[next] = NoConn /\ next # t
      BY <1>0, <2>1, ElementOfSeq, LenProperties DEF IInv, TypeOK, QueueOK, PhaseOK
    <2>3. PICK n \in Statements(next) : todo' = [todo EXCEPT ![t] = 0, ![next] = n]
      BY <1>2 DEF Release
    <2>4. /\ queue' = Tail(queue)
          /\ pc' = [pc EXCEPT ![t] = "idle", ![next] = "running"]
          /\ conn' = [conn EXCEPT ![t] = NoConn, ![next] = conn[t]]
          /\ UNCHANGED <<free, all, losses>>
      BY <1>2 DEF Release
    <2> HIDE DEF next
    <2>5. TypeOK'
      <3>1. queue' \in Seq(Calls)
        BY <2>1, <2>4
      <3>2. n \in 0..MaxTodo /\ 0 \in 0..MaxTodo
        BY <2>2, StatementsType, LimitAssumption DEF MaxTodo
      <3>3. todo' \in [Calls -> 0..MaxTodo]
        BY <2>3, <3>2 DEF IInv, TypeOK
      <3>4. pc' \in [Calls -> Phases]
        BY <2>4 DEF IInv, TypeOK, Phases
      <3>5. conn' \in [Calls -> Conns \cup {NoConn}]
        BY <1>0, <2>4 DEF IInv, TypeOK
      <3> QED
        BY <2>4, <3>1, <3>3, <3>4, <3>5 DEF IInv, TypeOK
    <2>6. \A u \in Calls : \/ u = t /\ pc'[u] = "idle" /\ conn'[u] = NoConn
                           \/ u = next /\ pc'[u] = "running" /\ conn'[u] = conn[t]
                           \/ u \notin {t, next} /\ pc'[u] = pc[u] /\ conn'[u] = conn[u]
                                                 /\ todo'[u] = todo[u]
      BY <2>2, <2>3, <2>4 DEF IInv, TypeOK
    <2>7. PhaseOK' /\ OneRetry'
      BY <2>6 DEF IInv, PhaseOK, OneRetry
    <2>8. ExclusiveUse'
      <3>1. \A u, w \in Calls : u # w /\ conn'[u] # NoConn => conn'[u] # conn'[w]
        BY <1>0, <2>6, ConnsAssumption DEF IInv, ExclusiveUse
      <3>2. \A i \in DOMAIN free' : /\ free'[i] \in all'
                                    /\ \A u \in Calls : conn'[u] # free'[i]
                                    /\ \A j \in DOMAIN free' : i # j => free'[i] # free'[j]
        <4>1. \A i \in DOMAIN free : free[i] \in Conns
          BY ElementOfSeq, LenProperties DEF IInv, TypeOK
        <4>2. \A i \in DOMAIN free, u \in Calls : conn[u] # free[i] /\ free[i] # NoConn
          BY <4>1, ConnsAssumption DEF IInv, ExclusiveUse
        <4>3. \A i \in DOMAIN free, u \in Calls : conn'[u] # free[i]
          BY <4>2, <2>6
        <4> QED
          BY <4>3, <2>4 DEF IInv, ExclusiveUse
      <3> QED
        BY <3>1, <3>2 DEF ExclusiveUse
    <2>9. QueueOK'
      <3>1. \A i \in DOMAIN Tail(queue) : i + 1 # 1 /\ Tail(queue)[i] # next
        BY <2>1 DEF IInv, QueueOK
      <3>2. \A i \in DOMAIN Tail(queue) :
                Tail(queue)[i] \in Calls /\ pc[Tail(queue)[i]] = "waiting"
        BY <2>1, ElementOfSeq, LenProperties DEF IInv, TypeOK, QueueOK
      <3>3. \A i \in DOMAIN Tail(queue) : pc'[Tail(queue)[i]] = "waiting"
        BY <1>0, <2>6, <3>1, <3>2
      <3>4. \A i, j \in DOMAIN Tail(queue) : i # j => Tail(queue)[i] # Tail(queue)[j]
        BY <2>1 DEF IInv, QueueOK
      <3> QED
        BY <2>4, <3>3, <3>4 DEF QueueOK
    <2>10. NoLostWakeup'
      BY <1>0, <1>2, <2>2, <2>4, <2>6 DEF IInv, NoLostWakeup
    <2> QED
      BY <2>4, <2>5, <2>7, <2>8, <2>9, <2>10 DEF IInv
  <1> QED
    BY <1>1, <1>2

-----------------------------------------------------------------------------
\* Every step keeps the invariant: one of the lemmas above for each action.
LEMMA NextIInv == IInv /\ [Next]_vars => IInv'
  <1> SUFFICES ASSUME IInv, [Next]_vars PROVE IInv'
    OBVIOUS
  <1>1. ASSUME NEW t \in Calls, GetConnection(t) PROVE IInv'
    BY <1>1, TakeFreeIInv, CreateIInv, EnqueueIInv DEF GetConnection
  <1>2. ASSUME NEW t \in Calls, Runs(t) PROVE IInv'
    BY <1>2, SendNextIInv, RollbackIInv, ReleaseIInv, ReleaseDeadIInv, ResetSelectFailedIInv DEF Runs
  <1>3. ASSUME NEW t \in Calls, Answers(t) PROVE IInv'
    BY <1>3, ConnectedIInv, ConnectFailsIInv, AnsweredIInv, StatementFailsIInv, ResetNotFoundIInv
    DEF Answers
  <1>4. ASSUME NEW c \in Conns, LoseConnection(c) PROVE IInv'
    BY <1>4, LoseConnectionIInv
  <1>5. CASE UNCHANGED vars
    BY <1>5 DEF vars, IInv, TypeOK, PhaseOK, QueueOK, OneRetry, ExclusiveUse, NoLostWakeup
  <1> QED
    BY <1>1, <1>2, <1>3, <1>4, <1>5 DEF Next

\* The strengthened invariant holds in every reachable state.
THEOREM PoolInvariant == Spec => []IInv
  BY InitIInv, NextIInv, PTL DEF Spec

\* The variables of the pool and of its calls keep their types.
THEOREM PoolTypeCorrect == Spec => []TypeOK
  BY PoolInvariant, PTL DEF IInv

\* getConnection, releaseConnection and _removeConnection never give one
\* connection to two calls, nor keep a dead or a used one in the free list.
THEOREM PoolExclusiveUse == Spec => []ExclusiveUse
  BY PoolInvariant, PTL DEF IInv

\* No connection is free, and the pool is full, whenever a callback waits in
\* _connectionQueue.
THEOREM PoolNoLostWakeup == Spec => []NoLostWakeup
  BY PoolInvariant, PTL DEF IInv

-----------------------------------------------------------------------------
(* Where a connection can be lost from sight.  A step leaks nothing when    *)
(* every connection that is free or in use before it is so after it, or    *)
(* leaves the pool; the two endings of useResetId that forget theirs are   *)
(* the only others.                                                        *)

\* The connection is in the free list or belongs to a call.
Owned(c) == c \in Members(free) \/ \E t \in Calls : conn[t] = c

\* useResetId holds it, with its SELECT not finished.
HeldBySelect(c) == \E t \in ResetCalls : conn[t] = c /\ todo[t] = 2

\* What the step leaks was leaked before, or is held by such a SELECT.
LeakStep == \A c \in Leaked' : c \in Leaked \/ HeldBySelect(c)

\* A step after which every connection of the pool is owned, was leaked before
\* or was held by such a SELECT leaks no other.
LEMMA NothingElseLeaked ==
    ASSUME \A c \in all' : \/ c \in all /\ ~Owned(c)
                           \/ c \in Members(free')
                           \/ \E u \in Calls : conn'[u] = c
                           \/ HeldBySelect(c)
    PROVE  LeakStep
  BY DEF LeakStep, Leaked, Owned

\* The head of the free list goes to the call, the others stay in the list.
LEMMA TakeFreeLeaks == ASSUME IInv, NEW t \in Calls, TakeFree(t) PROVE LeakStep
  <1> USE DEF IInv
  <1>1. /\ free' = Tail(free)
        /\ conn' = [conn EXCEPT ![t] = Head(free)]
        /\ all' = all
        /\ free # <<>>
    BY DEF TakeFree
  <1>2. /\ Head(free) = free[1]
        /\ DOMAIN free = 1..Len(free) /\ Len(free) \in Nat
        /\ DOMAIN Tail(free) = 1..(Len(free) - 1)
        /\ \A i \in DOMAIN Tail(free) : Tail(free)[i] = free[i + 1]
    BY <1>1, HeadTailProperties, LenProperties, EmptySeq DEF TypeOK
  <1>3. conn[t] = NoConn
    BY DEF TakeFree, Asks, PhaseOK
  <1>4. \A i \in DOMAIN free : free[i] = conn'[t] \/ free[i] \in Members(free')
    <2> TAKE i \in DOMAIN free
    <2>1. CASE i = 1
      BY <1>1, <1>2, <2>1 DEF TypeOK
    <2>2. CASE i # 1
      <3>1. i - 1 \in DOMAIN Tail(free) /\ Tail(free)[i - 1] = free[i]
        BY <1>2, <2>2
      <3> QED
        BY <1>1, <3>1 DEF Members
    <2> QED
      BY <2>1, <2>2
  <1>5. \A c \in all, u \in Calls : conn[u] = c => conn'[u] = c
    BY <1>1, <1>3, ConnsAssumption DEF TypeOK
  <1> QED
    BY <1>1, <1>4, <1>5, NothingElseLeaked DEF Owned, Members

\* The new connection belongs to the call it is opened for.
LEMMA CreateLeaks == ASSUME IInv, NEW t \in Calls, Create(t) PROVE LeakStep
  <1> USE DEF IInv
  <1>1. PICK c \in Conns : all' = all \cup {c} /\ conn' = [conn EXCEPT ![t] = c]
    BY DEF Create
  <1>2. free' = free /\ conn[t] = NoConn
    BY DEF Create, Asks, PhaseOK
  <1>3. \A d \in all, u \in Calls : conn[u] = d => conn'[u] = d
    BY <1>1, <1>2, ConnsAssumption DEF TypeOK
  <1>4. conn'[t] = c
    BY <1>1 DEF TypeOK
  <1> QED
    BY <1>1, <1>2, <1>3, <1>4, NothingElseLeaked DEF Owned

\* Losing a connection takes only that one out of the free list.
LEMMA DropKeepsOthers ==
    ASSUME TypeOK, NEW c, NEW pcAfter, Drop(c, pcAfter)
    PROVE  /\ all' = all \ {c}
           /\ \A d \in Members(free) : d = c \/ d \in Members(free')
  <1>1. all' = all \ {c}
    BY DEF Drop
  <1>2. CASE ~\E k \in DOMAIN free : free[k] = c
    BY <1>1, <1>2 DEF Drop
  <1>3. CASE \E k \in DOMAIN free : free[k] = c
    <2> DEFINE k == CHOOSE i \in DOMAIN free : free[i] = c
    <2>1. k \in DOMAIN free /\ free[k] = c /\ free' = Without(free, k)
      BY <1>3 DEF Drop
    <2> HIDE DEF k
    <2>2. DOMAIN free = 1..Len(free) /\ Len(free) \in Nat
      BY LenProperties DEF TypeOK
    <2>3. \A i \in DOMAIN free : i # k => free[i] \in Members(free')
      <3> SUFFICES ASSUME NEW i \in DOMAIN free, i # k PROVE free[i] \in Members(free')
        OBVIOUS
      <3>1. CASE i < k
        <4>1. i \in DOMAIN free' /\ free'[i] = free[i]
          BY <2>1, <2>2, <3>1 DEF Without
        <4> QED
          BY <4>1 DEF Members
      <3>2. CASE ~(i < k)
        <4>1. i - 1 \in DOMAIN free' /\ free'[i - 1] = free[i]
          BY <2>1, <2>2, <3>2 DEF Without
        <4> QED
          BY <4>1 DEF Members
      <3> QED
        BY <3>1, <3>2
    <2> QED
      BY <1>1, <2>1, <2>3 DEF Members
  <1> QED
    BY <1>2, <1>3

\* A connection that could not be opened leaves the pool with its call.
LEMMA ConnectFailsLeaks == ASSUME IInv, NEW t \in Calls, ConnectFails(t) PROVE LeakStep
  <1>1. /\ all' = all \ {conn[t]}
        /\ \A d \in Members(free) : d = conn[t] \/ d \in Members(free')
    BY DropKeepsOthers DEF ConnectFails, IInv
  <1>2. \A d \in all', u \in Calls : conn[u] = d => conn'[u] = d
    BY <1>1 DEF ConnectFails, IInv, TypeOK
  <1> QED
    BY <1>1, <1>2, NothingElseLeaked DEF Owned

\* A connection that ends leaves the pool.
LEMMA LoseConnectionLeaks == ASSUME IInv, NEW c \in Conns, LoseConnection(c) PROVE LeakStep
  <1>1. /\ all' = all \ {c}
        /\ \A d \in Members(free) : d = c \/ d \in Members(free')
    BY DropKeepsOthers DEF LoseConnection, IInv
  <1>2. conn' = conn
    BY DEF LoseConnection
  <1> QED
    BY <1>1, <1>2, NothingElseLeaked DEF Owned

\* A released connection goes to the free list or to the next call.
LEMMA ReleaseLeaks == ASSUME IInv, NEW t \in Calls, Release(t) PROVE LeakStep
  <1> USE DEF IInv
  <1>1. all' = all /\ conn[t] \in all
    BY DEF Release
  <1>2. CASE queue = <<>>
    <2>1. free' = Append(free, conn[t]) /\ conn' = [conn EXCEPT ![t] = NoConn]
      BY <1>2 DEF Release, Finish
    <2>2. /\ DOMAIN free = 1..Len(free) /\ Len(free) \in Nat
          /\ DOMAIN free' = 1..(Len(free) + 1)
          /\ \A i \in DOMAIN free : free'[i] = free[i]
          /\ free'[Len(free) + 1] = conn[t]
      BY <1>1, <2>1, AppendProperties, LenProperties DEF TypeOK
    <2>3. \A i \in DOMAIN free : i \in DOMAIN free'
      BY <2>2
    <2>4. \A d \in Members(free) : d \in Members(free')
      BY <2>2, <2>3 DEF Members
    <2>5. Len(free) + 1 \in DOMAIN free'
      BY <2>2
    <2>6. conn[t] \in Members(free')
      BY <2>2, <2>5 DEF Members
    <2>7. \A u \in Calls : u # t => conn'[u] = conn[u]
      BY <2>1 DEF TypeOK
    <2> QED
      BY <1>1, <2>4, <2>6, <2>7, NothingElseLeaked DEF Owned
  <1>3. CASE queue # <<>>
    <2> DEFINE next == Head(queue)
    <2>1. /\ next \in Calls
          /\ pc[next] = "waiting"
      <3>1. 1 \in DOMAIN queue /\ next = queue[1]
        BY <1>3, TailFacts DEF TypeOK
      <3> QED
        BY <3>1, ElementOfSeq, LenProperties DEF TypeOK, QueueOK
    <2>2. conn[next] = NoConn /\ next # t
      BY <2>1 DEF PhaseOK, Release, Ends
    <2>3. free' = free /\ conn' = [conn EXCEPT ![t] = NoConn, ![next] = conn[t]]
      BY <1>3 DEF Release
    <2> HIDE DEF next
    <2>4. conn'[next] = conn[t] /\ \A u \in Calls : u \notin {t, next} => conn'[u] = conn[u]
      BY <2>1, <2>2, <2>3 DEF TypeOK
    <2>5. \A d \in all, u \in Calls : conn[u] = d => \E w \in Calls : conn'[w] = d
      BY <2>1, <2>2, <2>4, ConnsAssumption DEF TypeOK
    <2> QED
      BY <1>1, <2>3, <2>5, NothingElseLeaked DEF Owned
  <1> QED
    BY <1>2, <1>3

\* What a call releases after its connection died is in the pool no more.
LEMMA ReleaseDeadLeaks == ASSUME IInv, NEW t \in Calls, ReleaseDead(t) PROVE LeakStep
  <1>1. all' = all /\ free' = free /\ conn[t] \notin all
    BY DEF ReleaseDead, poolVars
  <1>2. \A u \in Calls : u # t => conn'[u] = conn[u]
    BY DEF ReleaseDead, Finish, IInv, TypeOK
  <1> QED
    BY <1>1, <1>2, NothingElseLeaked DEF Owned

\* The two endings of useResetId without a release: what they forget is the
\* connection of a call whose SELECT was not finished.
LEMMA ResetLeaks ==
    ASSUME IInv, NEW t \in Calls, ResetNotFound(t) \/ ResetSelectFailed(t) PROVE LeakStep
  <1>1. all' = all /\ free' = free /\ t \in ResetCalls /\ todo[t] = 2
    BY DEF ResetNotFound, ResetSelectFailed, SelectFailed, poolVars
  <1>2. \A u \in Calls : u # t => conn'[u] = conn[u]
    BY DEF ResetNotFound, ResetSelectFailed, Finish, IInv, TypeOK
  <1> QED
    BY <1>1, <1>2, NothingElseLeaked DEF Owned, HeldBySelect

\* A step that moves no connection leaks none.
LEMMA UnmovedLeaks == ASSUME UNCHANGED <<all, free, conn>> PROVE LeakStep
  BY NothingElseLeaked DEF Owned

\* No step leaks a connection but those two endings.
LEMMA NextLeaks == IInv /\ [Next]_vars => LeakStep
  <1> SUFFICES ASSUME IInv, [Next]_vars PROVE LeakStep
    OBVIOUS
  <1>1. ASSUME NEW t \in Calls, GetConnection(t) PROVE LeakStep
    <2>1. CASE Enqueue(t)
      BY <2>1, UnmovedLeaks DEF Enqueue
    <2> QED
      BY <1>1, <2>1, TakeFreeLeaks, CreateLeaks DEF GetConnection
  <1>2. ASSUME NEW t \in Calls, Runs(t) PROVE LeakStep
    <2>1. CASE SendNext(t)
      BY <2>1, UnmovedLeaks DEF SendNext, poolVars
    <2>2. CASE Rollback(t)
      BY <2>2, UnmovedLeaks DEF Rollback, poolVars
    <2> QED
      BY <1>2, <2>1, <2>2, ReleaseLeaks, ReleaseDeadLeaks, ResetLeaks DEF Runs
  <1>3. ASSUME NEW t \in Calls, Answers(t) PROVE LeakStep
    <2>1. CASE Connected(t)
      BY <2>1, UnmovedLeaks DEF Connected
    <2>2. CASE Answered(t)
      BY <2>2, UnmovedLeaks DEF Answered, poolVars
    <2>3. CASE StatementFails(t)
      BY <2>3, UnmovedLeaks DEF StatementFails, poolVars
    <2> QED
      BY <1>3, <2>1, <2>2, <2>3, ConnectFailsLeaks, ResetLeaks DEF Answers
  <1>4. ASSUME NEW c \in Conns, LoseConnection(c) PROVE LeakStep
    BY <1>4, LoseConnectionLeaks
  <1>5. CASE UNCHANGED vars
    BY <1>5, UnmovedLeaks DEF vars
  <1> QED
    BY <1>1, <1>2, <1>3, <1>4, <1>5 DEF Next

\* Only useResetId leaks a connection, and only while its SELECT is the
\* statement not finished: every other promise chain of the data layer
\* releases, whatever fails on it and whenever its connection dies.
THEOREM PoolOnlyKnownLeaks == Spec => OnlyKnownLeaks
  <1>1. IInv /\ [Next]_vars =>
          [\A c \in Leaked' : c \in Leaked \/ \E t \in ResetCalls : conn[t] = c /\ todo[t] = 2]_vars
    BY NextLeaks DEF LeakStep, HeldBySelect
  <1> QED
    BY <1>1, PoolInvariant, PTL DEF Spec, OnlyKnownLeaks

\* The promise of the driver's README that the run PoolLeak refutes is kept by
\* everything but useResetId: in a pool without such calls an open connection
\* is free or belongs to a call that is still under way.
THEOREM PoolReturnedWithoutResets ==
    ASSUME ResetCalls = {} PROVE Spec => []ReturnedWhenDone
  <1>1. Init => ReturnedWhenDone
    BY DEF Init, ReturnedWhenDone
  <1>2. IInv /\ ReturnedWhenDone /\ [Next]_vars => ReturnedWhenDone'
    <2> SUFFICES ASSUME IInv, ReturnedWhenDone, [Next]_vars PROVE ReturnedWhenDone'
      OBVIOUS
    <2>1. Leaked = {}
      BY DEF ReturnedWhenDone, Leaked
    <2>2. Leaked' = {}
      BY <2>1, NextLeaks DEF LeakStep, HeldBySelect
    <2> QED
      BY <2>2 DEF ReturnedWhenDone, Leaked
  <1> QED
    BY <1>1, <1>2, PoolInvariant, PTL DEF Spec

-----------------------------------------------------------------------------
(* Whom a call waits for. *)

\* A call that will never be answered sent its statement to a connection that
\* had left the pool; none that is in the pool is held by such a call.
HungIsDead == \A t \in Calls : pc[t] = "hung" => conn[t] \notin all

\* No connection comes back to the pool while a call still has it.
LEMMA NextHung ==
    ASSUME IInv, HungIsDead, [Next]_vars
    PROVE  HungIsDead'
<1> USE DEF HungIsDead
<1>0. /\ pc \in [Calls -> Phases] /\ conn \in [Calls -> Conns \cup {NoConn}]
      /\ queue \in Seq(Calls)
      /\ \A i \in DOMAIN queue : pc[queue[i]] = "waiting"
  BY DEF IInv, TypeOK, QueueOK
<1>1. ASSUME NEW t \in Calls, TakeFree(t) \/ Enqueue(t) \/ Connected(t)
      PROVE  HungIsDead'
  BY <1>0, <1>1 DEF TakeFree, Enqueue, Connected
<1>2. ASSUME NEW t \in Calls, Create(t)
      PROVE  HungIsDead'
  <2>1. PICK c \in Conns \ (all \cup {conn[u] : u \in Calls}) :
           all' = all \cup {c} /\ conn' = [conn EXCEPT ![t] = c]
    BY <1>2 DEF Create
  <2>2. pc' = [pc EXCEPT ![t] = "connecting"]
    BY <1>2 DEF Create
  <2> QED BY <1>0, <2>1, <2>2
<1>3. ASSUME NEW c, NEW pcAfter \in [Calls -> Phases], Drop(c, pcAfter),
             \A u \in Calls : pcAfter[u] = "hung" => pc[u] = "hung"
      PROVE  /\ all' \subseteq all
             /\ \A u \in Calls : pc'[u] = "hung" => pc[u] = "hung"
  BY <1>3 DEF Drop
<1>4. ASSUME NEW t \in Calls, ConnectFails(t)
      PROVE  HungIsDead'
  <2> DEFINE after == [pc EXCEPT ![t] = "idle"]
  <2>1. after \in [Calls -> Phases] /\ \A u \in Calls : after[u] = "hung" => pc[u] = "hung" /\ u # t
    BY <1>0 DEF Phases
  <2>2. /\ Drop(conn[t], after) /\ conn' = [conn EXCEPT ![t] = NoConn] /\ pc[t] = "connecting"
    BY <1>4 DEF ConnectFails
  <2> HIDE DEF after
  <2>3. /\ all' \subseteq all
        /\ \A u \in Calls : pc'[u] = "hung" => pc[u] = "hung"
    BY <1>3, <2>1, <2>2
  <2> QED BY <1>0, <2>2, <2>3
<1>5. ASSUME NEW c \in Conns, LoseConnection(c)
      PROVE  HungIsDead'
  <2> DEFINE after == [t \in Calls |-> IF pc[t] = "querying" /\ conn[t] = c
                                       THEN "failing" ELSE pc[t]]
  <2>1. after \in [Calls -> Phases] /\ \A u \in Calls : after[u] = "hung" => pc[u] = "hung"
    BY <1>0 DEF Phases
  <2>2. Drop(c, after) /\ conn' = conn
    BY <1>5 DEF LoseConnection
  <2> HIDE DEF after
  <2> QED BY <1>3, <2>1, <2>2
<1>6. ASSUME NEW t \in Calls, SendNext(t) \/ Rollback(t)
      PROVE  HungIsDead'
  BY <1>0, <1>6 DEF SendNext, Rollback, Send, poolVars
<1>7. ASSUME NEW t \in Calls, Answered(t) \/ StatementFails(t)
      PROVE  HungIsDead'
  BY <1>0, <1>7 DEF Answered, StatementFails, poolVars
<1>8. ASSUME NEW t \in Calls, ReleaseDead(t) \/ ResetNotFound(t) \/ ResetSelectFailed(t)
      PROVE  HungIsDead'
  BY <1>0, <1>8 DEF ReleaseDead, ResetNotFound, ResetSelectFailed, poolVars, Finish
<1>9. ASSUME NEW t \in Calls, Release(t)
      PROVE  HungIsDead'
  <2>1. CASE queue = <<>>
    BY <1>0, <1>9, <2>1 DEF Release, Finish
  <2>2. CASE queue # <<>>
    <3>1. Head(queue) \in Calls
      BY <1>0, <2>2, TailFacts
    <3>2. /\ all' = all
          /\ pc' = [pc EXCEPT ![t] = "idle", ![Head(queue)] = "running"]
          /\ conn' = [conn EXCEPT ![t] = NoConn, ![Head(queue)] = conn[t]]
      BY <1>9, <2>2 DEF Release
    <3> QED BY <1>0, <3>1, <3>2
  <2> QED BY <2>1, <2>2
<1>10. CASE UNCHANGED vars
  BY <1>10 DEF vars
<1> QED BY <1>1, <1>2, <1>4, <1>5, <1>6, <1>7, <1>8, <1>9, <1>10
        DEF Next, GetConnection, Runs, Answers

\* A call that will let a connection of the pool go.
Active(t) == pc[t] \in {"connecting", "running", "querying", "failing"} /\ conn[t] \in all

\* While a call waits, another is on its way to release a connection or to be
\* told that it died, or is about to ask the pool again; else the whole pool
\* has leaked.  Nobody waits for a call that hangs.
WaitsForSomebody ==
    queue # <<>> =>
       \/ \E t \in Calls : Active(t) \/ pc[t] = "retrying"
       \/ Cardinality(Leaked) >= Limit

\* The safety part of EveryCallEnds: no call waits for nobody, or for a call
\* that hangs at its ROLLBACK, unless useResetId has leaked all connections.
THEOREM PoolWaitsForSomebody == Spec => []WaitsForSomebody
<1>1. Init => HungIsDead
  BY DEF Init, HungIsDead
<1>2. IInv /\ HungIsDead => WaitsForSomebody
  <2> SUFFICES ASSUME IInv, HungIsDead, queue # <<>>,
                      \A t \in Calls : ~Active(t) /\ pc[t] # "retrying"
               PROVE  Cardinality(Leaked) >= Limit
    BY DEF WaitsForSomebody
  <2>1. free = <<>> /\ Cardinality(all) >= Limit
    BY DEF IInv, NoLostWakeup
  <2>2. ASSUME NEW t \in Calls
        PROVE  conn[t] \notin all
    <3>1. pc[t] \in Phases /\ all \subseteq Conns
      BY DEF IInv, TypeOK
    <3>2. pc[t] \in {"idle", "waiting", "retrying"} => conn[t] \notin all
      BY <3>1, ConnsAssumption DEF IInv, PhaseOK
    <3> QED BY <3>1, <3>2 DEF HungIsDead, Active, Phases
  <2>3. Members(free) = {}
    BY <2>1 DEF Members
  <2>4. Leaked = all
    BY <2>2, <2>3 DEF Leaked
  <2> QED BY <2>1, <2>4
<1> QED BY <1>1, <1>2, NextHung, PoolInvariant, PTL DEF Spec

\* Callbacks are served in the order they came: who gets a connection while
\* others wait has waited longest, or takes the place that a lost connection
\* left, before the call taken off the queue for it asks again or as that call.
NoOvertaking ==
    [][\A t \in Calls :
          conn[t] = NoConn /\ conn'[t] # NoConn /\ queue # <<>> =>
             \/ t = Head(queue)
             \/ \E u \in Calls : pc[u] = "retrying"]_vars

\* getConnection hands nothing to a newcomer while _connectionQueue holds
\* others, but for the place of a connection that was just lost.
THEOREM PoolNoOvertaking == Spec => NoOvertaking
<1>1. IInv /\ [Next]_vars =>
        [\A t \in Calls :
            conn[t] = NoConn /\ conn'[t] # NoConn /\ queue # <<>> =>
               \/ t = Head(queue)
               \/ \E u \in Calls : pc[u] = "retrying"]_vars
  <2> SUFFICES ASSUME IInv, Next, queue # <<>>,
                      NEW t \in Calls, conn[t] = NoConn, conn'[t] # NoConn
               PROVE  t = Head(queue) \/ \E u \in Calls : pc[u] = "retrying"
    OBVIOUS
  <2>0. /\ conn \in [Calls -> Conns \cup {NoConn}] /\ queue \in Seq(Calls)
        /\ free = <<>>
        /\ Cardinality(all) < Limit => \E u \in Calls : pc[u] = "retrying"
    <3>1. Cardinality(all) \in Nat
      BY FS_CardinalityType DEF IInv
    <3> QED BY <3>1, LimitAssumption DEF IInv, TypeOK, NoLostWakeup
  <2>1. CASE \E u \in Calls : Release(u)
    <3>1. PICK u \in Calls : Release(u)
      BY <2>1
    <3>2. conn' = [conn EXCEPT ![u] = NoConn, ![Head(queue)] = conn[u]]
      BY <3>1 DEF Release
    <3> QED BY <2>0, <3>2
  <2>2. CASE \E u \in Calls : Create(u)
    BY <2>0, <2>2 DEF Create
  <2>3. CASE \E u \in Calls : TakeFree(u)
    BY <2>0, <2>3 DEF TakeFree
  <2>4. ASSUME NEW u \in Calls,
               \/ Enqueue(u) \/ SendNext(u) \/ Rollback(u) \/ ReleaseDead(u) \/ ResetSelectFailed(u)
               \/ Answers(u)
        PROVE  FALSE
    BY <2>0, <2>4 DEF Enqueue, SendNext, Rollback, ReleaseDead, ResetSelectFailed, Answers, Connected,
                      ConnectFails, Answered, StatementFails, ResetNotFound, Finish
  <2>5. ASSUME NEW c \in Conns, LoseConnection(c)
        PROVE  FALSE
    BY <2>5 DEF LoseConnection
  <2> QED BY <2>1, <2>2, <2>3, <2>4, <2>5 DEF Next, GetConnection, Runs
<1> QED BY <1>1, PoolInvariant, PTL DEF Spec, NoOvertaking

=============================================================================
