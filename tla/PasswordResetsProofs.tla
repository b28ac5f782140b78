------------------------ MODULE PasswordResetsProofs ------------------------
(***************************************************************************)
(* A used link is gone for good and no valid link is refused, for any      *)
(* users, any number of requests at a time and any number of links kept.   *)
(*                                                                         *)
(* The second needs the history of the table: a link that is not in it any *)
(* more was used or has been superseded by Keep newer ones (GoneOK), which *)
(* holds because the cutoff a request prunes by has Keep links at or above *)
(* it, and links only become more (CutoffOK).                              *)
(***************************************************************************)
EXTENDS PasswordResets, FiniteSetTheorems, TLAPS

\* The links in S of user u from id c on, and those after link l.
Upward(S, u, c) == {m \in S : m.user = u /\ m.id >= c}

\* The links in S that came after link l, of the same user.
NewerThan(S, l) == {m \in S : m.user = l.user /\ m.id > l.id}

\* Enough links of the user are at or above the cutoff.
IsCutoff(S, u, c) == Cardinality(Upward(S, u, c)) >= Keep

\* Enough links came after this one.
Superseded(S, l) == Cardinality(NewerThan(S, l)) >= Keep

\* The table and what became of its links are part of what was issued.
HistoryOK ==
    /\ IsFiniteSet(issued)
    /\ \A l \in issued : l.id < nextId
    /\ rows \subseteq issued /\ mailed \subseteq issued /\ consumed \subseteq issued

\* A request works with a link that was issued, and changes a password with a spent one.
RowOK ==
    \A r \in Requests :
       /\ pc[r] \in Working => row[r] \in issued
       /\ pc[r] = "change" => row[r] \in consumed

\* A spent link is in the table no more, and only spent links were honoured.
SpentOK == consumed \cap rows = {} /\ honoured \subseteq consumed

\* A request prunes by a cutoff.
CutoffOK ==
    \A r \in Requests : pc[r] = "prune" => IsCutoff(issued, row[r].user, cutoff[r])

\* A link that is gone was spent or superseded.
GoneOK == \A l \in issued \ rows : l \in consumed \/ Superseded(issued, l)

\* A request was refused for a reason.
RefusedOK ==
    \A r \in Requests : pc[r] = "refused" =>
       \/ row[r] = NoRow
       \/ row[r] \in consumed
       \/ Expired(row[r])
       \/ Superseded(issued, row[r])

\* The inductive invariant.
IInv == TypeOK /\ HistoryOK /\ RowOK /\ SpentOK /\ CutoffOK /\ GoneOK /\ RefusedOK

-----------------------------------------------------------------------------
\* A set that grows keeps as many elements as it had.
LEMMA AtLeast ==
    ASSUME NEW S, NEW T, S \subseteq T, IsFiniteSet(T), NEW n \in Nat, Cardinality(S) >= n
    PROVE  Cardinality(T) >= n
<1>1. IsFiniteSet(S) /\ Cardinality(S) <= Cardinality(T)
  BY FS_Subset
<1>2. Cardinality(S) \in Nat /\ Cardinality(T) \in Nat
  BY <1>1, FS_CardinalityType
<1> QED BY <1>1, <1>2

\* A link that is superseded stays so, for links are only issued.
LEMMA SupersededStays ==
    ASSUME NEW S, NEW T, S \subseteq T, IsFiniteSet(T), NEW l, Superseded(S, l)
    PROVE  Superseded(T, l)
<1>1. NewerThan(S, l) \subseteq NewerThan(T, l)
  BY DEF NewerThan
<1>2. IsFiniteSet(NewerThan(T, l))
  BY FS_Subset DEF NewerThan
<1> QED BY <1>1, <1>2, AtLeast, KeepAssumption DEF Superseded

\* The Keep links at or above a cutoff stay, too.
LEMMA CutoffStays ==
    ASSUME NEW S, NEW T, S \subseteq T, IsFiniteSet(T), NEW u, NEW c, IsCutoff(S, u, c)
    PROVE  IsCutoff(T, u, c)
<1>1. Upward(S, u, c) \subseteq Upward(T, u, c)
  BY DEF Upward
<1>2. IsFiniteSet(Upward(T, u, c))
  BY FS_Subset DEF Upward
<1> QED BY <1>1, <1>2, AtLeast, KeepAssumption DEF IsCutoff

\* What lies below a cutoff is superseded.
LEMMA BelowCutoff ==
    ASSUME NEW S, S \subseteq Rows, IsFiniteSet(S), NEW l \in Rows, NEW c \in Nat,
           IsCutoff(S, l.user, c), l.id < c
    PROVE  Superseded(S, l)
<1>1. Upward(S, l.user, c) \subseteq NewerThan(S, l)
  BY ClockAssumption DEF Upward, NewerThan, Rows
<1>2. IsFiniteSet(NewerThan(S, l))
  BY FS_Subset DEF NewerThan
<1> QED BY <1>1, <1>2, AtLeast, KeepAssumption DEF IsCutoff, Superseded

\* A request a step is not about keeps what it knows, as links are only
\* issued and used ones only become more.
LEMMA OthersKeep ==
    ASSUME IInv, issued \subseteq issued', IsFiniteSet(issued'), consumed \subseteq consumed',
           now' = now, NEW r \in Requests,
           pc'[r] = pc[r], row'[r] = row[r], cutoff'[r] = cutoff[r]
    PROVE  /\ pc'[r] \in Working => row'[r] \in issued'
           /\ pc'[r] = "change" => row'[r] \in consumed'
           /\ pc'[r] = "prune" => IsCutoff(issued', row'[r].user, cutoff'[r])
           /\ pc'[r] = "refused" =>
                 \/ row'[r] = NoRow
                 \/ row'[r] \in consumed'
                 \/ Expired(row[r])'
                 \/ Superseded(issued', row'[r])
<1>1. pc'[r] \in Working => row'[r] \in issued'
  BY DEF IInv, RowOK
<1>2. pc'[r] = "change" => row'[r] \in consumed'
  BY DEF IInv, RowOK
<1>3. ASSUME pc'[r] = "prune"
      PROVE  IsCutoff(issued', row'[r].user, cutoff'[r])
  <2>1. IsCutoff(issued, row[r].user, cutoff[r])
    BY <1>3 DEF IInv, CutoffOK
  <2> QED BY <2>1, CutoffStays
<1>4. ASSUME pc'[r] = "refused"
      PROVE  \/ row'[r] = NoRow
             \/ row'[r] \in consumed'
             \/ Expired(row[r])'
             \/ Superseded(issued', row'[r])
  <2>1. CASE Expired(row[r])
    BY <2>1 DEF Expired
  <2>2. CASE Superseded(issued, row[r])
    BY <2>2, SupersededStays
  <2>3. CASE row[r] = NoRow \/ row[r] \in consumed
    BY <2>3
  <2> QED BY <1>4, <2>1, <2>2, <2>3 DEF IInv, RefusedOK
<1> QED BY <1>1, <1>2, <1>3, <1>4

\* A step of request r keeps the invariant if the tables stay in order and r
\* itself knows what it must.
LEMMA StepKeeps ==
    ASSUME IInv, NEW r \in Requests,
           TypeOK', HistoryOK', SpentOK', GoneOK',
           now' = now, issued \subseteq issued', consumed \subseteq consumed',
           \A q \in Requests \ {r} :
              pc'[q] = pc[q] /\ row'[q] = row[q] /\ cutoff'[q] = cutoff[q],
           pc'[r] \in Working => row'[r] \in issued',
           pc'[r] = "change" => row'[r] \in consumed',
           pc'[r] = "prune" => IsCutoff(issued', row'[r].user, cutoff'[r]),
           pc'[r] = "refused" => \/ row'[r] = NoRow
                                 \/ row'[r] \in consumed'
                                 \/ Expired(row[r])' 
                                 \/ Superseded(issued', row'[r])
    PROVE  IInv'
<1>1. IsFiniteSet(issued')
  BY DEF HistoryOK
<1>2. ASSUME NEW q \in Requests
      PROVE  /\ pc'[q] \in Working => row'[q] \in issued'
             /\ pc'[q] = "change" => row'[q] \in consumed'
             /\ pc'[q] = "prune" => IsCutoff(issued', row'[q].user, cutoff'[q])
             /\ pc'[q] = "refused" => \/ row'[q] = NoRow
                                       \/ row'[q] \in consumed'
                                       \/ Expired(row[q])'
                                       \/ Superseded(issued', row'[q])
  <2>1. CASE q = r
    BY <2>1
  <2>2. CASE q # r
    <3>1. pc'[q] = pc[q] /\ row'[q] = row[q] /\ cutoff'[q] = cutoff[q]
      BY <2>2
    <3> QED BY <1>1, <3>1, OthersKeep
  <2> QED BY <2>1, <2>2
<1>3. RowOK'
  BY <1>2 DEF RowOK
<1>4. CutoffOK'
  BY <1>2 DEF CutoffOK
<1>5. RefusedOK'
  BY <1>2 DEF RefusedOK
<1> QED BY <1>3, <1>4, <1>5 DEF IInv

-----------------------------------------------------------------------------
\* INSERT: the new link is in the table and newer than any other.
LEMMA InsertIInv ==
    ASSUME IInv, NEW r \in Requests, NEW u \in Users, Insert(r, u)
    PROVE  IInv'
<1> DEFINE l == [id |-> nextId, user |-> u, born |-> now]
<1> USE DEF IInv
<1>1. l \in Rows /\ l.id = nextId /\ nextId \in 1..MaxIds
  BY ClockAssumption DEF TypeOK, Rows, Insert
<1>2. /\ rows' = rows \cup {l} /\ issued' = issued \cup {l} /\ nextId' = nextId + 1
      /\ row' = [row EXCEPT ![r] = l] /\ cutoff' = [cutoff EXCEPT ![r] = 0]
      /\ UNCHANGED <<now, mailed, consumed, honoured, raced>>
  BY DEF Insert
<1>3. \E p \in {"cutoff", "failed"} : pc' = [pc EXCEPT ![r] = p]
  BY DEF Insert, GoesTo
<1>4. TypeOK'
  <2>1. pc' \in [Requests -> Working \cup Ended]
    BY <1>3 DEF TypeOK, Working, Ended
  <2>2. nextId' \in 1..(MaxIds + 1) /\ cutoff' \in [Requests -> 0..MaxIds]
    BY <1>1, <1>2, ClockAssumption DEF TypeOK
  <2> HIDE DEF l
  <2>3. row' \in [Requests -> Rows \cup {NoRow}]
    BY <1>1, <1>2 DEF TypeOK
  <2> QED BY <1>1, <1>2, <2>1, <2>2, <2>3 DEF TypeOK
<1>5. l \notin issued
  BY <1>1 DEF HistoryOK, TypeOK
<1>6. HistoryOK'
  <2>1. IsFiniteSet(issued')
    BY <1>2, FS_AddElement DEF HistoryOK
  <2>2. \A m \in issued' : m.id < nextId'
    <3>1. \A m \in issued : m.id \in Nat
      BY DEF TypeOK, Rows
    <3> QED BY <1>1, <1>2, <3>1 DEF HistoryOK
  <2> QED BY <1>2, <2>1, <2>2 DEF HistoryOK
<1>7. SpentOK'
  BY <1>2, <1>5 DEF SpentOK, HistoryOK
<1>8. GoneOK'
  <2>1. SUFFICES ASSUME NEW m \in issued \ rows, m \notin consumed
                 PROVE  Superseded(issued', m)
    BY <1>2 DEF GoneOK
  <2>2. Superseded(issued, m)
    BY <2>1 DEF GoneOK
  <2> QED BY <1>2, <1>6, <2>2, SupersededStays DEF HistoryOK
<1>9. /\ pc'[r] \in {"cutoff", "failed"} /\ row'[r] = l
      /\ \A q \in Requests \ {r} :
            pc'[q] = pc[q] /\ row'[q] = row[q] /\ cutoff'[q] = cutoff[q]
  BY <1>2, <1>3 DEF TypeOK
<1> HIDE DEF l
<1> QED BY <1>2, <1>4, <1>6, <1>7, <1>8, <1>9, StepKeeps

\* A step that leaves the tables alone, but for a mail or a changed password,
\* keeps them in order.
LEMMA TablesSame ==
    ASSUME IInv, UNCHANGED <<rows, nextId, issued, consumed>>,
           mailed' \subseteq issued, honoured' \subseteq consumed
    PROVE  HistoryOK' /\ SpentOK' /\ GoneOK'
BY DEF IInv, HistoryOK, SpentOK, GoneOK

\* SELECT: the row it finds has Keep links at or above it.
LEMMA SelectCutoffIInv ==
    ASSUME IInv, NEW r \in Requests, SelectCutoff(r)
    PROVE  IInv'
<1> DEFINE mine == RowsOf(row[r].user)
<1> USE DEF IInv
<1>1. /\ pc[r] = "cutoff" /\ row[r] \in issued
      /\ UNCHANGED <<rows, nextId, now, row, issued, mailed, consumed, honoured, raced>>
  BY DEF SelectCutoff, RowOK, Working
<1>2. HistoryOK' /\ SpentOK' /\ GoneOK'
  BY <1>1, TablesSame DEF HistoryOK, SpentOK
<1>3. PICK p \in {"prune", "mail", "failed"} : pc' = [pc EXCEPT ![r] = p]
  BY DEF SelectCutoff, GoesTo
<1>4. CASE \E l \in mine : /\ Cardinality(NewerOrSame(mine, l)) = Keep
                           /\ cutoff' = [cutoff EXCEPT ![r] = l.id]
  <2>1. PICK l \in mine : /\ Cardinality(NewerOrSame(mine, l)) = Keep
                          /\ cutoff' = [cutoff EXCEPT ![r] = l.id]
    BY <1>4
  <2>2. l \in Rows /\ l.id \in 0..MaxIds
    BY <2>1, ClockAssumption DEF RowsOf, TypeOK, Rows
  <2>3. NewerOrSame(mine, l) \subseteq Upward(issued, row[r].user, l.id)
    BY DEF NewerOrSame, RowsOf, Upward, HistoryOK
  <2>4. IsFiniteSet(Upward(issued, row[r].user, l.id))
    BY FS_Subset DEF Upward, HistoryOK
  <2>5. IsCutoff(issued, row[r].user, l.id)
    BY <2>1, <2>3, <2>4, AtLeast, KeepAssumption DEF IsCutoff
  <2>6. TypeOK'
    BY <1>1, <1>3, <2>1, <2>2 DEF TypeOK, Working, Ended
  <2>7. /\ pc'[r] = p /\ cutoff'[r] = l.id
        /\ \A q \in Requests \ {r} :
              pc'[q] = pc[q] /\ row'[q] = row[q] /\ cutoff'[q] = cutoff[q]
    BY <1>1, <1>3, <2>1 DEF TypeOK
  <2>8. pc'[r] # "change" /\ pc'[r] # "refused"
    BY <2>7
  <2> QED BY <1>1, <1>2, <2>5, <2>6, <2>7, <2>8, StepKeeps
<1>5. CASE cutoff' = cutoff /\ GoesTo(r, "mail")
  <2>1. TypeOK'
    BY <1>1, <1>3, <1>5 DEF TypeOK, Working, Ended
  <2>2. /\ pc'[r] \in {"mail", "failed"}
        /\ \A q \in Requests \ {r} :
              pc'[q] = pc[q] /\ row'[q] = row[q] /\ cutoff'[q] = cutoff[q]
    BY <1>1, <1>5 DEF TypeOK, GoesTo
  <2> QED BY <1>1, <1>2, <2>1, <2>2, StepKeeps
<1> QED BY <1>4, <1>5 DEF SelectCutoff

\* DELETE ... WHERE id < ?: what it deletes is superseded.
LEMMA PruneIInv ==
    ASSUME IInv, NEW r \in Requests, Prune(r)
    PROVE  IInv'
<1> USE DEF IInv
<1>1. /\ pc[r] = "prune" /\ row[r] \in issued
      /\ rows' = {l \in rows : ~(l.user = row[r].user /\ l.id < cutoff[r])}
      /\ UNCHANGED <<nextId, now, row, cutoff, issued, mailed, consumed, honoured, raced>>
  BY DEF Prune, RowOK, Working
<1>2. PICK p \in {"mail", "failed"} : pc' = [pc EXCEPT ![r] = p]
  BY DEF Prune, GoesTo
<1>3. TypeOK'
  BY <1>1, <1>2 DEF TypeOK, Working, Ended
<1>4. HistoryOK' /\ SpentOK'
  BY <1>1 DEF HistoryOK, SpentOK
<1>5. GoneOK'
  <2>1. SUFFICES ASSUME NEW l \in issued, l \notin rows', l \notin consumed
                 PROVE  Superseded(issued, l)
    BY <1>1 DEF GoneOK
  <2>2. CASE l \notin rows
    BY <2>1, <2>2 DEF GoneOK
  <2>3. CASE l \in rows
    <3>1. l.user = row[r].user /\ l.id < cutoff[r]
      BY <1>1, <2>1, <2>3
    <3>2. IsCutoff(issued, l.user, cutoff[r])
      BY <1>1, <3>1 DEF CutoffOK
    <3>3. l \in Rows /\ cutoff[r] \in Nat /\ issued \subseteq Rows
      BY ClockAssumption DEF TypeOK
    <3> QED BY <3>1, <3>2, <3>3, BelowCutoff DEF HistoryOK
  <2> QED BY <2>2, <2>3
<1>6. /\ pc'[r] = p
      /\ \A q \in Requests \ {r} :
            pc'[q] = pc[q] /\ row'[q] = row[q] /\ cutoff'[q] = cutoff[q]
  BY <1>1, <1>2 DEF TypeOK
<1>7. pc'[r] \in {"mail", "failed"}
  BY <1>6
<1> QED BY <1>1, <1>3, <1>4, <1>5, <1>6, <1>7, StepKeeps

\* The mail: one more link is in a mailbox.
LEMMA SendMailIInv ==
    ASSUME IInv, NEW r \in Requests, SendMail(r)
    PROVE  IInv'
<1> USE DEF IInv
<1>1. /\ pc[r] = "mail" /\ row[r] \in issued /\ mailed' = mailed \cup {row[r]}
      /\ UNCHANGED <<rows, nextId, now, row, cutoff, issued, consumed, honoured, raced>>
  BY DEF SendMail, RowOK, Working
<1>2. PICK p \in {"sent", "failed"} : pc' = [pc EXCEPT ![r] = p]
  BY DEF SendMail, GoesTo
<1>3. TypeOK'
  BY <1>1, <1>2 DEF TypeOK, Working, Ended
<1>4. HistoryOK' /\ SpentOK' /\ GoneOK'
  BY <1>1, TablesSame DEF HistoryOK, SpentOK
<1>5. /\ pc'[r] \in {"sent", "failed"}
      /\ \A q \in Requests \ {r} :
            pc'[q] = pc[q] /\ row'[q] = row[q] /\ cutoff'[q] = cutoff[q]
  BY <1>1, <1>2 DEF TypeOK
<1> QED BY <1>1, <1>3, <1>4, <1>5, StepKeeps DEF Working

\* SELECT: a link it does not find was used, is superseded, or never was one.
LEMMA LookupIInv ==
    ASSUME IInv, NEW r \in Requests, NEW l \in mailed \cup {NoRow}, Lookup(r, l)
    PROVE  IInv'
<1> USE DEF IInv
<1>1. /\ row' = [row EXCEPT ![r] = l] /\ cutoff' = [cutoff EXCEPT ![r] = 0]
      /\ UNCHANGED <<rows, nextId, now, issued, mailed, consumed, honoured>>
  BY DEF Lookup
<1>2. PICK p \in {"consume", "refused", "failed"} :
         /\ pc' = [pc EXCEPT ![r] = p]
         /\ p = "consume" => l \in rows
         /\ p = "refused" => l \notin rows \/ Expired(l)
         /\ raced' = raced \/ (l \in rows /\ raced' = raced \cup {l})
  <2>1. CASE l \in Valid
    <3>1. raced' = raced \/ raced' = raced \cup {l}
      BY <2>1 DEF Lookup
    <3>2. \E p \in {"consume", "failed"} : pc' = [pc EXCEPT ![r] = p]
      BY <2>1 DEF Lookup, GoesTo
    <3> QED BY <2>1, <3>1, <3>2 DEF Valid
  <2>2. CASE l \notin Valid
    <3>1. raced' = raced /\ \E p \in {"refused", "failed"} : pc' = [pc EXCEPT ![r] = p]
      BY <2>2 DEF Lookup, GoesTo
    <3> QED BY <2>2, <3>1 DEF Valid
  <2> QED BY <2>1, <2>2
<1>3. TypeOK'
  BY <1>1, <1>2, ClockAssumption DEF TypeOK, Working, Ended
<1>4. HistoryOK' /\ SpentOK' /\ GoneOK'
  BY <1>1, TablesSame DEF HistoryOK, SpentOK
<1>5. /\ pc'[r] = p /\ row'[r] = l
      /\ \A q \in Requests \ {r} :
            pc'[q] = pc[q] /\ row'[q] = row[q] /\ cutoff'[q] = cutoff[q]
  BY <1>1, <1>2 DEF TypeOK
<1>6. ASSUME pc'[r] = "refused"
      PROVE  l = NoRow \/ l \in consumed' \/ Expired(row[r])' \/ Superseded(issued', l)
  <2>1. CASE l \in issued /\ l \notin rows
    BY <1>1, <2>1 DEF GoneOK
  <2>2. CASE Expired(l)
    BY <1>1, <1>5, <2>2 DEF Expired
  <2> QED BY <1>2, <1>5, <1>6, <2>1, <2>2 DEF HistoryOK
<1>7. pc'[r] \in Working => row'[r] \in issued'
  BY <1>1, <1>2, <1>5 DEF Working, HistoryOK
<1>8. pc'[r] # "change" /\ pc'[r] # "prune"
  BY <1>5
<1> QED BY <1>1, <1>3, <1>4, <1>5, <1>6, <1>7, <1>8, StepKeeps

\* DELETE ... WHERE uuid = ?: the link leaves the table as a used one.
LEMMA ConsumeIInv ==
    ASSUME IInv, NEW r \in Requests, Consume(r)
    PROVE  IInv'
<1> USE DEF IInv
<1>1. /\ pc[r] = "consume" /\ row[r] \in issued
      /\ rows' = rows \ {row[r]} /\ consumed' = consumed \cup {row[r]}
      /\ UNCHANGED <<nextId, now, row, cutoff, issued, mailed, honoured, raced>>
  BY DEF Consume, RowOK, Working
<1>2. PICK p \in {"change", "failed"} : pc' = [pc EXCEPT ![r] = p]
  BY DEF Consume, GoesTo
<1>3. TypeOK'
  BY <1>1, <1>2 DEF TypeOK, Working, Ended
<1>4. HistoryOK' /\ SpentOK'
  BY <1>1 DEF HistoryOK, SpentOK
<1>5. GoneOK'
  BY <1>1 DEF GoneOK
<1>6. /\ pc'[r] \in {"change", "failed"} /\ row'[r] \in consumed'
      /\ \A q \in Requests \ {r} :
            pc'[q] = pc[q] /\ row'[q] = row[q] /\ cutoff'[q] = cutoff[q]
  BY <1>1, <1>2 DEF TypeOK
<1> QED BY <1>1, <1>3, <1>4, <1>5, <1>6, StepKeeps

\* UPDATE userPasswords: only with a link that was used up.
LEMMA ChangePasswordIInv ==
    ASSUME IInv, NEW r \in Requests, ChangePassword(r)
    PROVE  IInv'
<1> USE DEF IInv
<1>1. /\ pc[r] = "change" /\ row[r] \in issued /\ row[r] \in consumed
      /\ honoured' = honoured \cup {row[r]}
      /\ UNCHANGED <<rows, nextId, now, row, cutoff, issued, mailed, consumed, raced>>
  BY DEF ChangePassword, RowOK, Working
<1>2. PICK p \in {"honoured", "failed"} : pc' = [pc EXCEPT ![r] = p]
  BY DEF ChangePassword, GoesTo
<1>3. TypeOK'
  BY <1>1, <1>2 DEF TypeOK, Working, Ended
<1>4. HistoryOK' /\ SpentOK' /\ GoneOK'
  BY <1>1, TablesSame DEF HistoryOK, SpentOK
<1>5. /\ pc'[r] \in {"honoured", "failed"}
      /\ \A q \in Requests \ {r} :
            pc'[q] = pc[q] /\ row'[q] = row[q] /\ cutoff'[q] = cutoff[q]
  BY <1>1, <1>2 DEF TypeOK
<1> QED BY <1>1, <1>3, <1>4, <1>5, StepKeeps DEF Working

\* A chain that is cut touches no table.
LEMMA StepFailsIInv ==
    ASSUME IInv, NEW r \in Requests, StepFails(r)
    PROVE  IInv'
<1> USE DEF IInv
<1>1. /\ pc' = [pc EXCEPT ![r] = "failed"]
      /\ UNCHANGED <<rows, nextId, now, row, cutoff, issued, mailed, consumed, honoured, raced>>
  BY DEF StepFails
<1>2. TypeOK'
  BY <1>1 DEF TypeOK, Working, Ended
<1>3. HistoryOK' /\ SpentOK' /\ GoneOK'
  BY <1>1, TablesSame DEF HistoryOK, SpentOK
<1>4. /\ pc'[r] = "failed"
      /\ \A q \in Requests \ {r} :
            pc'[q] = pc[q] /\ row'[q] = row[q] /\ cutoff'[q] = cutoff[q]
  BY <1>1 DEF TypeOK
<1> QED BY <1>1, <1>2, <1>3, <1>4, StepKeeps DEF Working

\* The clock: a link that is too old stays so.
LEMMA TickIInv ==
    ASSUME IInv, Tick
    PROVE  IInv'
<1> USE DEF IInv
<1>1. /\ now < MaxTime /\ now' = now + 1
      /\ UNCHANGED <<rows, nextId, pc, row, cutoff, issued, mailed, consumed, honoured, raced>>
  BY DEF Tick
<1>2. TypeOK'
  BY <1>1, ClockAssumption DEF TypeOK
<1>3. HistoryOK' /\ RowOK' /\ SpentOK' /\ CutoffOK' /\ GoneOK'
  BY <1>1 DEF HistoryOK, RowOK, SpentOK, CutoffOK, GoneOK
<1>4. ASSUME NEW r \in Requests, row[r] # NoRow, Expired(row[r])
      PROVE  Expired(row[r])'
  <2>1. row[r].born \in Nat /\ now \in Nat
    BY <1>4, ClockAssumption DEF TypeOK, Rows
  <2> QED BY <1>1, <1>4, <2>1, ClockAssumption DEF Expired
<1>5. RefusedOK'
  BY <1>1, <1>4 DEF RefusedOK
<1> QED BY <1>2, <1>3, <1>5

-----------------------------------------------------------------------------
\* The invariant holds of every state of the links and the requests.
THEOREM ResetsInvariant == Spec => []IInv
<1>1. Init => IInv
  <2> SUFFICES ASSUME Init PROVE IInv
    OBVIOUS
  <2>1. TypeOK
    BY ClockAssumption DEF Init, TypeOK, Working, Ended
  <2>2. HistoryOK
    BY FS_EmptySet DEF Init, HistoryOK
  <2>3. RowOK /\ SpentOK /\ CutoffOK /\ GoneOK /\ RefusedOK
    BY DEF Init, RowOK, SpentOK, CutoffOK, GoneOK, RefusedOK, Working
  <2> QED BY <2>1, <2>2, <2>3 DEF IInv
<1>2. IInv /\ [Next]_vars => IInv'
  <2> SUFFICES ASSUME IInv, [Next]_vars PROVE IInv'
    OBVIOUS
  <2>1. ASSUME NEW r \in Requests, RequestReset(r)
        PROVE  IInv'
    BY <2>1, InsertIInv, SelectCutoffIInv, PruneIInv, SendMailIInv DEF RequestReset
  <2>2. ASSUME NEW r \in Requests, UseReset(r)
        PROVE  IInv'
    BY <2>2, LookupIInv, ConsumeIInv, ChangePasswordIInv DEF UseReset
  <2>3. CASE UNCHANGED vars
    BY <2>3 DEF vars, IInv, TypeOK, HistoryOK, RowOK, SpentOK, CutoffOK, GoneOK, RefusedOK,
                Expired
  <2> QED BY <2>1, <2>2, <2>3, StepFailsIInv, TickIInv DEF Next
<1> QED BY <1>1, <1>2, PTL DEF Spec

\* The table, the requests and the history keep their types.
THEOREM ResetsTypeCorrect == Spec => []TypeOK
<1>1. IInv => TypeOK
  BY DEF IInv
<1> QED BY <1>1, ResetsInvariant, PTL

\* A link that changed a password is not in the table: useResetId deletes it
\* before it changes the password, and an id is never given twice.
THEOREM ResetsHonouredIsSpent == Spec => []HonouredIsSpent
<1>1. IInv => HonouredIsSpent
  BY DEF IInv, SpentOK, HonouredIsSpent
<1> QED BY <1>1, ResetsInvariant, PTL

\* A link is refused only if it never was one, was used, is too old, or has
\* Keep newer ones, whatever requests for links run at the same time.
THEOREM ResetsNoUndueRefusal == Spec => []NoUndueRefusal
<1>1. IInv => NoUndueRefusal
  BY DEF IInv, RefusedOK, NoUndueRefusal, Superseded, NewerThan
<1> QED BY <1>1, ResetsInvariant, PTL

-----------------------------------------------------------------------------
(* A second use of a link: only after two requests had found it together.  *)

\* Two requests that have found the same link were seen to, and so was one
\* that is going to use a link which another has deleted or used.
RaceInv ==
    /\ \A q, r \in Requests :
          /\ q # r /\ row[q] = row[r]
          /\ pc[q] \in {"consume", "change"} /\ pc[r] \in {"consume", "change"}
          => row[r] \in raced
    /\ \A r \in Requests :
          \/ pc[r] = "consume" /\ row[r] \in consumed
          \/ pc[r] = "change" /\ row[r] \in honoured
          => row[r] \in raced

\* A step that begins no use of a link keeps it.
LEMMA NoNewUse ==
    ASSUME RaceInv, raced \subseteq raced', consumed' = consumed, honoured' = honoured,
           \A r \in Requests :
              pc'[r] \in {"consume", "change"} => pc'[r] = pc[r] /\ row'[r] = row[r]
    PROVE  RaceInv'
BY DEF RaceInv

\* SELECT: whoever found the link before is a rival, or else has deleted it.
LEMMA LookupRaceInv ==
    ASSUME IInv, RaceInv, NEW r \in Requests, NEW l, Lookup(r, l)
    PROVE  RaceInv'
<1>1. /\ row' = [row EXCEPT ![r] = l] /\ UNCHANGED <<consumed, honoured, rows>>
      /\ raced \subseteq raced'
  BY DEF Lookup
<1>2. /\ DOMAIN pc = Requests /\ DOMAIN row = Requests
  BY DEF IInv, TypeOK
<1>3. ASSUME NEW q \in Requests, q # r
      PROVE  pc'[q] = pc[q] /\ row'[q] = row[q]
  BY <1>1, <1>2, <1>3 DEF Lookup, GoesTo
<1>4. CASE pc'[r] \notin {"consume", "change"}
  <2>1. \A q \in Requests :
           pc'[q] \in {"consume", "change"} => pc'[q] = pc[q] /\ row'[q] = row[q]
    BY <1>3, <1>4
  <2> QED BY <1>1, <2>1, NoNewUse
<1>5. CASE pc'[r] \in {"consume", "change"}
  <2>1. /\ pc'[r] = "consume" /\ row'[r] = l /\ l \in rows
        /\ Rivals(r, l) # {} => l \in raced'
    BY <1>1, <1>2, <1>5 DEF Lookup, GoesTo, Valid
  <2>2. l \notin consumed
    BY <2>1 DEF IInv, SpentOK
  <2>3. ASSUME NEW q \in Requests, q # r, pc[q] \in {"consume", "change"}, row[q] = l
        PROVE  l \in raced'
    <3>1. pc[q] = "consume"
      BY <2>2, <2>3 DEF IInv, RowOK
    <3>2. q \in Rivals(r, l)
      BY <2>3, <3>1 DEF Rivals
    <3> QED BY <2>1, <3>2
  <2>4. ASSUME NEW p \in Requests, NEW q \in Requests, p # q, row'[p] = row'[q],
               pc'[p] \in {"consume", "change"}, pc'[q] \in {"consume", "change"}
        PROVE  row'[q] \in raced'
    <3>1. CASE p = r
      BY <1>3, <2>1, <2>3, <2>4, <3>1
    <3>2. CASE q = r
      BY <1>3, <2>1, <2>3, <2>4, <3>2
    <3>3. CASE p # r /\ q # r
      BY <1>1, <1>3, <2>4, <3>3 DEF RaceInv
    <3> QED BY <3>1, <3>2, <3>3
  <2>5. ASSUME NEW q \in Requests,
               \/ pc'[q] = "consume" /\ row'[q] \in consumed'
               \/ pc'[q] = "change" /\ row'[q] \in honoured'
        PROVE  row'[q] \in raced'
    <3>1. CASE q = r
      BY <1>1, <2>1, <2>2, <2>5, <3>1
    <3>2. CASE q # r
      BY <1>1, <1>3, <2>5, <3>2 DEF RaceInv
    <3> QED BY <3>1, <3>2
  <2> QED BY <2>4, <2>5 DEF RaceInv
<1> QED BY <1>4, <1>5

\* DELETE and UPDATE: a rival that is still to use the link was seen to.
LEMMA UseRaceInv ==
    ASSUME IInv, RaceInv, NEW r \in Requests, Consume(r) \/ ChangePassword(r)
    PROVE  RaceInv'
<1>1. /\ DOMAIN pc = Requests /\ row' = row /\ raced' = raced
      /\ \A q \in Requests \ {r} : pc'[q] = pc[q]
  BY DEF IInv, TypeOK, Consume, ChangePassword, GoesTo
<1>2. CASE Consume(r)
  <2>1. /\ pc[r] = "consume" /\ pc'[r] \in {"change", "failed"}
        /\ consumed' = consumed \cup {row[r]} /\ honoured' = honoured
    BY <1>1, <1>2 DEF Consume, GoesTo
  <2>2. honoured \subseteq consumed
    BY DEF IInv, SpentOK
  <2> QED BY <1>1, <2>1, <2>2 DEF RaceInv
<1>3. CASE ChangePassword(r)
  <2>1. /\ pc[r] = "change" /\ pc'[r] \in {"honoured", "failed"}
        /\ honoured' = honoured \cup {row[r]} /\ consumed' = consumed
    BY <1>1, <1>3 DEF ChangePassword, GoesTo
  <2> QED BY <1>1, <2>1 DEF RaceInv
<1> QED BY <1>2, <1>3

\* Every step keeps RaceInv.
LEMMA NextRaceInv ==
    ASSUME IInv, RaceInv, [Next]_vars
    PROVE  RaceInv'
<1>1. ASSUME NEW r \in Requests, StepFails(r) \/ RequestReset(r)
      PROVE  RaceInv'
  <2>1. /\ raced' = raced /\ consumed' = consumed /\ honoured' = honoured
        /\ \A q \in Requests :
              pc'[q] \in {"consume", "change"} => pc'[q] = pc[q] /\ row'[q] = row[q]
    BY <1>1 DEF StepFails, RequestReset, Insert, SelectCutoff, Prune, SendMail, GoesTo,
                IInv, TypeOK
  <2> QED BY <2>1, NoNewUse
<1>2. ASSUME NEW r \in Requests, UseReset(r)
      PROVE  RaceInv'
  BY <1>2, LookupRaceInv, UseRaceInv DEF UseReset
<1>3. CASE Tick \/ UNCHANGED vars
  BY <1>3, NoNewUse DEF Tick, vars
<1> QED BY <1>1, <1>2, <1>3 DEF Next

\* A link changes a password a second time only if two requests had found it
\* before either deleted it.
THEOREM ResetsHonouredOnceUnlessRaced == Spec => HonouredOnceUnlessRaced
<1>1. Init => RaceInv
  BY DEF Init, RaceInv
<1>2. IInv /\ RaceInv /\ [Next]_vars => RaceInv'
  BY NextRaceInv
<1>3. RaceInv => (\A r \in Requests :
                     ChangePassword(r) => row[r] \notin honoured \/ row[r] \in raced)
  BY DEF RaceInv, ChangePassword
<1> QED BY <1>1, <1>2, <1>3, ResetsInvariant, PTL DEF Spec, HonouredOnceUnlessRaced

-----------------------------------------------------------------------------
(* At most Keep links: what a request finds, and what it has still to delete. *)

\* The links of the request's user that are no newer than its own.
UpTo(r) == {l \in RowsOf(row[r].user) : l.id <= row[r].id}

\* Those that its pruning keeps.
FromCutoff(r) == {l \in UpTo(r) : l.id >= cutoff[r]}

\* A request that prunes leaves at most Keep of them.
KeptOK(r) ==
    /\ pc[r] \in {"prune", "mail", "sent"} => row[r] \in issued
    /\ pc[r] = "prune" => Cardinality(FromCutoff(r)) <= Keep
    /\ pc[r] \in {"mail", "sent"} => Cardinality(UpTo(r)) <= Keep

\* So does every request.
KeptInv == \A r \in Requests : KeptOK(r)

\* A part of a set with at most Keep elements has at most Keep.
LEMMA AtMost ==
    ASSUME NEW S, NEW T, S \subseteq T, IsFiniteSet(T), Cardinality(T) <= Keep
    PROVE  Cardinality(S) <= Keep
<1>1. IsFiniteSet(S) /\ Cardinality(S) <= Cardinality(T)
  BY FS_Subset
<1>2. Cardinality(S) \in Nat /\ Cardinality(T) \in Nat
  BY <1>1, FS_CardinalityType
<1> QED BY <1>1, <1>2, KeepAssumption

\* The sets of links that are counted are finite.
LEMMA LinksFinite ==
    ASSUME IInv, NEW r
    PROVE  IsFiniteSet(RowsOf(row[r].user)) /\ IsFiniteSet(UpTo(r)) /\ IsFiniteSet(FromCutoff(r))
<1>1. IsFiniteSet(rows)
  BY FS_Subset DEF IInv, HistoryOK
<1> QED BY <1>1, FS_Subset DEF RowsOf, UpTo, FromCutoff

\* What others insert is newer, and what they delete makes no link more.
LEMMA OthersKept ==
    ASSUME IInv, NEW q \in Requests, KeptOK(q), issued \subseteq issued',
           \A l \in rows' \ rows : l.id = nextId,
           pc'[q] = pc[q], row'[q] = row[q], cutoff'[q] = cutoff[q]
    PROVE  KeptOK(q)'
<1>1. SUFFICES ASSUME pc[q] \in {"prune", "mail", "sent"}
               PROVE  KeptOK(q)'
  BY DEF KeptOK
<1>2. row[q] \in issued /\ row[q].id < nextId /\ row[q].id \in Nat /\ nextId \in Nat
  BY <1>1, ClockAssumption DEF KeptOK, IInv, HistoryOK, TypeOK, Rows
<1>3. UpTo(q)' \subseteq UpTo(q)
  BY <1>2 DEF UpTo, RowsOf
<1>4. FromCutoff(q)' \subseteq FromCutoff(q)
  BY <1>3 DEF FromCutoff
<1> QED BY <1>1, <1>2, <1>3, <1>4, AtMost, LinksFinite DEF KeptOK

\* SELECT: the Keep newest links begin at the cutoff, or there are fewer.
LEMMA SelectCutoffKept ==
    ASSUME IInv, KeptInv, NEW r \in Requests, SelectCutoff(r)
    PROVE  KeptOK(r)'
<1> DEFINE mine == RowsOf(row[r].user)
<1>1. /\ pc[r] = "cutoff" /\ row[r] \in issued /\ row' = row /\ rows' = rows
      /\ issued' = issued
  BY DEF SelectCutoff, IInv, RowOK, Working
<1>2. DOMAIN pc = Requests /\ DOMAIN cutoff = Requests
  BY DEF IInv, TypeOK
<1>3. UpTo(r)' = UpTo(r) /\ UpTo(r) \subseteq mine
  BY <1>1 DEF UpTo, RowsOf
<1>4. ASSUME NEW l \in mine, Cardinality(NewerOrSame(mine, l)) = Keep,
             cutoff' = [cutoff EXCEPT ![r] = l.id], GoesTo(r, "prune")
      PROVE  KeptOK(r)'
  <2>1. pc'[r] \in {"prune", "failed"} /\ cutoff'[r] = l.id
    BY <1>2, <1>4 DEF GoesTo
  <2>2. FromCutoff(r)' \subseteq NewerOrSame(mine, l)
    BY <1>3, <2>1 DEF FromCutoff, NewerOrSame
  <2>3. IsFiniteSet(NewerOrSame(mine, l))
    BY LinksFinite, FS_Subset DEF NewerOrSame
  <2>4. Cardinality(FromCutoff(r)') <= Keep
    BY <1>4, <2>2, <2>3, AtMost, KeepAssumption
  <2>5. Cardinality(FromCutoff(r))' <= Keep
    BY <2>4
  <2> QED BY <1>1, <2>1, <2>5 DEF KeptOK
<1>5. ASSUME Cardinality(mine) < Keep, GoesTo(r, "mail")
      PROVE  KeptOK(r)'
  <2>1. pc'[r] \in {"mail", "failed"}
    BY <1>2, <1>5 DEF GoesTo
  <2>2. Cardinality(mine) <= Keep
    BY <1>5, LinksFinite, FS_CardinalityType, KeepAssumption
  <2>3. Cardinality(UpTo(r)) <= Keep
    BY <1>3, <2>2, LinksFinite, AtMost
  <2>4. Cardinality(UpTo(r))' <= Keep
    BY <1>3, <2>3
  <2> QED BY <1>1, <2>1, <2>4 DEF KeptOK
<1> QED BY <1>4, <1>5 DEF SelectCutoff

\* DELETE: only links from the cutoff on are left.
LEMMA PruneKept ==
    ASSUME IInv, KeptInv, NEW r \in Requests, Prune(r)
    PROVE  KeptOK(r)'
<1>1. /\ pc[r] = "prune" /\ row' = row /\ cutoff' = cutoff /\ issued' = issued
      /\ rows' = {l \in rows : ~(l.user = row[r].user /\ l.id < cutoff[r])}
      /\ pc'[r] \in {"mail", "failed"}
  BY DEF Prune, GoesTo, IInv, TypeOK
<1>2. \A l \in rows : l.id \in Nat
  BY ClockAssumption DEF IInv, TypeOK, Rows
<1>3. cutoff[r] \in Nat
  BY ClockAssumption DEF IInv, TypeOK
<1>4. UpTo(r)' \subseteq FromCutoff(r)
  BY <1>1, <1>2, <1>3 DEF UpTo, FromCutoff, RowsOf
<1>5. Cardinality(FromCutoff(r)) <= Keep /\ row[r] \in issued
  BY <1>1 DEF KeptInv, KeptOK
<1>6. Cardinality(UpTo(r)') <= Keep
  BY <1>4, <1>5, LinksFinite, AtMost
<1>7. Cardinality(UpTo(r))' <= Keep
  BY <1>6
<1> QED BY <1>1, <1>5, <1>7 DEF KeptOK

\* The other steps of a request have nothing to keep, or change nothing of it.
LEMMA OwnStepKept ==
    ASSUME IInv, KeptInv, NEW r \in Requests,
           \/ \E u \in Users : Insert(r, u)
           \/ SendMail(r) \/ UseReset(r) \/ StepFails(r)
    PROVE  KeptOK(r)'
<1>1. CASE SendMail(r)
  <2>1. /\ pc[r] = "mail" /\ pc'[r] \in {"sent", "failed"}
        /\ row' = row /\ rows' = rows /\ issued' = issued
    BY <1>1 DEF SendMail, GoesTo, IInv, TypeOK
  <2>2. UpTo(r)' = UpTo(r)
    BY <2>1 DEF UpTo, RowsOf
  <2> QED BY <2>1, <2>2 DEF KeptInv, KeptOK
<1>2. CASE (\E u \in Users : Insert(r, u)) \/ UseReset(r) \/ StepFails(r)
  <2>1. pc'[r] \notin {"prune", "mail", "sent"}
    BY <1>2 DEF Insert, UseReset, Lookup, Consume, ChangePassword, StepFails, GoesTo,
                IInv, TypeOK
  <2> QED BY <2>1 DEF KeptOK
<1> QED BY <1>1, <1>2

\* Every step keeps KeptInv.
LEMMA NextKeptInv ==
    ASSUME IInv, KeptInv, [Next]_vars
    PROVE  KeptInv'
<1>1. ASSUME NEW r \in Requests, RequestReset(r) \/ UseReset(r) \/ StepFails(r)
      PROVE  KeptInv'
  <2>1. KeptOK(r)'
    BY <1>1, SelectCutoffKept, PruneKept, OwnStepKept DEF RequestReset
  <2>2. /\ issued \subseteq issued' /\ \A l \in rows' \ rows : l.id = nextId
        /\ \A q \in Requests \ {r} :
              pc'[q] = pc[q] /\ row'[q] = row[q] /\ cutoff'[q] = cutoff[q]
    BY <1>1 DEF RequestReset, UseReset, Insert, SelectCutoff, Prune, SendMail, Lookup, Consume,
                ChangePassword, StepFails, GoesTo, IInv, TypeOK
  <2>3. ASSUME NEW q \in Requests
        PROVE  KeptOK(q)'
    <3>1. CASE q = r
      BY <2>1, <3>1
    <3>2. CASE q # r
      BY <2>2, <3>2, OthersKept DEF KeptInv
    <3> QED BY <3>1, <3>2
  <2> QED BY <2>3 DEF KeptInv
<1>2. CASE Tick \/ UNCHANGED vars
  <2>1. UNCHANGED <<issued, rows, pc, row, cutoff>>
    BY <1>2 DEF Tick, vars
  <2>2. ASSUME NEW q \in Requests
        PROVE  KeptOK(q)'
    BY <2>1, OthersKept DEF KeptInv
  <2> QED BY <2>2 DEF KeptInv
<1> QED BY <1>1, <1>2 DEF Next

\* Once a request has pruned, at most Keep of its user's links no newer than
\* its own are left, whatever other requests insert, prune or use meanwhile.
THEOREM ResetsKeptAtMost == Spec => []KeptAtMost
<1>1. Init => KeptInv
  BY DEF Init, KeptInv, KeptOK
<1>2. IInv /\ KeptInv /\ [Next]_vars => KeptInv'
  BY NextKeptInv
<1>3. KeptInv => KeptAtMost
  BY DEF KeptInv, KeptOK, KeptAtMost, UpTo
<1> QED BY <1>1, <1>2, <1>3, ResetsInvariant, PTL DEF Spec

=============================================================================
