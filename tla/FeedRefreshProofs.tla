-------------------------- MODULE FeedRefreshProofs --------------------------
(***************************************************************************)
(* A feed is refreshed within the period of a recorded refresh only if an  *)
(* older one was under way when that was recorded, for any posts, requests,*)
(* period and failures: the status a check reads may have been written by  *)
(* any refresh, in any order, but only such an older one sets its time     *)
(* back (TimeInv).                                                         *)
(*                                                                         *)
(* "ok" is true, whatever fails: the posts of a download that the filter   *)
(* is not meant to drop are written or still to be written (WriteInv).     *)
(* And the filter loses no text (LossInv), when no step fails, the site    *)
(* publishes in the order of dates and no url is given to another text;    *)
(* the run RefreshLoses shows a text lost when a step fails, and TLC finds *)
(* one lost under an order of dates that the site does not keep.           *)
(***************************************************************************)
EXTENDS FeedRefresh, DataInduction

\* The states of a request.
Phases == Refreshing \cup Ended \cup {"check", "load"}

\* The types of what the times depend on.
TimesOK ==
    /\ now \in Nat
    /\ pc \in [Requests -> Phases]
    /\ readTime \in [Requests -> Nat]
    /\ refreshed \in Nat
    /\ overlapped \in BOOLEAN

\* Unless an older refresh was under way when the latest was recorded, none is
\* now, and nobody has set the status back.
NoneOlder ==
    ~overlapped /\ refreshed # 0 =>
       /\ \A r \in Requests : pc[r] \in Refreshing => refreshed <= readTime[r]
       /\ status.value # "none"
       /\ status.time \in Nat
       /\ refreshed <= status.time

\* The invariant of the times.
TimeInv == TimesOK /\ NoneOlder

-----------------------------------------------------------------------------
\* A request that is not refreshing takes none of this away.
LEMMA Proceeds ==
    ASSUME TimeInv, NEW r \in Requests, NEW p \in Phases, NEW t \in Nat,
           p \in Refreshing => pc[r] \in Refreshing /\ t = readTime[r],
           pc' = [pc EXCEPT ![r] = p], readTime' = [readTime EXCEPT ![r] = t],
           UNCHANGED <<now, status, refreshed, overlapped>>
    PROVE  TimeInv'
<1>1. TimesOK'
  BY DEF TimeInv, TimesOK
<1>2. \A q \in Requests : pc'[q] \in Refreshing => pc[q] \in Refreshing /\ readTime'[q] = readTime[q]
  BY DEF TimeInv, TimesOK
<1> QED BY <1>1, <1>2 DEF TimeInv, NoneOlder

\* A request whose time stays as it is.
LEMMA SameTime ==
    ASSUME TimeInv, NEW r \in Requests, readTime' = readTime
    PROVE  readTime' = [readTime EXCEPT ![r] = readTime[r]] /\ readTime[r] \in Nat
BY DEF TimeInv, TimesOK

\* A request begins, and does not refresh yet.
LEMMA ArriveTimes ==
    ASSUME TimeInv, NEW r \in Requests, Arrive(r)
    PROVE  TimeInv'
<1>1. now \in Nat /\ "check" \in Phases /\ "check" \notin Refreshing
  BY DEF TimeInv, TimesOK, Phases, Refreshing
<1> QED BY <1>1, Proceeds DEF Arrive, GoTo, dbVars, history

\* A check that finds the feed due comes the period after the latest refresh.
LEMMA CheckTimes ==
    ASSUME TimeInv, NEW r \in Requests, Check(r)
    PROVE  TimeInv'
<1>1. UNCHANGED <<now, status, refreshed, overlapped, readTime>>
  BY DEF Check, dbVars, history
<1>2. CASE pc' = [pc EXCEPT ![r] = "load"]
  BY <1>1, <1>2, SameTime, Proceeds DEF Phases, Refreshing
<1>3. CASE pc' = [pc EXCEPT ![r] = "latest"] /\ NeedsUpdate(readTime[r])
  <2>1. TimesOK'
    BY <1>1, <1>3 DEF TimeInv, TimesOK, Phases, Refreshing
  <2>2. ASSUME ~overlapped, refreshed # 0
        PROVE  refreshed <= readTime[r]
    BY <1>3, <2>2, ClockAssumption DEF TimeInv, TimesOK, NoneOlder, NeedsUpdate
  <2>3. \A q \in Requests : q # r => pc'[q] = pc[q]
    BY <1>3 DEF TimeInv, TimesOK
  <2> QED BY <1>1, <2>1, <2>2, <2>3 DEF TimeInv, NoneOlder
<1> QED BY <1>2, <1>3 DEF Check, GoTo

\* Every step before the status is written.
LEMMA ReadingTimes ==
    ASSUME TimeInv, NEW r \in Requests,
           ReadLatest(r) \/ Download(r) \/ WritePost(r) \/ RefreshFails(r)
    PROVE  TimeInv'
<1>1. UNCHANGED <<now, status, refreshed, overlapped, readTime>>
  BY DEF ReadLatest, Download, WritePost, RefreshFails, Rejected, dbVars, history
<1>2. pc[r] \in Refreshing
  BY DEF ReadLatest, Download, WritePost, RefreshFails, Refreshing
<1>3. \E p \in Refreshing : pc' = [pc EXCEPT ![r] = p]
  <2>1. CASE WritePost(r)
    BY <1>2, <2>1 DEF WritePost, TimeInv, TimesOK
  <2>2. CASE ReadLatest(r) \/ Download(r) \/ RefreshFails(r)
    BY <2>2 DEF ReadLatest, Download, RefreshFails, Rejected, GoTo, Refreshing
  <2> QED BY <2>1, <2>2
<1> QED BY <1>1, <1>2, <1>3, SameTime, Proceeds DEF Phases

\* The answer, whatever it is.
LEMMA AnswerTimes ==
    ASSUME TimeInv, NEW r \in Requests, Load(r) \/ AnswerFails(r)
    PROVE  TimeInv'
<1>1. /\ UNCHANGED <<now, status, refreshed, overlapped>>
      /\ readTime' = [readTime EXCEPT ![r] = 0]
      /\ \E p \in Ended : pc' = [pc EXCEPT ![r] = p]
  BY DEF Load, AnswerFails, GoTo, Forget, dbVars, history, Ended
<1>2. \A p \in Ended : p \in Phases /\ p \notin Refreshing
  BY DEF Ended, Refreshing, Phases
<1> QED BY <1>1, <1>2, Proceeds

\* The status gets the time of whoever writes it.
LEMMA StatusTimes ==
    ASSUME TimeInv, NEW r \in Requests, WriteOk(r) \/ WriteError(r)
    PROVE  TimeInv'
<1>1. now' = now /\ readTime[r] \in Nat /\ pc[r] \in Refreshing
  BY DEF WriteOk, WriteError, TimeInv, TimesOK, Refreshing
<1>2. status'.value # "none" /\ status'.time = readTime[r]
  BY DEF WriteOk, WriteError
<1>3. \/ /\ pc' = [pc EXCEPT ![r] = "load"] /\ readTime' = [readTime EXCEPT ![r] = 0]
      \/ /\ pc' = [pc EXCEPT ![r] = "error"] /\ readTime' = readTime
  BY DEF WriteOk, WriteError, GoTo, Forget, Rejected
<1>4. /\ pc' \in [Requests -> Phases] /\ readTime' \in [Requests -> Nat]
      /\ \A q \in Requests : pc'[q] \in Refreshing => pc[q] \in Refreshing /\ readTime'[q] = readTime[q]
  BY <1>1, <1>3 DEF TimeInv, TimesOK, Phases, Refreshing
<1>5. CASE UNCHANGED <<refreshed, overlapped>> /\ (overlapped \/ refreshed = 0 \/ refreshed <= readTime[r])
  BY <1>1, <1>2, <1>4, <1>5 DEF TimeInv, TimesOK, NoneOlder
<1>6. CASE /\ refreshed' = readTime[r]
           /\ overlapped' = \E q \in Requests : pc[q] \in Refreshing /\ readTime[q] < readTime[r]
  <2>1. refreshed' \in Nat /\ overlapped' \in BOOLEAN
    BY <1>1, <1>6
  <2>2. ASSUME ~overlapped', NEW q \in Requests, pc[q] \in Refreshing
        PROVE  refreshed' <= readTime[q]
    <3>1. ~(readTime[q] < readTime[r])
      BY <1>6, <2>2
    <3> QED BY <1>1, <1>6, <3>1 DEF TimeInv, TimesOK
  <2> QED BY <1>1, <1>2, <1>4, <1>6, <2>1, <2>2 DEF TimeInv, TimesOK, NoneOlder
<1>7. overlapped \/ refreshed = 0 \/ refreshed <= readTime[r]
  BY <1>1 DEF TimeInv, NoneOlder
<1> QED BY <1>5, <1>6, <1>7 DEF WriteOk, WriteError, NoteRefresh, history

\* A tick, a restart, a change of the site and a stutter keep the times in order.
LEMMA RestTimes ==
    ASSUME TimeInv, Tick \/ Crash \/ Site \/ UNCHANGED vars
    PROVE  TimeInv'
<1>1. CASE Crash
  BY <1>1 DEF Crash, dbVars, history, TimeInv, TimesOK, NoneOlder, Phases, Ended, Refreshing
<1>2. CASE Tick \/ Site \/ UNCHANGED vars
  <2>1. UNCHANGED <<pc, readTime, status, refreshed, overlapped>> /\ (now' = now \/ now' = now + 1)
    BY <1>2 DEF Tick, Site, Publish, DropOldest, MoveTo, vars, dbVars, history
  <2> QED BY <2>1 DEF TimeInv, TimesOK, NoneOlder
<1> QED BY <1>1, <1>2

\* Whatever fails and whoever overlaps, only a refresh that the latest recorded
\* one has overtaken sets the status back.
THEOREM RefreshTimesInvariant == Spec => []TimeInv
<1>1. Init => TimeInv
  <2> SUFFICES ASSUME Init PROVE TimeInv
    OBVIOUS
  <2>1. TimesOK
    BY ClockAssumption DEF Init, TimesOK, Phases, Ended
  <2>2. NoneOlder
    BY DEF Init, NoneOlder, Refreshing
  <2> QED BY <2>1, <2>2 DEF TimeInv
<1>2. TimeInv /\ [Next]_vars => TimeInv'
  BY ArriveTimes, CheckTimes, ReadingTimes, AnswerTimes, StatusTimes, RestTimes
     DEF Next, Step, StepFails
<1> QED BY <1>1, <1>2, PTL DEF Spec

\* "After an hour, the url does not need an update", but for one way: a refresh
\* begins within the period of one that was recorded as "ok" only if an older
\* one was under way then.
THEOREM RefreshSoonOnlyIfOverlapped == Spec => SoonOnlyIfOverlapped
<1>1. TimeInv /\ [Next]_vars
        => [\A r \in Requests :
               pc[r] = "check" /\ pc'[r] = "latest" /\ ~overlapped =>
                  refreshed = 0 \/ refreshed + Period <= readTime[r]]_vars
  <2> SUFFICES ASSUME TimeInv, Next, NEW r \in Requests, pc[r] = "check", pc'[r] = "latest",
                      ~overlapped, refreshed # 0
               PROVE  refreshed + Period <= readTime[r]
    OBVIOUS
  <2>1. \A q \in Requests : DOMAIN pc = Requests /\ readTime[q] \in Nat
    BY DEF TimeInv, TimesOK
  <2>2. Check(r)
    <3>1. ASSUME NEW q \in Requests, Arrive(q) \/ Step(q) \/ StepFails(q)
          PROVE  Check(r)
      BY <2>1, <3>1 DEF Arrive, Step, StepFails, Check, ReadLatest, Download, WritePost, WriteOk,
                        WriteError, Load, RefreshFails, AnswerFails, Rejected, GoTo, Ended
    <3>2. ~Crash
      BY DEF Crash
    <3>3. ~Site /\ ~Tick
      BY DEF Site, Publish, DropOldest, MoveTo, Tick
    <3> QED BY <3>1, <3>2, <3>3 DEF Next
  <2>3. NeedsUpdate(readTime[r])
    BY <2>1, <2>2 DEF Check, GoTo
  <2> QED BY <2>1, <2>3, ClockAssumption DEF NeedsUpdate, TimeInv, TimesOK, NoneOlder
<1> QED BY <1>1, RefreshTimesInvariant, PTL DEF Spec, SoonOnlyIfOverlapped

-----------------------------------------------------------------------------
(* What the filter keeps.                                                    *)

\* What the assumptions on the constants say of the dates.
LEMMA DateFacts ==
    /\ NoDate \in Dates /\ Dates \subseteq Nat /\ 0..(MaxTime + 1) \subseteq Dates
    /\ \A p \in Posts : p.date \in Dates
BY PostsAssumption, ClockAssumption DEF Dates, NoDate

\* A post becomes a row with its url, its text and a date; its own, if it has one.
LEMMA RecordIsRow ==
    ASSUME TypeOK, NEW p \in Posts
    PROVE  /\ Record(p) \in RowsOf(Posts)
           /\ Record(p).url = p.url /\ Record(p).article = p.article
           /\ p.date # NoDate => Record(p).date = p.date
<1>1. p = [article |-> p.article, url |-> p.url, date |-> p.date] /\ p.date \in Nat
  BY PostsAssumption
<1>2. now \in Dates /\ p.date \in Dates
  BY ClockAssumption DEF TypeOK, Dates
<1>3. Record(p) = [article |-> p.article, url |-> p.url,
                   date |-> IF p.date = NoDate THEN now ELSE p.date]
  BY <1>1 DEF Record
<1> QED BY <1>1, <1>2, <1>3 DEF RowsOf

\* The filter keeps the posts that are not older, and only these.
LEMMA KeptRows ==
    ASSUME TypeOK, NEW d
    PROVE  /\ Kept(d) \in Seq(RowsOf(Posts))
           /\ \A k \in DOMAIN Kept(d) : \E p \in Listed :
                 NotOlder(p, d) /\ Kept(d)[k] = Record(p)
           /\ \A p \in Listed : NotOlder(p, d) =>
                 \E k \in DOMAIN Kept(d) : Kept(d)[k] = Record(p)
<1> DEFINE n == Len(feed)
           rec == [i \in 1..n |-> Record(feed[i])]
           keep == {i \in 1..n : NotOlder(feed[i], d)}
           kept[i \in 0..n] ==
              IF i = 0 THEN <<>>
              ELSE IF NotOlder(feed[i], d) THEN Append(kept[i - 1], Record(feed[i]))
              ELSE kept[i - 1]
<1>1. n \in Nat /\ DOMAIN feed = 1..n /\ \A i \in 1..n : feed[i] \in Posts
  BY DEF TypeOK
<1>2. rec \in [1..n -> RowsOf(Posts)]
  BY <1>1, RecordIsRow
<1>3. PICK f : Collects(f, RowsOf(Posts), n, rec, keep)
  <2> HIDE DEF n, rec, keep
  <2> QED BY <1>1, <1>2, CollectsExists, Zenon
<1>4. f = [i \in 0..n |->
              IF i = 0 THEN <<>>
              ELSE IF NotOlder(feed[i], d) THEN Append(f[i - 1], Record(feed[i]))
              ELSE f[i - 1]]
  <2>1. /\ f \in [0..n -> Seq(RowsOf(Posts))] /\ f[0] = <<>>
        /\ \A i \in 1..n : f[i] = IF NotOlder(feed[i], d)
                                   THEN Append(f[i - 1], Record(feed[i])) ELSE f[i - 1]
    BY <1>3 DEF Collects
  <2>2. \A i \in 0..n : i = 0 \/ (i # 0 /\ i \in 1..n)
    BY <1>1
  <2> HIDE DEF n
  <2> QED BY <2>1, <2>2
<1>5. kept = [i \in 0..n |->
              IF i = 0 THEN <<>>
              ELSE IF NotOlder(feed[i], d) THEN Append(kept[i - 1], Record(feed[i]))
              ELSE kept[i - 1]]
  BY <1>4
<1>6. Collects(kept, RowsOf(Posts), n, rec, keep)
  <2> DEFINE m == n
             K == kept
  <2>1. m \in Nat /\ \A i \in 1..m : Record(feed[i]) \in RowsOf(Posts)
    BY <1>1, RecordIsRow
  <2>2. K = [i \in 0..m |->
              IF i = 0 THEN <<>>
              ELSE IF NotOlder(feed[i], d) THEN Append(K[i - 1], Record(feed[i]))
              ELSE K[i - 1]]
    BY <1>5
  <2>3. K[0] = <<>> /\ \A i \in 1..m :
           K[i] = IF NotOlder(feed[i], d) THEN Append(K[i - 1], Record(feed[i])) ELSE K[i - 1]
    <3> HIDE DEF m, K
    <3>1. 0 \in 0..m /\ \A i \in 1..m : i \in 0..m /\ i # 0
      BY <2>1
    <3> QED BY <2>2, <3>1, Zenon
  <2>4. K = [i \in 0..m |-> K[i]]
    <3> HIDE DEF m, K
    <3> QED BY <2>2
  <2>5. \A i \in 1..m :
           K[i] = IF i \in keep THEN Append(K[i - 1], rec[i]) ELSE K[i - 1]
    <3>1. \A i \in 1..m : (i \in keep <=> NotOlder(feed[i], d)) /\ rec[i] = Record(feed[i])
      OBVIOUS
    <3> HIDE DEF m, K, keep, rec
    <3> QED BY <2>3, <3>1
  <2>6. K[0] = <<>>
    <3> HIDE DEF m, K
    <3> QED BY <2>3
  <2>7. rec \in [1..m -> RowsOf(Posts)]
    BY <1>2
  <2>8. Collects(K, RowsOf(Posts), m, rec, keep)
    <3> HIDE DEF m, K, rec, keep
    <3> QED BY <2>1, <2>4, <2>5, <2>6, <2>7, CollectsTyped
  <2> QED BY <2>8
<1>7. Kept(d) = kept[n]
  BY DEF Kept
<1>8. Selected(Kept(d), RowsOf(Posts), 1..n, rec, keep)
  <2> HIDE DEF n, rec, keep, kept
  <2> QED BY <1>1, <1>2, <1>6, <1>7, CollectsSelects
<1>9. DOMAIN Kept(d) = 1..Len(Kept(d)) /\ Kept(d) \in Seq(RowsOf(Posts))
  BY <1>8 DEF Selected
<1>10. Listed = {feed[i] : i \in 1..n}
  BY <1>1 DEF Listed
<1>11. /\ \A k \in 1..Len(Kept(d)) : \E j \in 1..n :
             NotOlder(feed[j], d) /\ Kept(d)[k] = Record(feed[j])
       /\ \A j \in 1..n : NotOlder(feed[j], d) =>
             \E k \in 1..Len(Kept(d)) : Kept(d)[k] = Record(feed[j])
  BY <1>8 DEF Selected
<1> HIDE DEF n, keep, rec
<1>12. ASSUME NEW k \in DOMAIN Kept(d)
       PROVE  \E p \in Listed : NotOlder(p, d) /\ Kept(d)[k] = Record(p)
  <2>1. PICK j \in 1..n : NotOlder(feed[j], d) /\ Kept(d)[k] = Record(feed[j])
    BY <1>9, <1>11
  <2>2. feed[j] \in Listed
    BY <1>10
  <2> QED BY <2>1, <2>2
<1>13. ASSUME NEW p \in Listed, NotOlder(p, d)
       PROVE  \E k \in DOMAIN Kept(d) : Kept(d)[k] = Record(p)
  <2>1. PICK j \in 1..n : p = feed[j]
    BY <1>10
  <2> QED BY <1>9, <1>11, <1>13, <2>1
<1> QED BY <1>9, <1>12, <1>13

-----------------------------------------------------------------------------
(* Types.                                                                    *)

\* What a step writes for a request is of the right type.
LEMMA StepValues ==
    ASSUME TypeOK
    PROVE  /\ now \in 0..(MaxTime + 1) /\ 0 \in 0..(MaxTime + 1) /\ NoDate \in Dates
           /\ {} \in SUBSET Posts /\ <<>> \in Seq(RowsOf(Posts))
           /\ Listed \in SUBSET Posts
           /\ {"check", "latest", "load", "download", "write", "error", "answered", "empty"}
                 \subseteq Refreshing \cup Ended \cup {"check", "load"}
<1>1. {"check", "latest", "load", "download", "write", "error", "answered", "empty"}
         \subseteq Refreshing \cup Ended \cup {"check", "load"}
  BY DEF Refreshing, Ended
<1> QED BY <1>1, DateFacts, ClockAssumption DEF TypeOK, Listed

\* A step of one request: its place and each part of its data stays, or gets a
\* value of its type.
OneRequest(r) ==
    /\ \/ pc' = pc
       \/ \E next \in Refreshing \cup Ended \cup {"check", "load"} : pc' = [pc EXCEPT ![r] = next]
    /\ readTime' = readTime \/ \E t \in 0..(MaxTime + 1) : readTime' = [readTime EXCEPT ![r] = t]
    /\ latest' = latest \/ \E d \in Dates : latest' = [latest EXCEPT ![r] = d]
    /\ fetched' = fetched \/ \E F \in SUBSET Posts : fetched' = [fetched EXCEPT ![r] = F]
    /\ left' = left \/ \E l \in Seq(RowsOf(Posts)) : left' = [left EXCEPT ![r] = l]

\* What is kept for the requests is of its type.
RequestsTyped ==
    /\ pc \in [Requests -> Refreshing \cup Ended \cup {"check", "load"}]
    /\ readTime \in [Requests -> 0..(MaxTime + 1)]
    /\ latest \in [Requests -> Dates]
    /\ fetched \in [Requests -> SUBSET Posts]
    /\ left \in [Requests -> Seq(RowsOf(Posts))]

\* A step of one request keeps it so.
LEMMA OneRequestTypes ==
    ASSUME RequestsTyped, NEW r \in Requests, OneRequest(r)
    PROVE  RequestsTyped'
<1> USE DEF RequestsTyped, OneRequest
<1>1. pc' \in [Requests -> Refreshing \cup Ended \cup {"check", "load"}]
  OBVIOUS
<1>2. readTime' \in [Requests -> 0..(MaxTime + 1)] /\ latest' \in [Requests -> Dates]
  OBVIOUS
<1>3. fetched' \in [Requests -> SUBSET Posts]
  OBVIOUS
<1>4. left' \in [Requests -> Seq(RowsOf(Posts))]
  OBVIOUS
<1> QED BY <1>1, <1>2, <1>3, <1>4

\* Every handler step is one.
LEMMA OneRequestSteps ==
    ASSUME TypeOK, NEW r \in Requests, Arrive(r) \/ Step(r) \/ StepFails(r)
    PROVE  OneRequest(r)
<1> USE StepValues DEF OneRequest
<1>1. CASE Arrive(r) \/ Check(r)
  BY <1>1 DEF Arrive, Check, GoTo
<1>2. CASE ReadLatest(r)
  BY <1>2 DEF ReadLatest, GoTo
<1>3. CASE Download(r)
  BY <1>3, KeptRows DEF Download, GoTo
<1>4. CASE WritePost(r)
  <2>1. Tail(left[r]) \in Seq(RowsOf(Posts))
    BY <1>4 DEF WritePost, TypeOK
  <2> QED BY <1>4, <2>1 DEF WritePost
<1>5. CASE WriteOk(r) \/ WriteError(r)
  BY <1>5 DEF WriteOk, WriteError, Rejected, GoTo, Forget, ForgetPosts
<1>6. CASE Load(r)
  BY <1>6 DEF Load, GoTo, Forget, ForgetPosts
<1>7. CASE StepFails(r)
  BY <1>7 DEF StepFails, RefreshFails, AnswerFails, Rejected, GoTo, Forget, ForgetPosts
<1> QED BY <1>1, <1>2, <1>3, <1>4, <1>5, <1>6, <1>7 DEF Step

\* What it changes in the tables is typed as well.
LEMMA StepTypes ==
    ASSUME TypeOK, NEW r \in Requests, Arrive(r) \/ Step(r) \/ StepFails(r)
    PROVE  TypeOK'
<1>1. RequestsTyped'
  BY OneRequestSteps, OneRequestTypes DEF TypeOK, RequestsTyped
<1>2. CASE Arrive(r) \/ Check(r) \/ ReadLatest(r) \/ Download(r) \/ Load(r) \/ StepFails(r)
  <2>1. UNCHANGED <<siteVars, now, dbVars, history>>
    BY <1>2 DEF Arrive, Check, ReadLatest, Download, Load, StepFails, RefreshFails, AnswerFails
  <2> QED BY <1>1, <2>1 DEF TypeOK, RequestsTyped, siteVars, dbVars, history
<1>3. CASE WritePost(r)
  <2>1. Head(left[r]) \in RowsOf(Posts)
    BY <1>3 DEF WritePost, TypeOK
  <2>2. stored' \subseteq RowsOf(Posts)
    BY <1>3, <2>1 DEF WritePost, Store, TypeOK
  <2> QED BY <1>1, <1>3, <2>2 DEF WritePost, TypeOK, RequestsTyped, siteVars, history
<1>4. CASE WriteOk(r) \/ WriteError(r)
  <2>1. readTime[r] \in 0..(MaxTime + 1) /\ fetched[r] \in SUBSET Posts
    BY DEF TypeOK
  <2>2. status' \in [value : {"none", "ok", "error"}, time : 0..(MaxTime + 1)]
    BY <1>4, <2>1 DEF WriteOk, WriteError
  <2>3. /\ missed' \subseteq Posts /\ refreshed' \in 0..(MaxTime + 1)
        /\ overlapped' \in BOOLEAN
    <3>1. CASE WriteOk(r)
      <4>1. missed' \subseteq Posts
        BY <2>1, <3>1 DEF WriteOk, NoteMissed, TypeOK
      <4>2. refreshed' \in 0..(MaxTime + 1)
        BY <2>1, <3>1 DEF WriteOk, NoteRefresh, TypeOK
      <4>3. overlapped' \in BOOLEAN
        BY <3>1 DEF WriteOk, NoteRefresh, TypeOK
      <4> QED BY <4>1, <4>2, <4>3
    <3>2. CASE WriteError(r)
      BY <3>2 DEF WriteError, TypeOK, history
    <3> QED BY <1>4, <3>1, <3>2
  <2>4. UNCHANGED <<siteVars, now, stored>>
    BY <1>4 DEF WriteOk, WriteError
  <2> QED BY <1>1, <2>2, <2>3, <2>4 DEF TypeOK, RequestsTyped, siteVars
<1> QED BY <1>2, <1>3, <1>4 DEF Step

\* So is what the site publishes.
LEMMA SiteTypes ==
    ASSUME TypeOK, Site
    PROVE  TypeOK'
<1>1. ASSUME NEW p \in Posts, Publish(p)
      PROVE  TypeOK'
  BY <1>1, DateFacts DEF Publish, TypeOK, dbVars, history
<1>2. CASE DropOldest
  BY <1>2 DEF DropOldest, TypeOK, dbVars, history
<1>3. ASSUME NEW i \in DOMAIN feed, NEW p \in Posts, MoveTo(i, p)
      PROVE  TypeOK'
  BY <1>3 DEF MoveTo, TypeOK, dbVars, history
<1> QED BY <1>1, <1>2, <1>3 DEF Site

\* Nothing is stored, read or asked for yet.
LEMMA InitTypes == Init => TypeOK
<1> SUFFICES ASSUME Init PROVE TypeOK
  OBVIOUS
<1>1. overlapped \in BOOLEAN
  BY DEF Init
<1>2. /\ status \in [value : {"none", "ok", "error"}, time : 0..(MaxTime + 1)]
      /\ now \in 1..(MaxTime + 1) /\ refreshed \in 0..(MaxTime + 1)
      /\ readTime \in [Requests -> 0..(MaxTime + 1)]
  BY ClockAssumption DEF Init
<1>3. /\ feed \in Seq(Posts) /\ newest \in Dates /\ stored \subseteq RowsOf(Posts)
      /\ latest \in [Requests -> Dates] /\ left \in [Requests -> Seq(RowsOf(Posts))]
  BY DateFacts, ClockAssumption DEF Init
<1>4. /\ pc \in [Requests -> Refreshing \cup Ended \cup {"check", "load"}]
      /\ fetched \in [Requests -> SUBSET Posts] /\ missed \subseteq Posts
  BY DEF Init, Ended
<1> QED BY <1>1, <1>2, <1>3, <1>4 DEF TypeOK

\* Every table, and every variable of every request, holds what it should: the
\* filter drops posts and dates others, and makes rows of all it keeps.
THEOREM RefreshTypes == Spec => []TypeOK
<1>1. Init => TypeOK
  BY InitTypes
<1>2. TypeOK /\ [Next]_vars => TypeOK'
  <2> SUFFICES ASSUME TypeOK, [Next]_vars PROVE TypeOK'
    OBVIOUS
  <2>1. CASE Crash
    BY <2>1, StepValues DEF Crash, TypeOK, siteVars, dbVars, history, Ended
  <2>2. CASE Tick
    BY <2>2, ClockAssumption DEF Tick, TypeOK, siteVars, dbVars, history
  <2>3. CASE UNCHANGED vars
    BY <2>3 DEF vars, TypeOK, siteVars, dbVars, history
  <2> QED BY <2>1, <2>2, <2>3, StepTypes, SiteTypes DEF Next
<1> QED BY <1>1, <1>2, PTL DEF Spec

-----------------------------------------------------------------------------
(* "ok" is written when the posts are.                                       *)

\* A row with this url is in the database.
Written(url) == \E s \in stored : s.url = url

\* What a refresh has downloaded and not filtered is written, or left to write.
WrittenOrLeft(r) ==
    pc[r] = "write" =>
       \A p \in fetched[r] :
          p.date >= latest[r] =>
             Written(p.url) \/ \E i \in DOMAIN left[r] : left[r][i].url = p.url

\* The invariant of the writes.
WriteInv == TypeOK /\ \A r \in Requests : WrittenOrLeft(r)

\* The refresh of a request that a step is not about stays as it is.
Untouched(q) ==
    UNCHANGED <<pc[q], latest[q], fetched[q], left[q]>>

\* What a step does to the refresh of a request: nothing, a part of its writing,
\* or it is not in the middle of writing afterwards.
LEMMA RefreshSteps ==
    ASSUME TypeOK, [Next]_vars, NEW q \in Requests
    PROVE  Untouched(q) \/ pc'[q] # "write" \/ Download(q) \/ WritePost(q)
<1>1. ASSUME NEW r \in Requests, Arrive(r) \/ Step(r) \/ StepFails(r)
      PROVE  Untouched(q) \/ pc'[q] # "write" \/ Download(q) \/ WritePost(q)
  <2>1. CASE r = q
    <3>1. CASE Download(q) \/ WritePost(q)
      BY <3>1
    <3>2. CASE Arrive(q) \/ Check(q) \/ ReadLatest(q) \/ WriteOk(q) \/ WriteError(q) \/ Load(q)
               \/ StepFails(q)
      <4>1. \E next \in {"check", "latest", "load", "download", "error", "answered", "empty"} :
               GoTo(q, next)
        BY <3>2 DEF Arrive, Check, ReadLatest, WriteOk, WriteError, Load, StepFails,
                    RefreshFails, AnswerFails, Rejected, GoTo
      <4> QED BY <4>1 DEF GoTo, TypeOK
    <3> QED BY <1>1, <2>1, <3>1, <3>2 DEF Step
  <2>2. CASE r # q
    <3>1. OneRequest(r)
      BY <1>1, OneRequestSteps
    <3> QED BY <2>2, <3>1 DEF OneRequest, Untouched, TypeOK
  <2> QED BY <2>1, <2>2
<1>2. CASE Crash
  BY <1>2 DEF Crash
<1>3. CASE Site \/ Tick \/ UNCHANGED vars
  BY <1>3 DEF Site, Publish, DropOldest, MoveTo, Tick, vars, Untouched
<1> QED BY <1>1, <1>2, <1>3 DEF Next

\* No step takes a post away or lets another post take its url.
LEMMA StoredStays ==
    ASSUME [Next]_vars
    PROVE  stored \subseteq stored'
<1>1. ASSUME NEW r \in Requests, Arrive(r) \/ Step(r) \/ StepFails(r)
      PROVE  stored \subseteq stored'
  BY <1>1 DEF Arrive, Step, StepFails, Check, ReadLatest, Download, WritePost, WriteOk, WriteError,
              Load, RefreshFails, AnswerFails, Store, dbVars
<1>2. CASE Crash \/ Site \/ Tick \/ UNCHANGED vars
  BY <1>2 DEF Crash, Site, Publish, DropOldest, MoveTo, Tick, vars, dbVars
<1> QED BY <1>1, <1>2 DEF Next

\* A row that is taken from the list is written, unless its url is there.
LEMMA HeadIsWritten ==
    ASSUME TypeOK, NEW r \in Requests, WritePost(r)
    PROVE  /\ \A i \in DOMAIN left[r] :
                 \/ i = 1
                 \/ i - 1 \in DOMAIN left'[r] /\ left'[r][i - 1] = left[r][i]
           /\ \A j \in DOMAIN left'[r] :
                 j + 1 \in DOMAIN left[r] /\ left'[r][j] = left[r][j + 1]
           /\ 1 \in DOMAIN left[r] /\ stored' = Store(left[r][1])
<1>1. /\ left[r] \in Seq(RowsOf(Posts)) /\ left[r] # <<>>
      /\ left'[r] = Tail(left[r]) /\ stored' = Store(Head(left[r]))
  BY DEF WritePost, TypeOK
<1> DEFINE l == left[r]
           m == left'[r]
<1>2. l \in Seq(RowsOf(Posts)) /\ l # <<>> /\ m = Tail(l) /\ stored' = Store(Head(l))
  BY <1>1
<1> HIDE DEF l, m
<1>3. /\ Len(l) \in Nat /\ Len(l) > 0 /\ DOMAIN l = 1..Len(l) /\ Head(l) = l[1]
      /\ DOMAIN m = 1..(Len(l) - 1)
      /\ \A j \in 1..(Len(l) - 1) : m[j] = l[j + 1]
  BY <1>2
<1>4. /\ \A i \in DOMAIN l : i = 1 \/ (i - 1 \in DOMAIN m /\ m[i - 1] = l[i])
      /\ \A j \in DOMAIN m : j + 1 \in DOMAIN l /\ m[j] = l[j + 1]
      /\ 1 \in DOMAIN l
  BY <1>3
<1> QED BY <1>2, <1>3, <1>4 DEF l, m

\* Writing a post takes it off the list and puts it in the table, where it stays.
LEMMA WrittenOrLeftNext ==
    ASSUME TypeOK, [Next]_vars, NEW q \in Requests, WrittenOrLeft(q)
    PROVE  WrittenOrLeft(q)'
<1>1. SUFFICES ASSUME pc'[q] = "write", NEW p \in fetched'[q], p.date >= latest'[q]
               PROVE  Written(p.url)' \/ \E i \in DOMAIN left'[q] : left'[q][i].url = p.url
  BY DEF WrittenOrLeft
<1>2. \A url : Written(url) => Written(url)'
  BY StoredStays DEF Written
<1>3. CASE Untouched(q)
  BY <1>1, <1>2, <1>3 DEF Untouched, WrittenOrLeft
<1>4. CASE Download(q)
  <2>1. /\ p \in Listed /\ p \in Posts /\ p.date >= latest[q] /\ left'[q] = Kept(latest[q])
    BY <1>1, <1>4, StepValues DEF Download, TypeOK
  <2>2. PICK k \in DOMAIN Kept(latest[q]) : Kept(latest[q])[k] = Record(p)
    BY <2>1, KeptRows DEF NotOlder
  <2> QED BY <2>1, <2>2, RecordIsRow
<1>5. CASE WritePost(q)
  <2>1. p \in fetched[q] /\ p.date >= latest[q] /\ pc[q] = "write"
    BY <1>1, <1>5 DEF WritePost
  <2>2. CASE Written(p.url)
    BY <1>2, <2>2
  <2>3. CASE \E i \in DOMAIN left[q] : left[q][i].url = p.url
    <3>1. PICK i \in DOMAIN left[q] : left[q][i].url = p.url
      BY <2>3
    <3>2. CASE i = 1
      BY <1>5, <3>1, <3>2, HeadIsWritten DEF Store, Written
    <3>3. CASE i # 1
      BY <1>5, <3>1, <3>3, HeadIsWritten
    <3> QED BY <3>2, <3>3
  <2> QED BY <2>1, <2>2, <2>3 DEF WrittenOrLeft
<1> QED BY <1>1, <1>3, <1>4, <1>5, RefreshSteps

\* In every state, whatever fails and whoever overlaps.
THEOREM RefreshWritesInvariant == Spec => []WriteInv
<1>1. Init => \A r \in Requests : WrittenOrLeft(r)
  BY DEF Init, WrittenOrLeft
<1>2. TypeOK /\ (\A r \in Requests : WrittenOrLeft(r)) /\ [Next]_vars
        => (\A r \in Requests : WrittenOrLeft(r))'
  BY WrittenOrLeftNext
<1> QED BY <1>1, <1>2, RefreshTypes, PTL DEF Spec, WriteInv

\* A feed is recorded as "ok" only by WriteOk, when nothing is left to write.
LEMMA OkStep ==
    ASSUME TypeOK, [Next]_vars, NEW r \in Requests, pc[r] = "write", pc'[r] # "write",
           pc'[r] = "load" \/ status' # status
    PROVE  left[r] = <<>>
<1>1. ~UNCHANGED vars
  BY DEF vars
<1>2. ASSUME NEW q \in Requests, Arrive(q) \/ Step(q) \/ StepFails(q)
      PROVE  left[r] = <<>>
  <2>1. q = r
    <3>1. OneRequest(q)
      BY <1>2, OneRequestSteps
    <3> QED BY <3>1 DEF OneRequest, TypeOK
  <2>2. WriteOk(r) \/ RefreshFails(r)
    BY <1>2, <2>1 DEF Arrive, Step, StepFails, Check, ReadLatest, Download, WritePost, WriteError,
                      Load, AnswerFails, Ended
  <2>3. ~RefreshFails(r)
    BY DEF RefreshFails, Rejected, GoTo, TypeOK, dbVars
  <2> QED BY <2>2, <2>3 DEF WriteOk
<1>3. ~Crash
  BY DEF Crash, dbVars
<1>4. ~Site /\ ~Tick
  BY DEF Site, Publish, DropOldest, MoveTo, Tick
<1> QED BY <1>1, <1>2, <1>3, <1>4 DEF Next

\* The status "ok" is true: a refresh records it only when each post of its
\* download that the filter is not meant to drop is in the database.
THEOREM RefreshOkMeansWritten == Spec => OkMeansWritten
<1>1. WriteInv /\ [Next]_vars
        => [\A r \in Requests :
               pc[r] = "write" /\ pc'[r] # "write" /\ (pc'[r] = "load" \/ status' # status) =>
                  \A p \in fetched[r] :
                     p.date >= latest[r] => \E s \in stored : s.url = p.url]_vars
  BY OkStep DEF WriteInv, WrittenOrLeft, Written
<1> QED BY <1>1, RefreshWritesInvariant, PTL DEF Spec, OkMeansWritten

-----------------------------------------------------------------------------
(* The filter loses nothing, if no step fails, the site publishes in the     *)
(* order of dates, and an url is not given to another text.  A post that is  *)
(* older than a stored one was listed with it or before it, and whoever      *)
(* downloaded that one has downloaded this one too (NoneOlderMissing).       *)

\* The rows that are stored or will be.
LeftRows(r) == {left[r][i] : i \in DOMAIN left[r]}
\* The rows of the table and those on their way to it.
Rows == stored \cup UNION {LeftRows(r) : r \in Requests}

\* One of them has the text.
Covered(a) == \E row \in Rows : row.article = a

\* Dates of the site only grow, and dates of rows are dates of the site.
DatesFollow ==
    /\ \A p \in Listed : p.date # NoDate /\ p.date <= newest
    /\ \A row \in Rows : row.date <= newest
    /\ \A r \in Requests : latest[r] = NoDate \/ \E s \in stored : s.date = latest[r]

\* A row has the url and the text of a post; only a writing request has some left.
RowsArePosts ==
    /\ \A row \in Rows : \E p \in Posts : p.url = row.url /\ p.article = row.article
    /\ \A r \in Requests : pc[r] # "write" => left[r] = <<>>

\* No listed post that is older than a row is missing.
NoneOlderMissing ==
    \A row \in Rows, p \in Listed : p.date < row.date => Covered(p.article)

\* What was recorded as "ok", or is being written, has its row.
AllCovered ==
    /\ \A p \in missed : Covered(p.article)
    /\ \A r \in Requests : pc[r] = "write" => \A p \in fetched[r] : Covered(p.article)

\* The invariant of the texts.
LossInv == TypeOK /\ DatesFollow /\ RowsArePosts /\ NoneOlderMissing /\ AllCovered

\* No url is given to another text.
UrlsStay == \A p, q \in Posts : p.url = q.url => p.article = q.article

\* Nothing is published yet.
LEMMA LossInit ==
    ASSUME Init
    PROVE  LossInv
<1>1. TypeOK
  BY InitTypes
<1>2. Listed = {} /\ Rows = {}
  BY DEF Init, Listed, Rows, LeftRows
<1> QED BY <1>1, <1>2 DEF Init, LossInv, DatesFollow, RowsArePosts, NoneOlderMissing, AllCovered

\* The feed lists posts, each of them with its date.
LEMMA ListedPosts ==
    ASSUME TypeOK
    PROVE  Listed \subseteq Posts /\ \A p \in Listed : p.date \in Nat
BY StepValues, DateFacts

\* The rows are rows of posts, each of them with its date.
LEMMA RowDates ==
    ASSUME TypeOK
    PROVE  Rows \subseteq RowsOf(Posts) /\ \A row \in Rows : row.date \in Nat
<1>1. \A r \in Requests : LeftRows(r) \subseteq RowsOf(Posts)
  <2> SUFFICES ASSUME NEW r \in Requests, NEW i \in DOMAIN left[r]
               PROVE  left[r][i] \in RowsOf(Posts)
    BY DEF LeftRows
  <2>1. left[r] \in Seq(RowsOf(Posts))
    BY DEF TypeOK
  <2> QED BY <2>1
<1>2. \A row \in RowsOf(Posts) : row.date \in Nat
  BY DateFacts DEF RowsOf
<1> QED BY <1>1, <1>2 DEF Rows, TypeOK

\* The site publishes nothing that is older than a row, and what it drops or
\* moves was covered by its text.
LEMMA LossSite ==
    ASSUME LossInv, Chronological, Site
    PROVE  LossInv'
<1>1. TypeOK /\ TypeOK'
  BY SiteTypes DEF LossInv
<1>2. UNCHANGED <<stored, pc, latest, fetched, left, missed>>
  BY DEF Site, Publish, DropOldest, MoveTo, dbVars, history
<1>3. Rows' = Rows /\ \A a : Covered(a)' <=> Covered(a)
  BY <1>2 DEF Rows, LeftRows, Covered
<1>4. newest \in Nat /\ newest' \in Nat
  BY <1>1, DateFacts DEF TypeOK
<1>5. newest <= newest'
  <2>1. ASSUME NEW p \in Posts, Publish(p)
        PROVE  newest <= newest'
    BY <1>4, <2>1, PostsAssumption DEF Publish
  <2> QED BY <1>4, <2>1 DEF Site, DropOldest, MoveTo
<1>6. ASSUME NEW p \in Listed'
      PROVE  \/ p.date # NoDate /\ p.date >= newest /\ p.date <= newest'
             \/ \E q \in Listed : q.article = p.article /\ q.date = p.date
  <2>1. PICK i \in DOMAIN feed' : p = feed'[i]
    BY DEF Listed
  <2>2. feed \in Seq(Posts)
    BY <1>1 DEF TypeOK
  <2>3. ASSUME NEW n \in Posts, Publish(n)
        PROVE  \/ p = n
               \/ p \in Listed
    <3>1. feed' = <<n>> \o feed
      BY <2>3 DEF Publish
    <3>2. \A k \in DOMAIN feed' : k = 1 \/ (k - 1 \in DOMAIN feed /\ feed'[k] = feed[k - 1])
      BY <2>2, <3>1
    <3>3. feed'[1] = n
      BY <2>2, <3>1
    <3> QED BY <2>1, <3>2, <3>3 DEF Listed
  <2>4. CASE DropOldest
    <3>1. \A k \in DOMAIN feed' : k \in DOMAIN feed /\ feed'[k] = feed[k]
      BY <2>2, <2>4 DEF DropOldest
    <3> QED BY <2>1, <3>1 DEF Listed
  <2>5. ASSUME NEW k \in DOMAIN feed, NEW m \in Posts, MoveTo(k, m)
        PROVE  \E q \in Listed : q.article = p.article /\ q.date = p.date
    <3>1. /\ feed' = [feed EXCEPT ![k] = m]
          /\ m.article = feed[k].article /\ m.date = feed[k].date
      BY <2>5 DEF MoveTo
    <3>2. i \in DOMAIN feed /\ p.article = feed[i].article /\ p.date = feed[i].date
      BY <2>1, <3>1
    <3> QED BY <3>2 DEF Listed
  <2>6. ASSUME NEW n \in Posts, Publish(n)
        PROVE  n.date # NoDate /\ n.date >= newest /\ n.date <= newest'
    BY <1>4, <2>6, PostsAssumption DEF Publish
  <2> QED BY <2>3, <2>4, <2>5, <2>6 DEF Site
<1>7. \A p \in Listed : p.date \in Nat /\ p.date # NoDate /\ p.date <= newest
  BY <1>1, ListedPosts DEF LossInv, DatesFollow
<1>8. \A row \in Rows : row.date \in Nat /\ row.date <= newest
  BY <1>1, RowDates DEF LossInv, DatesFollow
<1>9. \A p \in Listed' : p.date \in Nat
  <2>1. feed' \in Seq(Posts)
    BY <1>1 DEF TypeOK
  <2>2. \A i \in DOMAIN feed' : feed'[i] \in Posts
    BY <2>1
  <2> QED BY <2>2, DateFacts DEF Listed
<1>10. DatesFollow'
  <2>1. \A p \in Listed' : p.date # NoDate /\ p.date <= newest'
    BY <1>4, <1>5, <1>6, <1>7, <1>9
  <2>2. \A row \in Rows' : row.date <= newest'
    BY <1>3, <1>4, <1>5, <1>8
  <2> QED BY <1>2, <2>1, <2>2 DEF LossInv, DatesFollow
<1>11. RowsArePosts'
  BY <1>2, <1>3 DEF LossInv, RowsArePosts
<1>12. NoneOlderMissing'
  <2> SUFFICES ASSUME NEW row \in Rows, NEW p \in Listed', p.date < row.date
               PROVE  Covered(p.article)
    BY <1>3 DEF NoneOlderMissing
  <2>1. ~(p.date >= newest)
    BY <1>4, <1>8, <1>9
  <2> QED BY <1>6, <2>1 DEF LossInv, NoneOlderMissing
<1>13. AllCovered'
  BY <1>2, <1>3 DEF LossInv, AllCovered
<1> QED BY <1>1, <1>10, <1>11, <1>12, <1>13 DEF LossInv

\* What is downloaded becomes rows, or is older than a stored post and covered.
LEMMA LossDownload ==
    ASSUME LossInv, UrlsStay, NEW r \in Requests, Download(r)
    PROVE  LossInv'
<1>1. TypeOK /\ TypeOK'
  BY StepTypes DEF LossInv, Step
<1>2. /\ pc[r] = "download" /\ left[r] = <<>>
      /\ left' = [left EXCEPT ![r] = Kept(latest[r])]
      /\ fetched' = [fetched EXCEPT ![r] = Listed]
      /\ pc' = [pc EXCEPT ![r] = "write"]
      /\ UNCHANGED <<feed, newest, stored, latest, missed>>
  BY DEF Download, GoTo, siteVars, dbVars, history, LossInv, RowsArePosts
<1>3. /\ LeftRows(r)' = {Kept(latest[r])[k] : k \in DOMAIN Kept(latest[r])}
      /\ LeftRows(r) = {}
      /\ \A q \in Requests : q # r => LeftRows(q)' = LeftRows(q)
  BY <1>1, <1>2 DEF LeftRows, TypeOK
<1>4. /\ Rows \subseteq Rows'
      /\ \A row \in Rows' : row \in Rows \/ row \in LeftRows(r)'
      /\ LeftRows(r)' \subseteq Rows'
  <2>1. \A q \in Requests : LeftRows(q) \subseteq LeftRows(q)'
    BY <1>3
  <2>2. \A q \in Requests : LeftRows(q)' \subseteq LeftRows(q) \/ q = r
    BY <1>3
  <2>3. stored' = stored /\ Requests' = Requests
    BY <1>2
  <2> QED BY <2>1, <2>2, <2>3 DEF Rows
<1>5. \A a : Covered(a) => Covered(a)'
  BY <1>4 DEF Covered
<1>6. \A row \in LeftRows(r)' : \E p \in Listed : row = Record(p)
  BY <1>1, <1>3, KeptRows
<1>7. ASSUME NEW p \in Listed
      PROVE  /\ p \in Posts /\ p.date \in Nat /\ p.date # NoDate /\ p.date <= newest
             /\ Record(p).url = p.url /\ Record(p).article = p.article /\ Record(p).date = p.date
  BY <1>1, ListedPosts, RecordIsRow DEF LossInv, DatesFollow
<1>8. ASSUME NEW p \in Listed
      PROVE  Covered(p.article)'
  <2>1. latest[r] \in Nat
    BY <1>1, DateFacts DEF TypeOK
  <2>2. CASE p.date >= latest[r]
    <3>1. PICK k \in DOMAIN Kept(latest[r]) : Kept(latest[r])[k] = Record(p)
      BY <1>1, <2>2, KeptRows DEF NotOlder
    <3>2. Record(p) \in Rows'
      BY <1>3, <1>4, <3>1
    <3> QED BY <1>7, <3>2 DEF Covered
  <2>3. CASE p.date < latest[r]
    <3>1. latest[r] # NoDate
      BY <1>7, <2>1, <2>3 DEF NoDate
    <3>2. PICK row \in stored : row.date = latest[r]
      BY <3>1 DEF LossInv, DatesFollow
    <3>3. Covered(p.article)
      BY <2>3, <3>2 DEF LossInv, NoneOlderMissing, Rows
    <3> QED BY <1>5, <3>3
  <2> QED BY <1>7, <2>1, <2>2, <2>3
<1>9. Listed' = Listed
  BY <1>2 DEF Listed
<1>10. DatesFollow'
  <2>1. \A row \in Rows' : row.date <= newest
    BY <1>4, <1>6, <1>7 DEF LossInv, DatesFollow
  <2> QED BY <1>2, <1>9, <2>1 DEF LossInv, DatesFollow
<1>11. RowsArePosts'
  <2>1. \A row \in Rows' : \E p \in Posts : p.url = row.url /\ p.article = row.article
    BY <1>4, <1>6, <1>7 DEF LossInv, RowsArePosts
  <2>2. \A q \in Requests : pc'[q] # "write" => left'[q] = <<>>
    BY <1>1, <1>2 DEF LossInv, RowsArePosts, TypeOK
  <2> QED BY <2>1, <2>2 DEF RowsArePosts
<1>12. NoneOlderMissing'
  BY <1>8, <1>9 DEF NoneOlderMissing
<1>13. AllCovered'
  <2>1. \A p \in missed' : Covered(p.article)'
    BY <1>2, <1>5 DEF LossInv, AllCovered
  <2>2. ASSUME NEW q \in Requests, pc'[q] = "write", NEW p \in fetched'[q]
        PROVE  Covered(p.article)'
    <3>1. CASE q = r
      BY <1>1, <1>2, <1>8, <2>2, <3>1 DEF TypeOK
    <3>2. CASE q # r
      BY <1>1, <1>2, <1>5, <2>2, <3>2 DEF TypeOK, LossInv, AllCovered
    <3> QED BY <3>1, <3>2
  <2> QED BY <2>1, <2>2 DEF AllCovered
<1> QED BY <1>1, <1>10, <1>11, <1>12, <1>13 DEF LossInv

\* A row that is written, or found written under its url, stays covered.
LEMMA LossWritePost ==
    ASSUME LossInv, UrlsStay, NEW r \in Requests, WritePost(r)
    PROVE  LossInv'
<1>1. TypeOK /\ TypeOK'
  BY StepTypes DEF LossInv, Step
<1>2. /\ pc[r] = "write"
      /\ stored' = Store(left[r][1]) /\ 1 \in DOMAIN left[r]
      /\ \A q \in Requests : q # r => left'[q] = left[q]
      /\ UNCHANGED <<feed, newest, pc, latest, fetched, missed>>
  BY <1>1, HeadIsWritten DEF WritePost, siteVars, dbVars, history, TypeOK
<1>3. PICK head : head = left[r][1]
  OBVIOUS
<1>4. /\ head \in LeftRows(r) /\ LeftRows(r)' \subseteq LeftRows(r)
      /\ \A row \in LeftRows(r) : row = head \/ row \in LeftRows(r)'
      /\ \A q \in Requests : q # r => LeftRows(q)' = LeftRows(q)
  <2>1. head \in LeftRows(r)
    BY <1>2, <1>3 DEF LeftRows
  <2>2. LeftRows(r)' \subseteq LeftRows(r)
    BY <1>1, HeadIsWritten DEF LeftRows
  <2>3. \A row \in LeftRows(r) : row = head \/ row \in LeftRows(r)'
    BY <1>1, <1>3, HeadIsWritten DEF LeftRows
  <2> QED BY <1>2, <2>1, <2>2, <2>3 DEF LeftRows
<1>5. stored \subseteq stored' /\ stored' \subseteq stored \cup {head}
  BY <1>2, <1>3 DEF Store
<1>6. Rows' \subseteq Rows
  BY <1>4, <1>5 DEF Rows
<1>7. \A row \in Rows : row = head \/ row \in Rows'
  BY <1>4, <1>5 DEF Rows
<1>8. Covered(head.article)'
  <2>1. CASE \E s \in stored : s.url = head.url
    <3>1. PICK s \in stored : s.url = head.url
      BY <2>1
    <3>2. s \in Rows /\ head \in Rows
      BY <1>4 DEF Rows
    <3>3. /\ \E p \in Posts : p.url = s.url /\ p.article = s.article
          /\ \E p \in Posts : p.url = head.url /\ p.article = head.article
      BY <3>2 DEF LossInv, RowsArePosts
    <3>4. s.article = head.article
      BY <3>1, <3>3 DEF UrlsStay
    <3> QED BY <1>5, <3>4 DEF Covered, Rows
  <2>2. CASE ~\E s \in stored : s.url = head.url
    <3>1. head \in stored'
      BY <1>2, <1>3, <2>2 DEF Store
    <3> QED BY <3>1 DEF Covered, Rows
  <2> QED BY <2>1, <2>2
<1>9. \A a : Covered(a) => Covered(a)'
  BY <1>7, <1>8 DEF Covered
<1>10. Listed' = Listed
  BY <1>2 DEF Listed
<1>11. DatesFollow'
  BY <1>2, <1>5, <1>6, <1>10 DEF LossInv, DatesFollow
<1>12. RowsArePosts'
  BY <1>2, <1>6 DEF LossInv, RowsArePosts
<1>13. NoneOlderMissing'
  BY <1>6, <1>9, <1>10 DEF LossInv, NoneOlderMissing
<1>14. AllCovered'
  BY <1>2, <1>9 DEF LossInv, AllCovered
<1> QED BY <1>1, <1>11, <1>12, <1>13, <1>14 DEF LossInv

\* The other steps leave the rows and the feed alone.
LEMMA LossOther ==
    ASSUME LossInv, ~StepsMayFail, NEW r \in Requests,
           Arrive(r) \/ Check(r) \/ ReadLatest(r) \/ WriteOk(r) \/ WriteError(r) \/ Load(r)
    PROVE  LossInv'
<1>1. TypeOK /\ TypeOK'
  BY StepTypes DEF LossInv, Step
<1>2. UNCHANGED <<feed, newest, stored>>
  BY DEF Arrive, Check, ReadLatest, WriteOk, WriteError, Load, siteVars, dbVars
<1>3. left[r] = <<>>
  BY DEF Arrive, Check, ReadLatest, WriteOk, WriteError, Load, LossInv, RowsArePosts, Ended
<1>4. left' = left
  BY <1>1, <1>3 DEF Arrive, Check, ReadLatest, WriteOk, WriteError, Load, Forget, ForgetPosts, TypeOK
<1>5. Rows' = Rows /\ Listed' = Listed /\ \A a : Covered(a)' <=> Covered(a)
  BY <1>2, <1>4 DEF Rows, LeftRows, Covered, Listed
<1>6. \A q \in Requests : latest'[q] \in {NoDate, latest[q]} \/ \E s \in stored : s.date = latest'[q]
  <2>1. CASE ReadLatest(r)
    <3>1. PICK d \in Dates : LastPostDate(d) /\ latest' = [latest EXCEPT ![r] = d]
      BY <2>1 DEF ReadLatest
    <3>2. d = NoDate \/ \E s \in stored : s.date = d
      BY <3>1 DEF LastPostDate
    <3> QED BY <1>1, <3>1, <3>2 DEF TypeOK
  <2>2. CASE ~ReadLatest(r)
    BY <1>1, <2>2 DEF Arrive, Check, WriteOk, WriteError, Load, Forget, ForgetPosts, TypeOK
  <2> QED BY <2>1, <2>2
<1>7. DatesFollow'
  BY <1>2, <1>5, <1>6 DEF LossInv, DatesFollow
<1>8. \A q \in Requests :
         /\ pc'[q] # "write" => left'[q] = <<>>
         /\ pc'[q] = "write" => pc[q] = "write" /\ fetched'[q] = fetched[q]
  BY <1>1, <1>3, <1>4 DEF Arrive, Check, ReadLatest, WriteOk, WriteError, Load, GoTo, Forget,
                          ForgetPosts, TypeOK, LossInv, RowsArePosts
<1>9. RowsArePosts'
  BY <1>5, <1>8 DEF LossInv, RowsArePosts
<1>10. NoneOlderMissing'
  BY <1>5 DEF LossInv, NoneOlderMissing
<1>11. \A p \in missed' : p \in missed \/ (pc[r] = "write" /\ p \in fetched[r])
  BY DEF Arrive, Check, ReadLatest, WriteOk, WriteError, NoteMissed, Load, history
<1>12. AllCovered'
  BY <1>5, <1>8, <1>11 DEF LossInv, AllCovered
<1> QED BY <1>1, <1>7, <1>9, <1>10, <1>12 DEF LossInv

\* "filter any posts that may look new because their url changed": whatever the
\* requests do at once, a feed whose site publishes in order and whose steps
\* do not fail keeps the text of each post that a refresh recorded as "ok".
THEOREM RefreshLosesNothing ==
    ASSUME ~StepsMayFail, Chronological, UrlsStay
    PROVE  Spec => []NothingLost
<1>1. Init => LossInv
  BY LossInit
<1>2. LossInv /\ [Next]_vars => LossInv'
  <2> SUFFICES ASSUME LossInv, [Next]_vars PROVE LossInv'
    OBVIOUS
  <2>1. ASSUME NEW r \in Requests, Arrive(r) \/ Step(r) \/ StepFails(r)
        PROVE  LossInv'
    <3>1. ~StepFails(r)
      BY DEF StepFails, RefreshFails, AnswerFails
    <3> QED BY <2>1, <3>1, LossDownload, LossWritePost, LossOther DEF Step
  <2>2. ~Crash
    BY DEF Crash
  <2>3. CASE Tick \/ UNCHANGED vars
    <3>1. UNCHANGED <<feed, newest, stored, pc, latest, fetched, left, missed>>
      BY <2>3 DEF Tick, vars, siteVars, dbVars, history
    <3>2. Rows' = Rows /\ Listed' = Listed /\ \A a : Covered(a)' <=> Covered(a)
      BY <3>1 DEF Rows, LeftRows, Covered, Listed
    <3>3. TypeOK'
      BY <2>3, ClockAssumption DEF LossInv, Tick, TypeOK, vars, siteVars, dbVars, history
    <3> QED BY <3>1, <3>2, <3>3 DEF LossInv, DatesFollow, RowsArePosts, NoneOlderMissing, AllCovered
  <2> QED BY <2>1, <2>2, <2>3, LossSite DEF Next
<1>3. LossInv => NothingLost
  <2> SUFFICES ASSUME LossInv, \A r \in Requests : pc[r] \notin Refreshing, NEW p \in missed
               PROVE  \E s \in stored : s.article = p.article
    BY DEF NothingLost
  <2>1. \A r \in Requests : left[r] = <<>>
    BY DEF LossInv, RowsArePosts, Refreshing
  <2>2. Rows = stored
    BY <2>1 DEF Rows, LeftRows
  <2> QED BY <2>2 DEF LossInv, AllCovered, Covered
<1> QED BY <1>1, <1>2, <1>3, PTL DEF Spec

=============================================================================
