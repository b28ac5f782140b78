----------------------------- MODULE FeedsProofs -----------------------------
(***************************************************************************)
(* The table of Subscriptions, then the handlers and the page on top of    *)
(* it, for every set of requests, of urls, of lists and of tabs.           *)
(*                                                                         *)
(* What a save has dealt with stays subscribed.  The invariant IInv is     *)
(* inductive once it also says what a save knows that is about to update:  *)
(* the row its SELECT found is there, or an unsubscribe has removed it     *)
(* since.  That a feed is subscribed twice only after a race needs what a  *)
(* save knows that is about to insert: nobody else is, or the url is       *)
(* raced, and there is still no row, or one that a rival inserted.         *)
(*                                                                         *)
(* The handlers and the page use the table only as Subscriptions lets them *)
(* (what is proved there holds under them), and what they tell the user is *)
(* true.  For the first one has to know that a link that waits for the     *)
(* server stands in a row with a url; for the answers, which list a        *)
(* handler that saves has passed on, and that a finished save went through *)
(* its whole list; for the rows that go, that a deletion is noted for      *)
(* every tab.                                                              *)
(***************************************************************************)
EXTENDS Feeds, TLAPS

\* The save has its row, unless the feed was unsubscribed since.
Covered(u, r) == Subscribed(u) \/ u \in removed[r]

\* So has a save about to update the row its SELECT found.
FoundIsCovered == \A r \in Requests : pc[r] = "update" => Covered(First(r).url, r)

\* The inductive invariant of the table.
IInv == TypeOK /\ DealtWithIsSubscribed /\ FoundIsCovered

\* What a save about to insert knows: there is no row for its feed and nobody
\* else is about to insert one, or the feed is raced.
InsertsAloneOrRaced ==
    \A r \in Requests : pc[r] = "insert" =>
       \/ First(r).url \in raced
       \/ /\ ~Subscribed(First(r).url)
          /\ \A q \in Requests \ {r} : pc[q] = "insert" => First(q).url # First(r).url

\* What it takes for races.
RaceInv == InsertsAloneOrRaced /\ TwiceOnlyIfRaced

-----------------------------------------------------------------------------
\* The position of a save under way is one of its list, and what stands
\* there is a feed.
LEMMA FirstIsEntry ==
    ASSUME TypeOK, NEW r \in Requests, pc[r] \in {"select", "insert", "update"}
    PROVE  /\ list[r] \in Lists /\ list[r] \in Seq(Entries)
           /\ at[r] \in 1..Len(list[r])
           /\ First(r).url \in Urls /\ First(r).name \in Names
<1>1. list[r] \in Lists \cup {<<>>} /\ at[r] \in DOMAIN list[r]
  BY DEF TypeOK
<1>2. list[r] \in Lists
  BY <1>1
<1>3. list[r] \in Seq(Entries)
  BY <1>2, ListsAssumption
<1>4. at[r] \in 1..Len(list[r])
  BY <1>1, <1>3
<1>5. list[r][at[r]] \in Entries
  BY <1>3, <1>4
<1> QED BY <1>2, <1>3, <1>4, <1>5 DEF First, Entries

\* The positions of a save are types of the specification after it advanced
\* or failed.
LEMMA AdvanceType ==
    ASSUME TypeOK, NEW r \in Requests, pc[r] \in {"select", "insert", "update"},
           Advance(r) \/ Fail(r), list' = list
    PROVE  /\ pc' \in [Requests -> Ended \cup {"select", "insert", "update"}]
           /\ at' \in [Requests -> Nat]
           /\ \A q \in Requests :
                 IF pc'[q] \in {"select", "insert", "update"}
                    THEN at'[q] \in DOMAIN list'[q]
                    ELSE at'[q] \in 0..(Len(list'[q]) + 1)
<1> USE DEF TypeOK, Ended
<1>1. list[r] \in Seq(Entries) /\ at[r] \in 1..Len(list[r]) /\ Len(list[r]) \in Nat
  BY FirstIsEntry
<1>2. DOMAIN list[r] = 1..Len(list[r])
  BY <1>1
<1>3. CASE Advance(r)
  <2>1. pc' \in [Requests -> Ended \cup {"select", "insert", "update"}]
    BY <1>3 DEF Advance
  <2>2. at' \in [Requests -> Nat]
    BY <1>3 DEF Advance
  <2>3. ASSUME NEW q \in Requests
        PROVE  IF pc'[q] \in {"select", "insert", "update"}
                  THEN at'[q] \in DOMAIN list'[q]
                  ELSE at'[q] \in 0..(Len(list'[q]) + 1)
    <3>1. CASE q = r
      <4>1. at'[r] = at[r] + 1
        BY <1>3 DEF Advance
      <4>2. CASE at[r] = Len(list[r])
        BY <1>1, <1>3, <3>1, <4>1, <4>2 DEF Advance
      <4>3. CASE at[r] # Len(list[r])
        BY <1>1, <1>2, <1>3, <3>1, <4>1, <4>3 DEF Advance
      <4> QED BY <4>2, <4>3
    <3>2. CASE q # r
      BY <1>3, <3>2 DEF Advance
    <3> QED BY <3>1, <3>2
  <2> QED BY <2>1, <2>2, <2>3
<1>4. CASE Fail(r)
  BY <1>1, <1>2, <1>4 DEF Fail
<1> QED BY <1>3, <1>4

\* What the save's position passes, when it advances, is covered if the feed
\* it stood at is.
LEMMA AdvanceKeeps ==
    ASSUME IInv, NEW r \in Requests, pc[r] \in {"select", "insert", "update"},
           Advance(r) \/ Fail(r), list' = list, removed' = removed,
           \A u \in Urls : Subscribed(u) => Subscribed(u)',
           \A u \in Urls : Advance(r) /\ u = First(r).url => Covered(u, r)'
    PROVE  DealtWithIsSubscribed' /\ FoundIsCovered'
<1> USE DEF IInv, TypeOK
<1>1. \A q \in Requests : \A i \in DOMAIN list[q] : list[q][i].url \in Urls
  <2>1. SUFFICES ASSUME NEW q \in Requests, NEW i \in DOMAIN list[q]
                 PROVE  list[q][i].url \in Urls
    OBVIOUS
  <2>2. list[q] \in Lists
    BY <2>1
  <2>3. list[q] \in Seq(Entries)
    BY <2>2, ListsAssumption
  <2>4. list[q][i] \in Entries
    BY <2>3
  <2> QED BY <2>4 DEF Entries
<1>2. DealtWithIsSubscribed'
  <2>1. SUFFICES ASSUME NEW q \in Requests, NEW i \in DOMAIN list[q], i < at'[q]
                 PROVE  Covered(list[q][i].url, q)'
    BY DEF DealtWithIsSubscribed, Covered, Subscribed
  <2>2. CASE i < at[q]
    BY <1>1, <2>1, <2>2 DEF DealtWithIsSubscribed, Covered
  <2>3. CASE ~(i < at[q])
    <3>1. q = r /\ Advance(r) /\ at'[r] = at[r] + 1
      BY <2>1, <2>3 DEF Advance, Fail
    <3>2. i \in Nat /\ at[r] \in Nat
      <4>1. list[r] \in Seq(Entries) /\ at[r] \in 1..Len(list[r])
        BY FirstIsEntry
      <4> QED BY <2>1, <3>1, <4>1
    <3>3. i = at[r]
      BY <2>1, <2>3, <3>1, <3>2
    <3>4. First(r).url = list[q][i].url
      BY <3>1, <3>3 DEF First
    <3> QED BY <1>1, <3>1, <3>4
  <2> QED BY <2>2, <2>3
<1>3. FoundIsCovered'
  <2>1. SUFFICES ASSUME NEW q \in Requests, pc'[q] = "update"
                 PROVE  Covered(First(q).url, q)'
    BY DEF FoundIsCovered
  <2>2. q # r /\ pc[q] = "update" /\ at'[q] = at[q]
    BY <2>1 DEF Advance, Fail
  <2>3. First(q).url \in Urls
    BY <2>2, FirstIsEntry
  <2>4. Covered(First(q).url, q)
    BY <2>2 DEF FoundIsCovered
  <2> QED BY <2>2, <2>3, <2>4 DEF Covered, First
<1> QED BY <1>2, <1>3

-----------------------------------------------------------------------------
\* INSERT: the new row covers its feed, the others stay.
LEMMA InsertIInv ==
    ASSUME IInv, NEW r \in Requests, Insert(r)
    PROVE  IInv'
<1> DEFINE new == [id |-> nextId, url |-> First(r).url, name |-> First(r).name]
<1>1. TypeOK /\ pc[r] \in {"select", "insert", "update"}
  BY DEF IInv, Insert
<1>2. new \in Rows /\ nextId' \in 1..(MaxIds + 1)
  <2>1. nextId \in 1..MaxIds
    BY <1>1, MaxIdsAssumption DEF TypeOK, Insert
  <2>2. First(r).url \in Urls /\ First(r).name \in Names
    BY <1>1, FirstIsEntry
  <2> QED BY <2>1, <2>2, MaxIdsAssumption DEF Rows, Insert
<1>3. TypeOK'
  <2>1. list' = list /\ removed' = removed /\ raced' = raced /\ (Advance(r) \/ Fail(r))
    BY DEF Insert
  <2>2. subs' \in SUBSET Rows
    BY <1>1, <1>2 DEF Insert, TypeOK
  <2> QED BY <1>1, <1>2, <2>1, <2>2, AdvanceType DEF TypeOK
<1>4. \A u : Subscribed(u) => Subscribed(u)'
  BY DEF Subscribed, Insert
<1>5. \A u \in Urls : u = First(r).url => Covered(u, r)'
  <2>1. new \in subs' /\ new.url = First(r).url
    BY DEF Insert
  <2> QED BY <2>1 DEF Covered, Subscribed
<1>6. DealtWithIsSubscribed' /\ FoundIsCovered'
  <2>1. list' = list /\ removed' = removed /\ (Advance(r) \/ Fail(r))
    BY DEF Insert
  <2> QED BY <1>1, <1>4, <1>5, <2>1, AdvanceKeeps
<1> QED BY <1>3, <1>6 DEF IInv

\* UPDATE: every row keeps its url, and the feed it names was covered when it
\* was found.
LEMMA UpdateIInv ==
    ASSUME IInv, NEW r \in Requests, Update(r)
    PROVE  IInv'
<1> DEFINE Renamed(s) == IF s.url = First(r).url THEN [s EXCEPT !.name = First(r).name] ELSE s
<1>1. TypeOK /\ pc[r] = "update" /\ pc[r] \in {"select", "insert", "update"}
  BY DEF IInv, Update
<1>2. First(r).url \in Urls /\ First(r).name \in Names
  BY <1>1, FirstIsEntry
<1>3. list' = list /\ removed' = removed /\ raced' = raced /\ nextId' = nextId /\ (Advance(r) \/ Fail(r))
  BY DEF Update
<1>4. \A s \in subs : Renamed(s) \in subs' /\ Renamed(s) \in Rows /\ Renamed(s).url = s.url
  <2>1. SUFFICES ASSUME NEW s \in subs
                 PROVE  Renamed(s) \in subs' /\ Renamed(s) \in Rows /\ Renamed(s).url = s.url
    OBVIOUS
  <2>2. s \in Rows
    BY <1>1 DEF TypeOK
  <2>3. Renamed(s) \in subs'
    BY DEF Update
  <2> QED BY <1>2, <2>2, <2>3 DEF Rows
<1>5. TypeOK'
  <2>1. subs' = {Renamed(s) : s \in subs}
    BY DEF Update
  <2>2. subs' \in SUBSET Rows
    BY <1>4, <2>1
  <2> QED BY <1>1, <1>3, <2>2, AdvanceType DEF TypeOK
<1>6. \A u : Subscribed(u) => Subscribed(u)'
  <2>1. SUFFICES ASSUME NEW u, NEW s \in subs, s.url = u
                 PROVE  \E t \in subs' : t.url = u
    BY DEF Subscribed
  <2>2. Renamed(s) \in subs' /\ Renamed(s).url = u
    BY <1>4, <2>1
  <2> QED BY <2>2
<1>7. \A u \in Urls : u = First(r).url => Covered(u, r)'
  BY <1>1, <1>3, <1>6 DEF IInv, FoundIsCovered, Covered
<1>8. DealtWithIsSubscribed' /\ FoundIsCovered'
  BY <1>1, <1>3, <1>6, <1>7, AdvanceKeeps
<1> QED BY <1>5, <1>8 DEF IInv

\* SELECT: it goes on to update only what it has found.
LEMMA SelectIInv ==
    ASSUME IInv, NEW r \in Requests, Select(r)
    PROVE  IInv'
<1> USE DEF IInv, Select
<1>1. TypeOK'
  <2>1. First(r).url \in Urls
    BY FirstIsEntry
  <2> QED BY <2>1 DEF TypeOK
<1>2. DealtWithIsSubscribed'
  BY DEF DealtWithIsSubscribed, Subscribed
<1>3. FoundIsCovered'
  <2>1. SUFFICES ASSUME NEW q \in Requests, pc'[q] = "update"
                 PROVE  Covered(First(q).url, q)
    BY DEF FoundIsCovered, Covered, Subscribed, First
  <2>2. CASE q = r
    BY <2>1, <2>2 DEF TypeOK, Covered
  <2>3. CASE q # r
    BY <2>1, <2>3 DEF TypeOK, FoundIsCovered
  <2> QED BY <2>2, <2>3
<1> QED BY <1>1, <1>2, <1>3

\* A save that begins has dealt with nothing.
LEMMA SaveIInv ==
    ASSUME IInv, NEW r \in Requests, NEW l \in Lists, Save(r, l)
    PROVE  IInv'
<1> USE DEF IInv, Save, TypeOK, Ended
<1>1. l \in Seq(Entries) /\ l # <<>>
  BY ListsAssumption
<1>2. 1 \in DOMAIN l
  BY <1>1
<1>3. TypeOK'
  BY <1>2
<1>4. DealtWithIsSubscribed'
  <2>1. SUFFICES ASSUME NEW q \in Requests, NEW i \in DOMAIN list'[q], i < at'[q]
                 PROVE  Subscribed(list'[q][i].url) \/ list'[q][i].url \in removed'[q]
    BY DEF DealtWithIsSubscribed, Subscribed
  <2>2. CASE q = r
    <3>1. list'[q] = l /\ at'[q] = 1
      BY <2>2
    <3>2. i \in 1..Len(l)
      BY <1>1, <3>1
    <3> QED BY <1>1, <2>1, <3>1, <3>2
  <2>3. CASE q # r
    BY <2>1, <2>3 DEF DealtWithIsSubscribed
  <2> QED BY <2>2, <2>3
<1>5. FoundIsCovered'
  <2>1. SUFFICES ASSUME NEW q \in Requests, pc'[q] = "update"
                 PROVE  Covered(First(q).url, q)'
    BY DEF FoundIsCovered
  <2>2. q # r /\ pc[q] = "update"
    BY <2>1
  <2> QED BY <2>2 DEF FoundIsCovered, Covered, Subscribed, First
<1> QED BY <1>3, <1>4, <1>5

\* A failed save keeps the place it had come to.
LEMMA StepFailsIInv ==
    ASSUME IInv, NEW r \in Requests, StepFails(r)
    PROVE  IInv'
<1>1. TypeOK /\ pc[r] \in {"select", "insert", "update"}
  BY DEF IInv, StepFails
<1>2. UNCHANGED <<subs, nextId, list, removed, raced>> /\ Fail(r)
  BY DEF StepFails
<1>3. TypeOK'
  BY <1>1, <1>2, AdvanceType DEF TypeOK
<1>4. DealtWithIsSubscribed'
  BY <1>2 DEF Fail, IInv, DealtWithIsSubscribed, Subscribed
<1>5. FoundIsCovered'
  BY <1>1, <1>2 DEF Fail, IInv, TypeOK, FoundIsCovered, Covered, Subscribed, First
<1> QED BY <1>3, <1>4, <1>5 DEF IInv

\* An unsubscribe leaves its mark on every save under way.
LEMMA UnsubscribeIInv ==
    ASSUME IInv, NEW u \in Urls, Unsubscribe(u)
    PROVE  IInv'
<1> USE DEF IInv, Unsubscribe
<1>1. TypeOK'
  BY DEF TypeOK
<1>2. \A v, q : q \in Requests /\ Covered(v, q) => Covered(v, q)'
  BY DEF TypeOK, Covered, Subscribed
<1>3. DealtWithIsSubscribed'
  BY <1>2 DEF DealtWithIsSubscribed, Covered
<1>4. FoundIsCovered'
  <2>1. SUFFICES ASSUME NEW q \in Requests, pc[q] = "update"
                 PROVE  Covered(First(q).url, q)'
    BY DEF FoundIsCovered
  <2>2. PICK v : v = First(q).url
    OBVIOUS
  <2>3. Covered(v, q)'
    BY <1>2, <2>1, <2>2 DEF FoundIsCovered
  <2> QED BY <2>2, <2>3 DEF Covered, Subscribed, First
<1> QED BY <1>1, <1>3, <1>4

-----------------------------------------------------------------------------
\* Every step keeps the invariant: one of the lemmas above for each action.
LEMMA NextIInv == IInv /\ [Next]_vars => IInv'
<1> SUFFICES ASSUME IInv, [Next]_vars
             PROVE  IInv'
  OBVIOUS
<1>1. ASSUME NEW r \in Requests, NEW l \in Lists, Save(r, l)
      PROVE  IInv'
  BY <1>1, SaveIInv
<1>2. ASSUME NEW r \in Requests, Step(r)
      PROVE  IInv'
  BY <1>2, SelectIInv, InsertIInv, UpdateIInv, StepFailsIInv DEF Step
<1>3. ASSUME NEW u \in Urls, Unsubscribe(u)
      PROVE  IInv'
  BY <1>3, UnsubscribeIInv
<1>4. CASE UNCHANGED vars
  BY <1>4 DEF vars, IInv, TypeOK, DealtWithIsSubscribed, FoundIsCovered,
              Covered, Subscribed, First
<1> QED BY <1>1, <1>2, <1>3, <1>4 DEF Next

\* It holds of the empty table.
LEMMA InitIInv == Init => IInv
<1> SUFFICES ASSUME Init
             PROVE  IInv
  OBVIOUS
<1>1. TypeOK
  BY MaxIdsAssumption DEF Init, TypeOK, Ended
<1>2. DealtWithIsSubscribed
  BY DEF Init, DealtWithIsSubscribed
<1>3. FoundIsCovered
  BY DEF Init, FoundIsCovered
<1> QED BY <1>1, <1>2, <1>3 DEF IInv

\* The strengthened invariant of the table and the saves.
THEOREM SubscriptionsInvariant == Spec => []IInv
BY InitIInv, NextIInv, PTL DEF Spec

\* The types of the table and of the saves.
THEOREM SubscriptionsTypeCorrect == Spec => []TypeOK
<1>1. IInv => TypeOK
  BY DEF IInv
<1> QED BY <1>1, SubscriptionsInvariant, PTL

\* What a save has dealt with stays subscribed, unless it was unsubscribed.
THEOREM SavedStaysSubscribed == Spec => []DealtWithIsSubscribed
<1>1. IInv => DealtWithIsSubscribed
  BY DEF IInv
<1> QED BY <1>1, SubscriptionsInvariant, PTL

-----------------------------------------------------------------------------
\* What the saves about to insert know survives their own steps.
LEMMA SelectRace ==
    ASSUME IInv, RaceInv, NEW r \in Requests, Select(r)
    PROVE  RaceInv'
<1> USE DEF IInv, RaceInv, Select
<1>1. TwiceOnlyIfRaced'
  BY DEF TwiceOnlyIfRaced
<1>2. InsertsAloneOrRaced'
  <2>1. SUFFICES ASSUME NEW q \in Requests, pc'[q] = "insert", First(q).url \notin raced'
                 PROVE  /\ ~Subscribed(First(q).url)
                        /\ \A p \in Requests \ {q} :
                              pc'[p] = "insert" => First(p).url # First(q).url
    BY DEF InsertsAloneOrRaced, Subscribed, First
  <2>2. raced \subseteq raced'
    OBVIOUS
  <2>3. ASSUME pc[r] = "select", pc'[r] = "insert", First(r).url \notin raced'
        PROVE  ~Subscribed(First(r).url) /\ Rivals(r) = {}
    BY <2>3 DEF TypeOK
  <2>4. CASE q = r
    <3>1. \A p \in Requests \ {r} : pc'[p] = pc[p]
      BY DEF TypeOK
    <3> QED BY <2>1, <2>3, <2>4, <3>1 DEF Rivals
  <2>5. CASE q # r
    <3>1. pc[q] = "insert" /\ First(q).url \notin raced
      BY <2>1, <2>2, <2>5 DEF TypeOK
    <3>2. /\ ~Subscribed(First(q).url)
          /\ \A p \in Requests \ {q} : pc[p] = "insert" => First(p).url # First(q).url
      BY <3>1 DEF InsertsAloneOrRaced
    <3>3. ASSUME pc'[r] = "insert", First(r).url = First(q).url
          PROVE  FALSE
      <4>1. q \in Rivals(r)
        BY <2>5, <3>1, <3>3 DEF Rivals
      <4> QED BY <2>1, <2>3, <3>3, <4>1
    <3>4. \A p \in Requests \ {r} : pc'[p] = pc[p]
      BY DEF TypeOK
    <3> QED BY <3>2, <3>3, <3>4
  <2> QED BY <2>4, <2>5
<1> QED BY <1>1, <1>2

\* An insert adds the only row of its feed, or one of a raced feed; the other
\* saves about to insert are about other feeds.
LEMMA InsertRace ==
    ASSUME IInv, RaceInv, NEW r \in Requests, Insert(r)
    PROVE  RaceInv'
<1> DEFINE new == [id |-> nextId, url |-> First(r).url, name |-> First(r).name]
<1>1. subs' = subs \cup {new} /\ new.url = First(r).url /\ pc[r] = "insert" /\ raced' = raced
  BY DEF Insert
<1>2. First(r).url \in raced \/ ~Subscribed(First(r).url)
  BY <1>1 DEF RaceInv, InsertsAloneOrRaced
<1>3. TwiceOnlyIfRaced'
  BY <1>1, <1>2 DEF RaceInv, TwiceOnlyIfRaced, Subscribed
<1>4. InsertsAloneOrRaced'
  <2>1. SUFFICES ASSUME NEW q \in Requests, pc'[q] = "insert", First(q)'.url \notin raced
                 PROVE  /\ \A s \in subs' : s.url # First(q)'.url
                        /\ \A p \in Requests \ {q} :
                              pc'[p] = "insert" => First(p)'.url # First(q)'.url
    BY <1>1 DEF InsertsAloneOrRaced, Subscribed, First
  <2>2. \A p \in Requests : pc'[p] = "insert" =>
           p # r /\ pc[p] = "insert" /\ First(p)' = First(p)
    BY DEF Insert, Advance, Fail, IInv, TypeOK, First
  <2>3. /\ ~Subscribed(First(q).url)
        /\ \A p \in Requests \ {q} : pc[p] = "insert" => First(p).url # First(q).url
    BY <2>1, <2>2 DEF RaceInv, InsertsAloneOrRaced
  <2>4. new.url # First(q)'.url
    BY <1>1, <2>1, <2>2, <2>3
  <2> QED BY <1>1, <2>1, <2>2, <2>3, <2>4 DEF Subscribed
<1> QED BY <1>3, <1>4 DEF RaceInv

\* Steps that leave the urls of the rows, or take some away, and send nobody
\* to an insert.
LEMMA HarmlessRace ==
    ASSUME RaceInv, raced' = raced,
           \A r \in Requests : pc'[r] = "insert" => pc[r] = "insert" /\ First(r)' = First(r),
           \A u : Subscribed(u)' => Subscribed(u),
           \A s, t \in subs' : s # t /\ s.url = t.url => s.url \in raced
    PROVE  RaceInv'
<1>1. TwiceOnlyIfRaced'
  BY DEF TwiceOnlyIfRaced
<1>2. InsertsAloneOrRaced'
  <2>1. SUFFICES ASSUME NEW q \in Requests, pc'[q] = "insert", First(q)'.url \notin raced
                 PROVE  /\ ~(\E s \in subs' : s.url = First(q)'.url)
                        /\ \A p \in Requests \ {q} :
                              pc'[p] = "insert" => First(p)'.url # First(q)'.url
    BY DEF InsertsAloneOrRaced, Subscribed
  <2>2. /\ ~Subscribed(First(q).url)
        /\ \A p \in Requests \ {q} : pc[p] = "insert" => First(p).url # First(q).url
    BY <2>1 DEF RaceInv, InsertsAloneOrRaced
  <2>3. PICK v : v = First(q).url
    OBVIOUS
  <2>4. ~Subscribed(v)'
    BY <2>2, <2>3
  <2> QED BY <2>1, <2>2, <2>3, <2>4 DEF Subscribed
<1> QED BY <1>1, <1>2 DEF RaceInv

\* UPDATE renames rows: as many of each feed as before, or fewer.
LEMMA UpdateRace ==
    ASSUME IInv, RaceInv, NEW r \in Requests, Update(r)
    PROVE  RaceInv'
<1> DEFINE Renamed(s) == IF s.url = First(r).url THEN [s EXCEPT !.name = First(r).name] ELSE s
<1>1. subs' = {Renamed(s) : s \in subs} /\ raced' = raced
  BY DEF Update
<1>2. \A s \in subs : Renamed(s).url = s.url
  BY DEF IInv, TypeOK, Rows
<1>3. \A u : Subscribed(u)' => Subscribed(u)
  BY <1>1, <1>2 DEF Subscribed
<1>4. ASSUME NEW s \in subs', NEW t \in subs', s # t, s.url = t.url
      PROVE  s.url \in raced
  <2>1. PICK a \in subs : s = Renamed(a)
    BY <1>1
  <2>2. PICK b \in subs : t = Renamed(b)
    BY <1>1
  <2>3. a # b /\ a.url = s.url /\ b.url = s.url
    BY <1>2, <1>4, <2>1, <2>2
  <2> QED BY <2>3 DEF RaceInv, TwiceOnlyIfRaced
<1>5. \A q \in Requests : pc'[q] = "insert" => pc[q] = "insert" /\ First(q)' = First(q)
  BY DEF Update, Advance, Fail, IInv, TypeOK, First
<1> QED BY <1>1, <1>3, <1>4, <1>5, HarmlessRace

\* A feed is subscribed twice only if two saves once stood between the SELECT
\* that did not find it and their INSERTs.
THEOREM SubscribedTwiceOnlyIfRaced == Spec => []TwiceOnlyIfRaced
<1>1. Init => RaceInv
  BY DEF Init, RaceInv, InsertsAloneOrRaced, TwiceOnlyIfRaced
<1>2. IInv /\ RaceInv /\ [Next]_vars => RaceInv'
  <2> SUFFICES ASSUME IInv, RaceInv, [Next]_vars
               PROVE  RaceInv'
    OBVIOUS
  <2> USE DEF IInv, TypeOK
  <2>1. \A s, t \in subs : s # t /\ s.url = t.url => s.url \in raced
    BY DEF RaceInv, TwiceOnlyIfRaced
  <2>2. ASSUME NEW r \in Requests, NEW l \in Lists, Save(r, l)
        PROVE  RaceInv'
    BY <2>1, <2>2, HarmlessRace DEF Save, Subscribed, First, Ended
  <2>3. ASSUME NEW r \in Requests, Step(r)
        PROVE  RaceInv'
    <3>1. CASE StepFails(r)
      BY <2>1, <3>1, HarmlessRace DEF StepFails, Fail, Subscribed, First
    <3> QED BY <2>3, <3>1, SelectRace, InsertRace, UpdateRace DEF Step
  <2>4. ASSUME NEW u \in Urls, Unsubscribe(u)
        PROVE  RaceInv'
    BY <2>1, <2>4, HarmlessRace DEF Unsubscribe, Subscribed, First
  <2>5. CASE UNCHANGED vars
    BY <2>1, <2>5, HarmlessRace DEF vars, Subscribed, First
  <2> QED BY <2>2, <2>3, <2>4, <2>5 DEF Next
<1>3. RaceInv => TwiceOnlyIfRaced
  BY DEF RaceInv
<1> QED BY <1>1, <1>2, <1>3, SubscriptionsInvariant, PTL DEF Spec

-----------------------------------------------------------------------------
(* The handlers and the page. *)

\* The states of an "unsubscribe" link.
LinkStates == {"none", "shown", "sent", "done", "refused", "gone"}

\* A link stands in a row with a url.
PageInv ==
    /\ page \in [Tabs -> [1..MaxIds -> Urls \cup {NoUrl}]]
    /\ link \in [Tabs -> [1..MaxIds -> LinkStates]]
    /\ \A t \in Tabs : \A i \in 1..MaxIds : link[t][i] # "none" => page[t][i] \in Urls

\* A finished save went through its whole list.
SavedIsThrough == \A r \in Requests : pc[r] = "saved" => at[r] = Len(list[r]) + 1

\* The request saves the one feed its user asked for.
SavesAFeed(r) == \E u \in FeedUrls : list[r] = <<Entry(u)>>

\* What a handler knows at each stage, and what its answer says.
HandlerInv ==
    /\ stage \in [Requests -> Stages]
    /\ target \in [Requests -> Urls \cup {NoUrl}]
    /\ answer \in [Requests -> {"none", "error", "uploaded", "subscribed"}]
    /\ \A r \in Requests :
          /\ stage[r] # "saving" => pc[r] \in Ended
          /\ stage[r] \in Fetching => target[r] \in Urls
          /\ stage[r] = "reading" => target[r] = NoUrl
          /\ stage[r] = "saving" /\ target[r] # NoUrl => SavesAFeed(r)
          /\ answer[r] # "none" => stage[r] = "idle"
          /\ answer[r] \in {"uploaded", "subscribed"} => pc[r] = "saved"
          /\ answer[r] = "subscribed" => SavesAFeed(r)

-----------------------------------------------------------------------------
\* Every step of the handlers and of the page is a step of Subscriptions or
\* leaves the table and the saves alone.
LEMMA StepMaps == PageInv /\ [FeedsNext]_feedsVars => [Next]_vars
<1> SUFFICES ASSUME PageInv, [FeedsNext]_feedsVars
             PROVE  [Next]_vars
  OBVIOUS
<1>1. ASSUME NEW r \in Requests, ReceiveUpload(r)
      PROVE  [Next]_vars
  BY <1>1 DEF ReceiveUpload, Receive
<1>2. ASSUME NEW r \in Requests, NEW u \in Urls, ReceiveSubscribe(r, u)
      PROVE  [Next]_vars
  BY <1>2 DEF ReceiveSubscribe, Receive
<1>3. ASSUME NEW r \in Requests, ReadsUpload(r)
      PROVE  [Next]_vars
  <2>1. ASSUME NEW l \in Uploads, Parsed(r, l)
        PROVE  [Next]_vars
    BY <2>1, FeedsAssumption DEF Parsed, Next
  <2> QED BY <1>3, <2>1 DEF ReadsUpload, CannotParse, ParsedForNobody
<1>4. ASSUME NEW r \in Requests, SiteAnswers(r)
      PROVE  [Next]_vars
  <2>1. CASE MetaArrives(r)
    BY <2>1, FeedsAssumption DEF MetaArrives, Next
  <2> QED BY <1>4, <2>1 DEF SiteAnswers, NotAFeed, FindsFeed, FindsNothing, SiteFails, SiteIsSilent
<1>5. ASSUME NEW r \in Requests, SaveStep(r) \/ Saved(r) \/ SaveFails(r)
      PROVE  [Next]_vars
  BY <1>5 DEF SaveStep, Saved, SaveFails, Next
<1>6. ASSUME NEW t \in Tabs, AskForPage(t) \/ RenderPage(t) \/ ListFails(t)
      PROVE  [Next]_vars
  BY <1>6 DEF AskForPage, RenderPage, ListFails
<1>7. ASSUME NEW t \in Tabs, NEW i \in 1..MaxIds, Click(t, i) \/ CallGoesOn(t, i)
      PROVE  [Next]_vars
  <2>1. CASE CallDeletes(t, i)
    <3>1. page[t][i] \in Urls
      BY <2>1 DEF CallDeletes, LinkGoes, PageInv
    <3> QED BY <2>1, <3>1 DEF CallDeletes, Delete, Next
  <2> QED BY <1>7, <2>1 DEF CallGoesOn, Click, CallFails, RemoveRow, ShowLink
<1>8. ASSUME NEW u \in Urls, UnsubscribeElsewhere(u)
      PROVE  [Next]_vars
  BY <1>8 DEF UnsubscribeElsewhere, Delete, Next
<1>9. CASE UNCHANGED feedsVars
  BY <1>9 DEF feedsVars
<1> QED BY <1>1, <1>2, <1>3, <1>4, <1>5, <1>6, <1>7, <1>8, <1>9 DEF FeedsNext, Handles

\* What a link shows changes only in a row that has a url.
LEMMA PageStep == IInv /\ PageInv /\ [FeedsNext]_feedsVars => PageInv'
<1> SUFFICES ASSUME IInv, PageInv, [FeedsNext]_feedsVars
             PROVE  PageInv'
  OBVIOUS
<1> USE DEF PageInv
<1>1. ASSUME UNCHANGED <<page, link>>
      PROVE  PageInv'
  BY <1>1
<1>2. ASSUME NEW r \in Requests, ReceiveUpload(r) \/ Handles(r)
      PROVE  PageInv'
  BY <1>1, <1>2 DEF ReceiveUpload, Receive, Handles, ReadsUpload, CannotParse, ParsedForNobody, Parsed,
     SiteAnswers, MetaArrives, NotAFeed, FindsFeed, FindsNothing, SiteFails, SiteIsSilent, SaveStep,
     Saved, SaveFails, pageVars
<1>3. ASSUME NEW r \in Requests, NEW u \in Urls, ReceiveSubscribe(r, u)
      PROVE  PageInv'
  BY <1>1, <1>3 DEF ReceiveSubscribe, Receive, pageVars
<1>4. ASSUME NEW t \in Tabs, AskForPage(t)
      PROVE  PageInv'
  BY <1>4 DEF AskForPage, NoRows, NoLinks, LinkStates
<1>5. ASSUME NEW t \in Tabs, RenderPage(t)
      PROVE  PageInv'
  <2>1. \A i \in 1..MaxIds : RowUrl(i) \in Urls \cup {NoUrl}
    BY DEF RowUrl, IInv, TypeOK, Rows
  <2> QED BY <1>5, <2>1 DEF RenderPage, LinkStates
<1>6. ASSUME NEW t \in Tabs, NEW i \in 1..MaxIds, Click(t, i) \/ CallGoesOn(t, i)
      PROVE  PageInv'
  <2>1. page' = page
    BY <1>6 DEF Click, CallGoesOn, CallDeletes, CallFails, RemoveRow, ShowLink
  <2>2. \E from, to \in LinkStates : from # "none" /\ LinkGoes(t, i, from, to)
    BY <1>6 DEF Click, CallGoesOn, CallDeletes, CallFails, RemoveRow, ShowLink, LinkStates
  <2> QED BY <2>1, <2>2 DEF LinkGoes
<1>7. ASSUME NEW t \in Tabs, ListFails(t)
      PROVE  PageInv'
  BY <1>1, <1>7 DEF ListFails
<1>8. ASSUME NEW u \in Urls, UnsubscribeElsewhere(u)
      PROVE  PageInv'
  BY <1>1, <1>8 DEF UnsubscribeElsewhere
<1>9. CASE UNCHANGED feedsVars
  BY <1>1, <1>9 DEF feedsVars, pageVars
<1> QED BY <1>2, <1>3, <1>4, <1>5, <1>6, <1>7, <1>8, <1>9 DEF FeedsNext

\* The specification of the handlers and the page implements that of the table.
THEOREM FeedsImplementSubscriptions == FeedsSpec => Spec /\ []PageInv
<1>1. FeedsInit => Init /\ IInv /\ PageInv
  <2>1. FeedsInit => Init /\ PageInv
    BY DEF FeedsInit, PageInv, NoRows, NoLinks, LinkStates
  <2> QED BY <2>1, InitIInv
<1>2. IInv /\ PageInv /\ [FeedsNext]_feedsVars => (IInv /\ PageInv)' /\ [Next]_vars
  BY StepMaps, PageStep, NextIInv
<1> QED BY <1>1, <1>2, PTL DEF FeedsSpec, Spec

-----------------------------------------------------------------------------
\* A save ends as saved only when it has come to the end of its list.
LEMMA ThroughStep == TypeOK /\ SavedIsThrough /\ [Next]_vars => SavedIsThrough'
<1> SUFFICES ASSUME TypeOK, SavedIsThrough, [Next]_vars, NEW q \in Requests, pc'[q] = "saved"
             PROVE  at'[q] = Len(list'[q]) + 1
  BY DEF SavedIsThrough
<1> USE DEF TypeOK
<1>1. CASE pc[q] = "saved" /\ at'[q] = at[q] /\ list'[q] = list[q]
  BY <1>1 DEF SavedIsThrough
<1>2. ASSUME NEW r \in Requests, Advance(r), list' = list
      PROVE  at'[q] = Len(list'[q]) + 1
  <2>1. CASE q = r
    BY <1>2, <2>1 DEF Advance
  <2>2. CASE q # r
    BY <1>1, <1>2, <2>2 DEF Advance
  <2> QED BY <2>1, <2>2
<1>3. ASSUME NEW r \in Requests, Fail(r), list' = list
      PROVE  at'[q] = Len(list'[q]) + 1
  BY <1>1, <1>3 DEF Fail
<1>4. ASSUME NEW r \in Requests, NEW l \in Lists, Save(r, l)
      PROVE  at'[q] = Len(list'[q]) + 1
  <2>1. q # r
    BY <1>4 DEF Save
  <2> QED BY <1>1, <1>4, <2>1 DEF Save
<1>5. ASSUME NEW r \in Requests, Select(r)
      PROVE  at'[q] = Len(list'[q]) + 1
  <2>1. q # r
    BY <1>5 DEF Select
  <2> QED BY <1>1, <1>5, <2>1 DEF Select
<1>6. ASSUME NEW r \in Requests, Insert(r) \/ Update(r) \/ StepFails(r)
      PROVE  at'[q] = Len(list'[q]) + 1
  BY <1>2, <1>3, <1>6 DEF Insert, Update, StepFails
<1>7. ASSUME NEW u \in Urls, Unsubscribe(u)
      PROVE  at'[q] = Len(list'[q]) + 1
  BY <1>1, <1>7 DEF Unsubscribe
<1>8. CASE UNCHANGED vars
  BY <1>1, <1>8 DEF vars
<1> QED BY <1>4, <1>5, <1>6, <1>7, <1>8 DEF Next, Step

\* What a handler knows of its own request: its steps.
LEMMA HandlerStep ==
    ASSUME TypeOK, HandlerInv, NEW r \in Requests,
           \/ ReceiveUpload(r) \/ (\E u \in Urls : ReceiveSubscribe(r, u))
           \/ ReadsUpload(r) \/ SiteAnswers(r) \/ Saved(r) \/ SaveFails(r)
    PROVE  HandlerInv'
<1> USE DEF HandlerInv, Goes, GoTo, Answer, Stages, Fetching, SavesAFeed, Ended, vars
<1>1. CASE ReceiveUpload(r)
  BY <1>1 DEF ReceiveUpload, Receive
<1>2. CASE \E u \in Urls : ReceiveSubscribe(r, u)
  BY <1>2, FeedsAssumption DEF ReceiveSubscribe, Receive
<1>3. CASE CannotParse(r) \/ ParsedForNobody(r)
  BY <1>3 DEF CannotParse, ParsedForNobody
<1>4. ASSUME NEW l \in Uploads, Parsed(r, l)
      PROVE  HandlerInv'
  BY <1>4 DEF Parsed, Save
<1>5. CASE MetaArrives(r)
  <2>1. CASE r \in Anonymous
    BY <1>5, <2>1 DEF MetaArrives
  <2>2. CASE r \notin Anonymous
    <3>1. Save(r, <<Entry(target[r])>>) /\ Goes(r, "saving") /\ target' = target /\ target[r] \in FeedUrls
      BY <1>5, <2>2 DEF MetaArrives
    <3>2. SavesAFeed(r)'
      BY <3>1 DEF Save, TypeOK
    <3>3. \A q \in Requests \ {r} : list'[q] = list[q] /\ pc'[q] = pc[q]
      BY <3>1 DEF Save, TypeOK
    <3>4. answer[r] = "none" /\ answer' = answer
      BY <1>5, <3>1 DEF MetaArrives
    <3>5. \A q \in Requests \ {r} : SavesAFeed(q)' = SavesAFeed(q) /\ stage'[q] = stage[q]
      BY <3>1, <3>3
    <3>6. stage' \in [Requests -> Stages] /\ stage'[r] = "saving"
      BY <3>1
    <3> HIDE DEF SavesAFeed, Answer, Goes, GoTo
    <3> QED BY <3>1, <3>2, <3>3, <3>4, <3>5, <3>6
  <2> QED BY <2>1, <2>2
<1>6. CASE NotAFeed(r)
  BY <1>6 DEF NotAFeed
<1>7. CASE FindsFeed(r)
  <2>1. Links[target[r]] \subseteq Urls
    BY <1>7, FeedsAssumption DEF FindsFeed
  <2> QED BY <1>7, <2>1 DEF FindsFeed, Shortest
<1>8. CASE FindsNothing(r) \/ SiteFails(r) \/ SiteIsSilent(r)
  BY <1>8 DEF FindsNothing, SiteFails, SiteIsSilent
<1>9. CASE Saved(r)
  BY <1>9 DEF Saved
<1>10. CASE SaveFails(r)
  BY <1>10 DEF SaveFails
<1> QED BY <1>1, <1>2, <1>3, <1>4, <1>5, <1>6, <1>7, <1>8, <1>9, <1>10 DEF ReadsUpload, SiteAnswers

\* The steps of a save and those of the page change nothing it knows.
LEMMA OtherStep ==
    ASSUME HandlerInv, UNCHANGED handlerVars,
           \A r \in Requests : stage[r] # "saving" => pc'[r] = pc[r],
           list' = list
    PROVE  HandlerInv'
BY DEF HandlerInv, handlerVars, SavesAFeed

\* What a handler knows survives every step.
LEMMA HandlersKnow == TypeOK /\ HandlerInv /\ [FeedsNext]_feedsVars => HandlerInv'
<1> SUFFICES ASSUME TypeOK, HandlerInv, [FeedsNext]_feedsVars
             PROVE  HandlerInv'
  OBVIOUS
<1>1. ASSUME NEW r \in Requests, SaveStep(r)
      PROVE  HandlerInv'
  <2>1. stage[r] = "saving"
    BY <1>1 DEF SaveStep, Step, Select, Insert, Update, StepFails, HandlerInv, Ended
  <2>2. list' = list /\ \A q \in Requests \ {r} : pc'[q] = pc[q]
    BY <1>1 DEF SaveStep, Step, Select, Insert, Update, StepFails, Advance, Fail, TypeOK
  <2> QED BY <1>1, <2>1, <2>2, OtherStep DEF SaveStep
<1>2. ASSUME UNCHANGED handlerVars, UNCHANGED <<pc, list>>
      PROVE  HandlerInv'
  BY <1>2, OtherStep
<1>3. ASSUME NEW t \in Tabs, AskForPage(t) \/ RenderPage(t) \/ ListFails(t)
      PROVE  HandlerInv'
  BY <1>2, <1>3 DEF AskForPage, RenderPage, ListFails, vars
<1>4. ASSUME NEW t \in Tabs, NEW i \in 1..MaxIds, Click(t, i) \/ CallGoesOn(t, i)
      PROVE  HandlerInv'
  BY <1>2, <1>4 DEF Click, CallGoesOn, CallDeletes, CallFails, RemoveRow, ShowLink, vars, Delete, Unsubscribe
<1>5. ASSUME NEW u \in Urls, UnsubscribeElsewhere(u)
      PROVE  HandlerInv'
  BY <1>2, <1>5 DEF UnsubscribeElsewhere, Delete, Unsubscribe
<1>6. CASE UNCHANGED feedsVars
  BY <1>2, <1>6 DEF feedsVars, vars
<1> QED BY <1>1, <1>3, <1>4, <1>5, <1>6, HandlerStep DEF FeedsNext, Handles

\* The handlers know it in every state.
LEMMA HandlersAlways == FeedsSpec => [](SavedIsThrough /\ HandlerInv)
<1>1. FeedsInit => SavedIsThrough /\ HandlerInv
  BY FeedsAssumption DEF FeedsInit, Init, SavedIsThrough, HandlerInv, Stages, Fetching, Ended
<1>2. /\ TypeOK /\ SavedIsThrough /\ HandlerInv /\ PageInv /\ [FeedsNext]_feedsVars
      => (SavedIsThrough /\ HandlerInv)'
  BY StepMaps, ThroughStep, HandlersKnow
<1> QED BY <1>1, <1>2, FeedsImplementSubscriptions, SubscriptionsTypeCorrect, PTL DEF FeedsSpec

\* What the user is told is true: "subscribed" only of what serves a feed, and
\* only when every feed has its row, but for what was unsubscribed meanwhile.
THEOREM FeedsTellTheTruth == FeedsSpec => []AnswersAreTrue
<1>1. TypeOK /\ DealtWithIsSubscribed /\ SavedIsThrough /\ HandlerInv => AnswersAreTrue
  <2>1. SUFFICES ASSUME TypeOK, DealtWithIsSubscribed, SavedIsThrough, HandlerInv,
                        NEW r \in Requests, answer[r] \in {"uploaded", "subscribed"}
                 PROVE  /\ answer[r] = "subscribed" => SavesAFeed(r)
                        /\ \A i \in DOMAIN list[r] :
                              Subscribed(list[r][i].url) \/ list[r][i].url \in removed[r]
    BY DEF AnswersAreTrue, SavesAFeed
  <2>2. at[r] = Len(list[r]) + 1
    BY <2>1 DEF HandlerInv, SavedIsThrough
  <2>3. list[r] \in Seq(Entries)
    <3>1. list[r] \in Lists \cup {<<>>}
      BY <2>1 DEF TypeOK
    <3>2. <<>> \in Seq(Entries)
      OBVIOUS
    <3> QED BY <3>1, <3>2, ListsAssumption
  <2>4. \A i \in DOMAIN list[r] : i < at[r]
    BY <2>2, <2>3
  <2> QED BY <2>1, <2>4 DEF HandlerInv, DealtWithIsSubscribed
<1> QED BY <1>1, HandlersAlways, FeedsImplementSubscriptions, SubscriptionsTypeCorrect,
           SavedStaysSubscribed, PTL

\* Under the handlers and the page, too, a feed is subscribed twice only after
\* a race.
THEOREM FeedsTwiceOnlyIfRaced == FeedsSpec => []TwiceOnlyIfRaced
BY FeedsImplementSubscriptions, SubscribedTwiceOnlyIfRaced, PTL

\* And what a save has dealt with stays subscribed.
THEOREM FeedsStaySubscribed == FeedsSpec => []DealtWithIsSubscribed
BY FeedsImplementSubscriptions, SavedStaysSubscribed, PTL

-----------------------------------------------------------------------------
\* A link whose call has succeeded stands in a row that was deleted since.
DoneIsDeleted ==
    \A t \in Tabs : \A i \in 1..MaxIds : link[t][i] \in {"done", "gone"} => page[t][i] \in deleted[t]

\* What is kept of a tab.
TabInv ==
    /\ tab \in [Tabs -> {"asking", "open", "unanswered"}]
    /\ deleted \in [Tabs -> SUBSET Urls]
    /\ DoneIsDeleted

\* The steps of the handlers leave the page alone.
LEMMA HandlersLeavePage ==
    ASSUME NEW r \in Requests, ReceiveUpload(r) \/ (\E u \in Urls : ReceiveSubscribe(r, u)) \/ Handles(r)
    PROVE  UNCHANGED pageVars
BY DEF ReceiveUpload, ReceiveSubscribe, Receive, Handles, ReadsUpload, CannotParse, ParsedForNobody,
       Parsed, SiteAnswers, MetaArrives, NotAFeed, FindsFeed, FindsNothing, SiteFails, SiteIsSilent,
       SaveStep, Saved, SaveFails

\* A deletion is noted for every page; a page forgets its deletions when it is
\* rendered, and its links with them.
LEMMA TabStep == PageInv /\ TabInv /\ [FeedsNext]_feedsVars => TabInv'
<1> SUFFICES ASSUME PageInv, TabInv, [FeedsNext]_feedsVars
             PROVE  TabInv'
  OBVIOUS
<1> USE DEF TabInv
<1>1. ASSUME UNCHANGED pageVars
      PROVE  TabInv'
  BY <1>1 DEF pageVars, DoneIsDeleted
<1>2. ASSUME NEW u \in Urls, Delete(u)
      PROVE  /\ deleted' \in [Tabs -> SUBSET Urls]
             /\ \A t \in Tabs : deleted[t] \subseteq deleted'[t]
             /\ \A t \in Tabs : \A i \in 1..MaxIds : page[t][i] = u => u \in deleted'[t]
  <2> DEFINE noted(t) == {page[t][i] : i \in {j \in 1..MaxIds : page[t][j] = u}}
  <2>1. \A t \in Tabs : noted(t) \subseteq Urls
    OBVIOUS
  <2>2. deleted' = [t \in Tabs |-> deleted[t] \cup noted(t)]
    BY <1>2 DEF Delete
  <2>3. \A t \in Tabs : \A i \in 1..MaxIds : page[t][i] = u => u \in noted(t)
    OBVIOUS
  <2> HIDE DEF noted
  <2> QED BY <2>1, <2>2, <2>3
<1>3. ASSUME NEW t \in Tabs, AskForPage(t)
      PROVE  TabInv'
  BY <1>3 DEF AskForPage, NoLinks, PageInv, DoneIsDeleted
<1>4. ASSUME NEW t \in Tabs, RenderPage(t)
      PROVE  TabInv'
  BY <1>4 DEF RenderPage, PageInv, DoneIsDeleted
<1>5. ASSUME NEW t \in Tabs, ListFails(t)
      PROVE  TabInv'
  BY <1>5 DEF ListFails, DoneIsDeleted
<1>6. ASSUME NEW t \in Tabs, NEW i \in 1..MaxIds,
             Click(t, i) \/ CallFails(t, i) \/ RemoveRow(t, i) \/ ShowLink(t, i)
      PROVE  TabInv'
  <2>1. UNCHANGED <<tab, page, deleted>>
    BY <1>6 DEF Click, CallFails, RemoveRow, ShowLink
  <2>2. \E from, to \in LinkStates :
           LinkGoes(t, i, from, to) /\ (to \in {"done", "gone"} => from = "done")
    BY <1>6 DEF Click, CallFails, RemoveRow, ShowLink, LinkStates
  <2> QED BY <2>1, <2>2 DEF LinkGoes, PageInv, DoneIsDeleted
<1>7. ASSUME NEW t \in Tabs, NEW i \in 1..MaxIds, CallDeletes(t, i)
      PROVE  TabInv'
  <2>1. /\ page[t][i] \in Urls /\ UNCHANGED <<tab, page>>
        /\ Delete(page[t][i])
        /\ \E a \in {"done", "refused"} : LinkGoes(t, i, "sent", a)
    BY <1>7 DEF CallDeletes, LinkGoes, PageInv
  <2>2. \A s \in Tabs : \A j \in 1..MaxIds :
           link'[s][j] \in {"done", "gone"} => link[s][j] \in {"done", "gone"} \/ (s = t /\ j = i)
    BY <2>1 DEF LinkGoes, PageInv
  <2>3. DoneIsDeleted'
    BY <1>2, <2>1, <2>2 DEF DoneIsDeleted
  <2> QED BY <1>2, <2>1, <2>3
<1>8. ASSUME NEW u \in Urls, UnsubscribeElsewhere(u)
      PROVE  TabInv'
  BY <1>2, <1>8 DEF UnsubscribeElsewhere, DoneIsDeleted
<1>9. CASE UNCHANGED feedsVars
  BY <1>1, <1>9 DEF feedsVars
<1> QED BY <1>1, <1>3, <1>4, <1>5, <1>6, <1>7, <1>8, <1>9, HandlersLeavePage
        DEF FeedsNext, CallGoesOn

\* It is so in every state.
LEMMA TabsAlways == FeedsSpec => []TabInv
<1>1. FeedsInit => TabInv
  BY DEF FeedsInit, TabInv, DoneIsDeleted, NoLinks
<1> QED BY <1>1, TabStep, FeedsImplementSubscriptions, PTL DEF FeedsSpec

\* A row leaves the page only when its feed was unsubscribed after the page was
\* loaded: by its own call, whose answer said so, or by another.
THEOREM FeedsGoneIsUnsubscribed == FeedsSpec => []GoneIsUnsubscribed
<1>1. TabInv => GoneIsUnsubscribed
  BY DEF TabInv, DoneIsDeleted, GoneIsUnsubscribed
<1> QED BY <1>1, TabsAlways, PTL

\* What the handlers and the page keep is of its type in every state.
THEOREM FeedsTypes == FeedsSpec => []FeedsTypeOK
<1>1. TypeOK /\ HandlerInv /\ PageInv /\ TabInv => FeedsTypeOK
  BY DEF HandlerInv, PageInv, TabInv, FeedsTypeOK, LinkStates
<1> QED BY <1>1, HandlersAlways, TabsAlways, FeedsImplementSubscriptions, SubscriptionsTypeCorrect, PTL

=============================================================================
