--------------------------- MODULE ReaderPageProofs ---------------------------
(***************************************************************************)
(* The homepage in the browser, for any feeds, posts, order of answers and *)
(* failures: a post is shown once, its button tells what the server knows, *)
(* and what is trimmed is what is older, unless the page came with posts;  *)
(* while a feed waits to be loaded, two are being loaded.                  *)
(*                                                                         *)
(* Loaded applies insertPost to each post of an answer.  What it keeps of  *)
(* a page (the posts, one for each url, the order of dates) is shown for   *)
(* one post and carried through the answer by InsertedStays.  The buttons  *)
(* need to know which calls are on their way: MarksOK says of a call that  *)
(* took effect what it says of the button its answer will show.            *)
(***************************************************************************)
EXTENDS ReaderPage, DataInduction

\* Min of a set of positions is one of them.
LEMMA MinProperties ==
    ASSUME NEW B \in SUBSET Nat, B # {}
    PROVE  Min(B) \in B /\ \A y \in B : Min(B) <= y
<1>1. \E x \in B : \A y \in B : x <= y
  BY LeastNatural
<1> QED BY <1>1 DEF Min

\* Inserting into a sequence moves what comes after.
LEMMA InsertAtProperties ==
    ASSUME NEW T, NEW s \in Seq(T), NEW e \in T, NEW i \in 1..(Len(s) + 1)
    PROVE  /\ InsertAt(s, i, e) \in Seq(T)
           /\ Len(InsertAt(s, i, e)) = Len(s) + 1
           /\ \A k \in 1..(Len(s) + 1) :
                 InsertAt(s, i, e)[k] = IF k < i THEN s[k] ELSE IF k = i THEN e ELSE s[k - 1]
<1>1. PICK n : n = Len(s)
  OBVIOUS
<1>2. PICK a : a = SubSeq(s, 1, i - 1)
  OBVIOUS
<1>3. PICK b : b = SubSeq(s, i, Len(s))
  OBVIOUS
<1>4. n \in Nat /\ i \in 1..(n + 1)
  BY <1>1
<1>5. a \in Seq(T) /\ Len(a) = i - 1 /\ \A k \in 1..(i - 1) : a[k] = s[k]
  BY <1>2
<1>6. b \in Seq(T) /\ Len(b) = n + 1 - i /\ \A k \in 1..(n + 1 - i) : b[k] = s[i + k - 1]
  BY <1>1, <1>3
<1>7. PICK c : c = a \o <<e>>
  OBVIOUS
<1>8. c \in Seq(T) /\ Len(c) = i /\ c[i] = e /\ \A k \in 1..(i - 1) : c[k] = s[k]
  BY <1>4, <1>5, <1>7
<1>9. PICK d : d = c \o b
  OBVIOUS
<1>10. /\ d \in Seq(T) /\ Len(d) = n + 1
       /\ \A k \in 1..(n + 1) : d[k] = IF k <= i THEN c[k] ELSE b[k - i]
  <2>1. /\ d \in Seq(T) /\ Len(d) = Len(c) + Len(b)
        /\ \A k \in 1..(Len(c) + Len(b)) : d[k] = IF k <= Len(c) THEN c[k] ELSE b[k - Len(c)]
    BY <1>6, <1>8, <1>9, ConcatProperties
  <2>2. Len(c) + Len(b) = n + 1 /\ Len(c) = i
    BY <1>4, <1>6, <1>8
  <2> QED BY <2>1, <2>2
<1>11. ASSUME NEW k \in 1..(n + 1)
       PROVE  d[k] = IF k < i THEN s[k] ELSE IF k = i THEN e ELSE s[k - 1]
  <2>1. d[k] = IF k <= i THEN c[k] ELSE b[k - i]
    BY <1>10
  <2>2. CASE k <= i
    BY <1>4, <1>8, <2>1, <2>2
  <2>3. CASE k > i
    <3>1. k - i \in 1..(n + 1 - i) /\ i + (k - i) - 1 = k - 1
      BY <1>4, <2>3
    <3> QED BY <1>4, <1>6, <2>1, <2>3, <3>1
  <2> QED BY <1>4, <2>2, <2>3
<1>12. InsertAt(s, i, e) = d
  BY <1>2, <1>3, <1>7, <1>9 DEF InsertAt
<1> QED BY <1>1, <1>10, <1>11, <1>12

\* No two posts of s have one url.
Once(s) == \A i, j \in DOMAIN s : s[i].url = s[j].url => i = j

\* The newest are first, by dates that can be compared.
Ordered(s) ==
    /\ \A i \in DOMAIN s : ~s[i].quoted
    /\ \A i, j \in DOMAIN s : i < j => s[i].date >= s[j].date

\* A button and a call belong to a post of the page, and exclude each other.
ButtonsOK ==
    \A u \in Urls :
       /\ u \notin UrlsOf(page) => button[u] = "none" /\ call[u] = "none"
       /\ call[u] # "none" => button[u] = "none"

\* What a button shows, or will when the call's answer arrives, is what the
\* server knows; a post may be read without the page's knowledge only from the
\* moment the form is sent.
MarksOK ==
    \A u \in Urls :
       /\ button[u] = "unfinished" \/ call[u] = "marked" => u \in read
       /\ phase \in {"rendered", "reading"} /\ (button[u] = "finished" \/ call[u] = "unmarked")
             => u \notin read

\* The inductive invariant.
PageInv == TypeOK /\ Once(page) /\ ButtonsOK /\ MarksOK

\* A row for each post.
LEMMA ViewShown ==
    ASSUME NEW p \in Posts, NEW quoted \in BOOLEAN
    PROVE  /\ View(p, quoted) \in Shown
           /\ View(p, quoted).url = p.url /\ View(p, quoted).date = p.date
           /\ View(p, quoted).quoted = quoted
BY DEF View, Shown, Urls

\* What a row of the page has.
LEMMA ShownRows ==
    ASSUME NEW s \in Seq(Shown)
    PROVE  \A i \in DOMAIN s : s[i].url \in Urls /\ s[i].date \in Nat /\ s[i].quoted \in BOOLEAN
<1> SUFFICES ASSUME NEW i \in DOMAIN s
             PROVE  s[i].url \in Urls /\ s[i].date \in Nat /\ s[i].quoted \in BOOLEAN
  OBVIOUS
<1>1. s[i] \in Shown
  OBVIOUS
<1> QED BY <1>1, PostsAssumption DEF Shown

\* insertPost stops at the first older post.
LEMMA PlaceFound ==
    ASSUME NEW s \in Seq(Shown), NEW p \in Posts
    PROVE  /\ Place(s, p) \in 1..(Len(s) + 1)
           /\ \A i \in 1..Len(s) : i < Place(s, p) => ~Newer(p, s[i])
           /\ Place(s, p) \in 1..Len(s) => Newer(p, s[Place(s, p)])
<1> DEFINE B == {i \in DOMAIN s : Newer(p, s[i])} \cup {Len(s) + 1}
<1>1. DOMAIN s = 1..Len(s) /\ Len(s) \in Nat
  OBVIOUS
<1>2. B \in SUBSET Nat /\ B # {} /\ B \subseteq 1..(Len(s) + 1)
  BY <1>1
<1>3. Place(s, p) = Min(B)
  BY DEF Place
<1>4. Place(s, p) \in B /\ \A y \in B : Place(s, p) <= y
  <2> HIDE DEF B
  <2> QED BY <1>2, <1>3, MinProperties
<1>5. \A i \in 1..Len(s) : Newer(p, s[i]) => i \in B
  BY <1>1
<1>6. Place(s, p) \in 1..Len(s) => Newer(p, s[Place(s, p)])
  BY <1>1, <1>4
<1> QED BY <1>1, <1>2, <1>4, <1>5, <1>6

\* insertPost adds the post, unless its url is there, and keeps the others.
LEMMA InsertPostRows ==
    ASSUME NEW s \in Seq(Shown), NEW p \in Posts
    PROVE  /\ InsertPost(s, p) \in Seq(Shown)
           /\ UrlsOf(InsertPost(s, p)) = UrlsOf(s) \cup {p.url}
           /\ Once(s) => Once(InsertPost(s, p))
           /\ Ordered(s) => Ordered(InsertPost(s, p))
<1>1. CASE p.url \in UrlsOf(s)
  BY <1>1 DEF InsertPost
<1>2. CASE p.url \notin UrlsOf(s)
  <2>1. PICK n : n = Len(s)
    OBVIOUS
  <2>2. PICK i : i = Place(s, p)
    OBVIOUS
  <2>3. PICK e : e = View(p, FALSE)
    OBVIOUS
  <2>4. PICK t : t = InsertPost(s, p)
    OBVIOUS
  <2>5. /\ n \in Nat /\ DOMAIN s = 1..n /\ i \in 1..(n + 1)
        /\ \A j \in 1..n : j < i => ~Newer(p, s[j])
        /\ i \in 1..n => Newer(p, s[i])
    BY <2>1, <2>2, PlaceFound
  <2>6. e \in Shown /\ e.url = p.url /\ e.date = p.date /\ e.quoted = FALSE
    BY <2>3, ViewShown
  <2>7. t = InsertAt(s, i, e)
    BY <1>2, <2>2, <2>3, <2>4 DEF InsertPost
  <2>8. /\ t \in Seq(Shown) /\ Len(t) = n + 1 /\ DOMAIN t = 1..(n + 1)
        /\ \A k \in 1..(n + 1) : t[k] = IF k < i THEN s[k] ELSE IF k = i THEN e ELSE s[k - 1]
    BY <2>1, <2>5, <2>6, <2>7, InsertAtProperties
  <2> DEFINE from(k) == IF k < i THEN k ELSE k - 1
  <2>9. \A k \in 1..(n + 1) :
           \/ k = i /\ t[k] = e
           \/ k # i /\ from(k) \in 1..n /\ t[k] = s[from(k)]
    BY <2>5, <2>8
  <2>10. \A k \in 1..n : \E l \in 1..(n + 1) : l # i /\ from(l) = k
    <3> SUFFICES ASSUME NEW k \in 1..n PROVE \E l \in 1..(n + 1) : l # i /\ from(l) = k
      OBVIOUS
    <3>1. CASE k < i
      BY <2>5, <3>1
    <3>2. CASE ~(k < i)
      <4>1. k + 1 \in 1..(n + 1) /\ k + 1 # i /\ from(k + 1) = k
        BY <2>5, <3>2
      <4> QED BY <4>1
    <3> QED BY <3>1, <3>2
  <2>11. UrlsOf(t) = UrlsOf(s) \cup {p.url}
    <3>1. UrlsOf(t) \subseteq UrlsOf(s) \cup {p.url}
      <4> HIDE DEF from
      <4> QED BY <2>5, <2>6, <2>8, <2>9 DEF UrlsOf
    <3>2. p.url \in UrlsOf(t)
      BY <2>5, <2>6, <2>8, <2>9 DEF UrlsOf
    <3>3. ASSUME NEW k \in 1..n
          PROVE  s[k].url \in UrlsOf(t)
      <4> HIDE DEF from
      <4> QED BY <2>8, <2>9, <2>10 DEF UrlsOf
    <3> QED BY <2>5, <3>1, <3>2, <3>3 DEF UrlsOf
  <2>12. ASSUME Once(s)
         PROVE  Once(t)
    <3> SUFFICES ASSUME NEW k \in 1..(n + 1), NEW l \in 1..(n + 1), t[k].url = t[l].url
                 PROVE  k = l
      BY <2>8 DEF Once
    <3>1. \A j \in 1..n : s[j].url # p.url
      BY <1>2, <2>5 DEF UrlsOf
    <3>2. k # i /\ l # i => from(k) = from(l)
      <4> HIDE DEF from
      <4> QED BY <2>5, <2>9, <2>12 DEF Once
    <3>3. k = i <=> l = i
      <4> HIDE DEF from
      <4> QED BY <2>6, <2>9, <3>1
    <3> QED BY <2>5, <3>2, <3>3
  <2>13. ASSUME Ordered(s)
         PROVE  Ordered(t)
    <3>1. \A j \in 1..n : ~s[j].quoted /\ s[j].date \in Nat
      BY <2>5, <2>13, ShownRows DEF Ordered
    <3>2. p.date \in Nat
      BY PostsAssumption
    <3>3. \A j \in 1..n : j < i => s[j].date >= p.date
      BY <2>5, <3>1, <3>2 DEF Newer
    <3>4. \A j \in 1..n : ~(j < i) => p.date >= s[j].date
      <4> SUFFICES ASSUME NEW j \in 1..n, ~(j < i) PROVE p.date >= s[j].date
        OBVIOUS
      <4>1. i \in 1..n /\ p.date > s[i].date
        BY <2>5, <3>1 DEF Newer
      <4>2. j = i \/ s[i].date >= s[j].date
        BY <2>5, <2>13, <4>1 DEF Ordered
      <4> QED BY <3>1, <3>2, <4>1, <4>2
    <3>5. \A k \in 1..(n + 1) : ~t[k].quoted
      <4> HIDE DEF from
      <4> QED BY <2>6, <2>9, <3>1
    <3>6. ASSUME NEW k \in 1..(n + 1), NEW l \in 1..(n + 1), k < l
          PROVE  t[k].date >= t[l].date
      <4>1. CASE k = i
        <5>1. l # i /\ from(l) \in 1..n /\ ~(from(l) < i)
          BY <2>5, <3>6, <4>1
        <5> HIDE DEF from
        <5> QED BY <2>6, <2>9, <3>4, <4>1, <5>1
      <4>2. CASE l = i
        <5>1. k # i /\ from(k) \in 1..n /\ from(k) < i
          BY <2>5, <3>6, <4>2
        <5> HIDE DEF from
        <5> QED BY <2>6, <2>9, <3>3, <4>2, <5>1
      <4>3. CASE k # i /\ l # i
        <5>1. from(k) < from(l)
          BY <2>5, <3>6, <4>3
        <5> HIDE DEF from
        <5> QED BY <2>5, <2>9, <2>13, <4>3, <5>1 DEF Ordered
      <4> QED BY <4>1, <4>2, <4>3
    <3> QED BY <2>8, <3>5, <3>6 DEF Ordered
  <2> QED BY <2>4, <2>8, <2>11, <2>12, <2>13
<1> QED BY <1>1, <1>2

-----------------------------------------------------------------------------
(* What a whole answer does to the page.                                     *)

\* What holds of the page, and of what insertPost makes of a page it holds of,
\* holds when the last post of an answer is in.
LEMMA InsertedStays ==
    ASSUME NEW answer \in Seq(Posts), NEW G, page \in G,
           \A s \in G : \A i \in 1..Len(answer) : InsertPost(s, answer[i]) \in G
    PROVE  Inserted(answer) \in G
<1> DEFINE n == Len(answer)
           step == [i \in 1..n |-> [s \in G |-> InsertPost(s, answer[i])]]
           upTo[i \in 0..n] == IF i = 0 THEN page ELSE InsertPost(upTo[i - 1], answer[i])
<1>1. n \in Nat /\ step \in [1..n -> [G -> G]]
  OBVIOUS
<1>2. PICK f : Iterates(f, G, n, page, step)
  <2> DEFINE base == page
  <2>1. base \in G
    OBVIOUS
  <2> HIDE DEF step, n, base
  <2>2. \E f : Iterates(f, G, n, base, step)
    BY <1>1, <2>1, RecursionUpTo, Zenon
  <2> QED BY <2>2 DEF base
<1>3. f = [i \in 0..n |-> IF i = 0 THEN page ELSE InsertPost(f[i - 1], answer[i])]
  <2>1. f \in [0..n -> G] /\ f[0] = page /\ \A i \in 1..n : f[i] = step[i][f[i - 1]]
    BY <1>2 DEF Iterates
  <2>2. \A i \in 0..n : i = 0 \/ (i # 0 /\ i \in 1..n /\ i - 1 \in 0..n)
    BY <1>1
  <2>3. \A i \in 1..n, s \in G : step[i][s] = InsertPost(s, answer[i])
    OBVIOUS
  <2>4. \A i \in 1..n : f[i - 1] \in G
    BY <1>1, <2>1
  <2> HIDE DEF step, n
  <2>5. \A i \in 1..n : f[i] = InsertPost(f[i - 1], answer[i])
    BY <2>1, <2>3, <2>4
  <2> QED BY <2>1, <2>2, <2>5
<1>4. upTo = [i \in 0..n |-> IF i = 0 THEN page ELSE InsertPost(upTo[i - 1], answer[i])]
  <2> HIDE DEF step
  <2> QED BY <1>3
<1>5. Iterates(upTo, G, n, page, step)
  <2> DEFINE m == n
             U == upTo
             base == page
  <2>1. U = [i \in 0..m |-> IF i = 0 THEN page ELSE InsertPost(U[i - 1], answer[i])]
    BY <1>4
  <2>2. m \in Nat /\ base \in G /\ step \in [1..m -> [G -> G]]
    BY <1>1
  <2>3. \A i \in 1..m, s \in G : step[i][s] = InsertPost(s, answer[i])
    OBVIOUS
  <2>4. U = [i \in 0..m |-> U[i]] /\ U[0] = base /\ \A i \in 1..m : U[i] = InsertPost(U[i - 1], answer[i])
    <3> HIDE DEF m, U, step
    <3>1. 0 \in 0..m /\ \A i \in 1..m : i \in 0..m /\ i # 0
      BY <2>2
    <3>2. U = [i \in 0..m |-> U[i]]
      BY <2>1
    <3>3. U[0] = page /\ \A i \in 1..m : U[i] = InsertPost(U[i - 1], answer[i])
      BY <2>1, <3>1, Zenon
    <3> QED BY <3>2, <3>3
  <2> HIDE DEF m, U, step, base
  <2>5. \A i \in 1..m : U[i - 1] \in G => U[i] = step[i][U[i - 1]]
    BY <2>3, <2>4
  <2>6. Iterates(U, G, m, base, step)
    BY <2>2, <2>4, <2>5, IteratesTyped
  <2> QED BY <2>6 DEF U, m, base
<1>6. Inserted(answer) = upTo[n]
  BY DEF Inserted
<1>7. n \in 0..n
  BY <1>1
<1> HIDE DEF upTo, n, step
<1> QED BY <1>5, <1>6, <1>7 DEF Iterates

\* What insertPost keeps of a page, it keeps through an answer.
LEMMA InsertedRows ==
    ASSUME page \in Seq(Shown), NEW answer \in Seq(Posts)
    PROVE  /\ Inserted(answer) \in Seq(Shown)
           /\ UrlsOf(page) \subseteq UrlsOf(Inserted(answer))
           /\ UrlsOf(Inserted(answer)) \subseteq UrlsOf(page) \cup UrlsOf(answer)
           /\ Once(page) => Once(Inserted(answer))
           /\ Ordered(page) => Ordered(Inserted(answer))
<1> DEFINE G == {s \in Seq(Shown) :
                   /\ UrlsOf(page) \subseteq UrlsOf(s)
                   /\ UrlsOf(s) \subseteq UrlsOf(page) \cup UrlsOf(answer)
                   /\ Once(page) => Once(s)
                   /\ Ordered(page) => Ordered(s)}
<1>1. page \in G
  OBVIOUS
<1>2. ASSUME NEW s \in G, NEW i \in 1..Len(answer)
      PROVE  InsertPost(s, answer[i]) \in G
  <2>1. answer[i] \in Posts /\ answer[i].url \in UrlsOf(answer)
    BY DEF UrlsOf
  <2>2. s \in Seq(Shown)
    OBVIOUS
  <2> QED BY <2>1, <2>2, InsertPostRows
<1>3. Inserted(answer) \in G
  <2> HIDE DEF G
  <2> QED BY <1>1, <1>2, InsertedStays
<1> QED BY <1>3

-----------------------------------------------------------------------------
(* Sequences of a set.                                                       *)

\* They are sequences over the set.
LEMMA SetToSeqsTyped ==
    ASSUME NEW S, IsFiniteSet(S), NEW s \in SetToSeqs(S)
    PROVE  s \in Seq(S)
<1>1. Cardinality(S) \in Nat
  BY FS_CardinalityType
<1> QED BY <1>1 DEF SetToSeqs

\* A sequence has as many urls as posts exactly if no two of them share one.
LEMMA OnceCounts ==
    ASSUME NEW T, NEW s \in Seq(T)
    PROVE  Cardinality(UrlsOf(s)) = Len(s) <=> Once(s)
<1> DEFINE n == Len(s)
           D == 1..n
           f == [i \in D |-> s[i].url]
<1>1. n \in Nat /\ DOMAIN s = D
  OBVIOUS
<1>2. IsFiniteSet(D) /\ Cardinality(D) = n
  BY <1>1, FS_Interval
<1>3. f \in Surjection(D, UrlsOf(s))
  BY <1>1 DEF Surjection, UrlsOf
<1>4. Cardinality(UrlsOf(s)) = n <=> f \in Injection(D, UrlsOf(s))
  BY <1>2, <1>3, FS_Surjection
<1>5. f \in Injection(D, UrlsOf(s)) <=> Once(s)
  BY <1>1, <1>3 DEF Injection, Surjection, IsInjective, Once
<1> QED BY <1>4, <1>5


-----------------------------------------------------------------------------
(* The page keeps its order of things in every step.                         *)

\* The types of a page that loads feeds.
LEMMA LoadNextTypes ==
    ASSUME TypeOK, NEW n \in Nat, NEW states \in [Feeds -> {"fresh", "queued", "loading", "loaded"}],
           LoadNext(n, states)
    PROVE  /\ feed' \in [Feeds -> {"fresh", "queued", "loading", "loaded"}]
           /\ toLoad' \in Seq(Feeds)
<1>1. feed' \in [Feeds -> {"fresh", "queued", "loading", "loaded"}]
  BY DEF LoadNext
<1>2. toLoad \in Seq(Feeds)
  BY DEF TypeOK
<1>3. SubSeq(toLoad, n + 1, Len(toLoad)) \in Seq(Feeds)
  BY <1>2
<1> QED BY <1>1, <1>3 DEF LoadNext

\* The page as the server renders it.
LEMMA InitPage ==
    ASSUME Init
    PROVE  PageInv /\ (~Rendered => page = <<>>)
<1>1. IsFiniteSet(stored) /\ stored \subseteq Posts
  BY PostsAssumption, FS_Subset DEF Init
<1>2. PICK s \in Homepage(stored) : page = [i \in DOMAIN s |-> View(s[i], TRUE)]
  BY DEF Init
<1>3. PICK S \in SUBSET stored : s \in SetToSeqs(S)
  BY <1>2 DEF Homepage, SetToAllKPermutations
<1>4. s \in Seq(S)
  BY <1>1, <1>3, SetToSeqsTyped, FS_Subset
<1>5. \A i \in DOMAIN s : s[i] \in stored /\ s[i] \in Posts
  BY <1>1, <1>3, <1>4
<1>6. page \in Seq(Shown) /\ DOMAIN page = DOMAIN s
  <2>1. DOMAIN s = 1..Len(s) /\ Len(s) \in Nat
    BY <1>4
  <2>2. \A i \in 1..Len(s) : View(s[i], TRUE) \in Shown
    <3> SUFFICES ASSUME NEW i \in 1..Len(s) PROVE View(s[i], TRUE) \in Shown
      OBVIOUS
    <3>1. s[i] \in Posts
      BY <1>5, <2>1
    <3> QED BY <3>1, ViewShown
  <2>3. page = [i \in 1..Len(s) |-> View(s[i], TRUE)]
    BY <1>2, <2>1
  <2>4. page \in [1..Len(s) -> Shown]
    <3> HIDE DEF View
    <3> QED BY <2>2, <2>3
  <2> QED BY <2>1, <2>4
<1>7. \A i \in DOMAIN page : page[i].url = s[i].url 
  BY <1>2, <1>5, <1>6, ViewShown
<1>8. Once(page)
  <2>1. Once(s)
    BY <1>2, <1>4, OnceCounts DEF Homepage
  <2> QED BY <1>6, <1>7, <2>1 DEF Once
<1>9. toLoad \in Seq(Feeds)
  <2>1. PICK F \in SUBSET Feeds : toLoad \in SetToSeqs(F)
    BY DEF Init
  <2>2. toLoad \in Seq(F)
    BY <2>1, FeedsAssumption, FS_Subset, SetToSeqsTyped
  <2> QED BY <2>1, <2>2
<1>10. feed \in [Feeds -> {"fresh", "queued", "loading", "loaded"}]
  BY DEF Init
<1>11. TypeOK
  BY <1>1, <1>6, <1>9, <1>10, LimitAssumption DEF Init, TypeOK, ManyPosts
<1>12. ButtonsOK /\ MarksOK
  BY DEF Init, ButtonsOK, MarksOK
<1>13. ASSUME ~Rendered
       PROVE  page = <<>>
  <2>1. stored = {}
    BY <1>13 DEF Init
  <2>2. DOMAIN page = {}
    BY <1>5, <1>6, <2>1
  <2> QED BY <1>6, <2>2
<1> QED BY <1>8, <1>11, <1>12, <1>13 DEF PageInv

\* An answer puts in posts that are not read, each with the button "finished".
LEMMA LoadedPage ==
    ASSUME PageInv, NEW f \in Feeds, Loaded(f)
    PROVE  PageInv' /\ (Ordered(page) => Ordered(page'))
<1>1. PICK new \in SUBSET {p \in Posts : p.feed = f} :
         /\ stored' = stored \cup new
         /\ \E answer \in SetToSeqs({p \in stored' : p.feed = f /\ p.url \notin read}) \cup {<<>>} :
               page' = Inserted(answer)
  BY DEF Loaded
<1> DEFINE unread == {p \in stored' : p.feed = f /\ p.url \notin read}
<1>2. PICK answer \in SetToSeqs(unread) \cup {<<>>} : page' = Inserted(answer)
  BY <1>1
<1>3. stored' \subseteq Posts /\ IsFiniteSet(unread)
  <2>1. stored' \subseteq Posts
    BY <1>1 DEF PageInv, TypeOK
  <2> QED BY <2>1, PostsAssumption, FS_Subset
<1>4. answer \in Seq(unread) /\ answer \in Seq(Posts)
  <2>1. answer \in Seq(unread)
    <3>1. CASE answer = <<>>
      BY <3>1
    <3>2. CASE answer \in SetToSeqs(unread)
      <4> HIDE DEF unread
      <4> QED BY <1>3, <3>2, SetToSeqsTyped
    <3> QED BY <3>1, <3>2
  <2> QED BY <1>3, <2>1
<1>5. \A u \in UrlsOf(answer) : u \notin read /\ u \in Urls
  BY <1>3, <1>4 DEF UrlsOf, Urls
<1>6. page \in Seq(Shown)
  BY DEF PageInv, TypeOK
<1>7. /\ page' \in Seq(Shown)
      /\ UrlsOf(page) \subseteq UrlsOf(page')
      /\ UrlsOf(page') \subseteq UrlsOf(page) \cup UrlsOf(answer)
      /\ Once(page')
      /\ Ordered(page) => Ordered(page')
  BY <1>2, <1>4, <1>6, InsertedRows DEF PageInv
<1>8. /\ button' = [u \in Urls |-> IF u \in UrlsOf(page') \ UrlsOf(page)
                                   THEN "finished" ELSE button[u]]
      /\ UNCHANGED <<read, phase, call, trim>>
      /\ formShown' = FormAfter(Len(page'))
      /\ LoadNext(1, [feed EXCEPT ![f] = "loaded"])
  BY DEF Loaded
<1>9. TypeOK'
  <2>1. [feed EXCEPT ![f] = "loaded"] \in [Feeds -> {"fresh", "queued", "loading", "loaded"}]
    BY DEF PageInv, TypeOK
  <2>2. /\ feed' \in [Feeds -> {"fresh", "queued", "loading", "loaded"}]
        /\ toLoad' \in Seq(Feeds)
    BY <1>8, <2>1, LoadNextTypes DEF PageInv
  <2>3. formShown' \in BOOLEAN /\ button' \in [Urls -> {"finished", "unfinished", "none"}]
    BY <1>8 DEF FormAfter, PageInv, TypeOK
  <2> HIDE DEF unread
  <2> QED BY <1>3, <1>7, <1>8, <2>2, <2>3 DEF PageInv, TypeOK
<1>10. ButtonsOK'
  BY <1>7, <1>8 DEF PageInv, ButtonsOK
<1>11. MarksOK'
  BY <1>5, <1>7, <1>8 DEF PageInv, ButtonsOK, MarksOK
<1> QED BY <1>7, <1>9, <1>10, <1>11 DEF PageInv

\* The other steps leave the posts where they are.
LEMMA OtherSteps ==
    ASSUME PageInv, [Next]_vars, \A f \in Feeds : ~Loaded(f)
    PROVE  PageInv' /\ page' = page
<1>1. ASSUME StartReader \/ \E f \in Feeds : LoadFails(f)
      PROVE  PageInv' /\ page' = page
  <2>1. UNCHANGED <<stored, read, pageVars, call, trim>>
    BY <1>1 DEF StartReader, LoadFails
  <2>2. \/ phase' = phase
        \/ phase = "rendered" /\ phase' = "reading"
    BY <1>1 DEF StartReader, LoadFails
  <2>3. \E n \in Nat, states \in [Feeds -> {"fresh", "queued", "loading", "loaded"}] :
           LoadNext(n, states)
    BY <1>1 DEF StartReader, LoadFails, PageInv, TypeOK
  <2>4. /\ feed' \in [Feeds -> {"fresh", "queued", "loading", "loaded"}]
        /\ toLoad' \in Seq(Feeds)
    BY <2>3, LoadNextTypes DEF PageInv
  <2> QED BY <2>1, <2>2, <2>4 DEF PageInv, TypeOK, ButtonsOK, MarksOK, pageVars
<1>2. ASSUME NEW u \in Urls, Click(u)
      PROVE  PageInv' /\ page' = page
  <2>1. /\ button[u] # "none" /\ button' = [button EXCEPT ![u] = "none"]
        /\ \E c \in {"mark", "unmark"} : call' = [call EXCEPT ![u] = c]
        /\ UNCHANGED <<stored, read, phase, toLoad, feed, page, formShown, trim>>
    BY <1>2 DEF Click
  <2> QED BY <2>1 DEF PageInv, TypeOK, ButtonsOK, MarksOK
<1>3. ASSUME NEW u \in Urls, Answers(u)
      PROVE  PageInv' /\ page' = page
  <2>1. CASE MarkPostAsRead(u)
    BY <2>1 DEF MarkPostAsRead, pageVars, PageInv, TypeOK, ButtonsOK, MarksOK
  <2>2. CASE MarkPostAsUnread(u)
    BY <2>2 DEF MarkPostAsUnread, pageVars, PageInv, TypeOK, ButtonsOK, MarksOK
  <2>3. CASE CallSucceeds(u)
    BY <2>3 DEF CallSucceeds, PageInv, TypeOK, ButtonsOK, MarksOK
  <2>4. CASE CallFails(u)
    BY <2>4 DEF CallFails, pageVars, PageInv, TypeOK, ButtonsOK, MarksOK
  <2> QED BY <1>3, <2>1, <2>2, <2>3, <2>4 DEF Answers
<1>4. ASSUME NEW keep \in 0..Len(page), SubmitTrim(keep)
      PROVE  PageInv' /\ page' = page
  <2>1. trim' \in Seq(Urls)
    <3>1. page \in Seq(Shown) /\ Len(page) \in Nat
      BY DEF PageInv, TypeOK
    <3>2. \A i \in 1..(Len(page) - keep) : page[i + keep].url \in Urls
      BY <3>1, ShownRows
    <3>3. Len(page) - keep \in Nat
      BY <3>1
    <3> QED BY <1>4, <3>2, <3>3 DEF SubmitTrim
  <2> QED BY <1>4, <2>1 DEF SubmitTrim, pageVars, PageInv, TypeOK, ButtonsOK, MarksOK
<1>5. ASSUME TrimPost
      PROVE  PageInv' /\ page' = page
  <2>1. Head(trim) \in Urls /\ Tail(trim) \in Seq(Urls)
    BY <1>5 DEF TrimPost, PageInv, TypeOK
  <2> QED BY <1>5, <2>1 DEF TrimPost, pageVars, PageInv, TypeOK, ButtonsOK, MarksOK
<1>6. ASSUME Leave
      PROVE  PageInv' /\ page' = page
  BY <1>6 DEF Leave, pageVars, PageInv, TypeOK, ButtonsOK, MarksOK
<1>7. ASSUME UNCHANGED vars
      PROVE  PageInv' /\ page' = page
  BY <1>7 DEF vars, PageInv, TypeOK, ButtonsOK, MarksOK
<1> QED BY <1>1, <1>2, <1>3, <1>4, <1>5, <1>6, <1>7 DEF Next

\* The invariant holds in every state.
LEMMA PageAlways == Spec => []PageInv
<1>1. Init => PageInv
  BY InitPage
<1>2. PageInv /\ [Next]_vars => PageInv'
  BY LoadedPage, OtherSteps
<1> QED BY <1>1, <1>2, PTL DEF Spec

\* What the page, its calls and the server keep is of its type.
THEOREM PageTypes == Spec => []TypeOK
BY PageAlways, PTL DEF PageInv

\* "does not add the feed": a post is on the page once, whatever feeds hold it
\* and in whatever order they are answered.
THEOREM PageShowsPostsOnce == Spec => []NoPostTwice
<1>1. PageInv => NoPostTwice
  BY OnceCounts DEF PageInv, TypeOK, NoPostTwice
<1> QED BY <1>1, PageAlways, PTL

\* A button tells what the server knows, unless a call for its post is on its
\* way, or the post has just been trimmed.
THEOREM PageButtonsTellTruth == Spec => []ButtonTellsTruth
<1>1. PageInv => ButtonTellsTruth
  BY DEF PageInv, MarksOK, ButtonTellsTruth
<1> QED BY <1>1, PageAlways, PTL

\* A page that came without posts is in the order of dates.
LEMMA OrderedAlways ==
    ASSUME ~Rendered
    PROVE  Spec => []Ordered(page)
<1>1. Init => Ordered(page)
  BY InitPage DEF Ordered
<1>2. PageInv /\ Ordered(page) /\ [Next]_vars => Ordered(page)'
  BY LoadedPage, OtherSteps
<1> QED BY <1>1, <1>2, PageAlways, PTL DEF Spec

\* "Would you rather forget about the older ones?": from a page that came
\* without posts, no post is trimmed while an older one is kept.
THEOREM PageTrimsOlder ==
    ASSUME ~Rendered
    PROVE  Spec => TrimForgetsOlder
<1>1. PageInv /\ Ordered(page) /\ [Next]_vars
        => [phase = "reading" /\ phase' = "trimming" =>
              \A i, j \in DOMAIN page :
                 (\E k \in DOMAIN trim' : trim'[k] = page[j].url)
                 /\ ~(\E k \in DOMAIN trim' : trim'[k] = page[i].url)
                 => page[i].date >= page[j].date]_vars
  <2> SUFFICES ASSUME PageInv, Ordered(page), [Next]_vars, phase = "reading", phase' = "trimming",
                      NEW i \in DOMAIN page, NEW j \in DOMAIN page,
                      \E k \in DOMAIN trim' : trim'[k] = page[j].url,
                      ~(\E k \in DOMAIN trim' : trim'[k] = page[i].url)
               PROVE  page[i].date >= page[j].date
    OBVIOUS
  <2>1. PICK keep \in 0..Len(page) : SubmitTrim(keep)
    BY DEF Next, StartReader, Loaded, LoadFails, Click, Answers, MarkPostAsRead, MarkPostAsUnread,
           CallSucceeds, CallFails, TrimPost, Leave, vars
  <2>2. page \in Seq(Shown) /\ Len(page) \in Nat /\ DOMAIN page = 1..Len(page)
    BY DEF PageInv, TypeOK
  <2>3. trim' = [k \in 1..(Len(page) - keep) |-> page[k + keep].url]
    BY <2>1 DEF SubmitTrim
  <2>4. PICK k \in 1..(Len(page) - keep) : page[k + keep].url = page[j].url
    BY <2>3
  <2>5. j = k + keep
    BY <2>2, <2>4 DEF PageInv, Once
  <2>6. i <= keep
    <3>1. ASSUME ~(i <= keep)
          PROVE  FALSE
      <4>1. i - keep \in 1..(Len(page) - keep) /\ (i - keep) + keep = i
        BY <2>2, <3>1
      <4>2. trim'[i - keep] = page[i].url
        BY <2>3, <4>1
      <4> QED BY <2>3, <4>1, <4>2
    <3> QED BY <3>1
  <2>7. i < j
    BY <2>2, <2>5, <2>6
  <2> QED BY <2>7 DEF Ordered
<1> QED BY <1>1, PageAlways, OrderedAlways, PTL DEF Spec, TrimForgetsOlder

-----------------------------------------------------------------------------
(* What a feed waits for.                                                    *)

LoadingFeeds == {f \in Feeds : feed[f] = "loading"}
WaitingFeeds == {f \in Feeds : feed[f] = "queued"}

\* The list holds the feeds that wait, each once.
ListOK ==
    /\ {toLoad[i] : i \in DOMAIN toLoad} = WaitingFeeds
    /\ \A i, j \in DOMAIN toLoad : i # j => toLoad[i] # toLoad[j]

\* No more than two requests are on their way, and as long as a feed waits two
\* are, however many have failed: it waits for feeds that still may be answered.
TwoAtATime ==
    /\ Cardinality(LoadingFeeds) <= 2
    /\ phase = "rendered" => LoadingFeeds = {}
    /\ phase # "rendered" /\ WaitingFeeds # {} => Cardinality(LoadingFeeds) = 2

\* A list in any order names each of its feeds once.
LEMMA SetToSeqsAll ==
    ASSUME NEW S, IsFiniteSet(S), NEW s \in SetToSeqs(S)
    PROVE  /\ {s[i] : i \in DOMAIN s} = S
           /\ \A i, j \in DOMAIN s : i # j => s[i] # s[j]
<1>1. PICK n \in Nat : n = Cardinality(S)
  BY FS_CardinalityType
<1>2. s \in [1..n -> S] /\ \A i, j \in 1..n : i # j => s[i] # s[j]
  BY <1>1 DEF SetToSeqs
<1>3. s \in Injection(1..n, S)
  BY <1>2 DEF Injection, IsInjective
<1>4. Cardinality(1..n) = n
  BY FS_Interval
<1>5. s \in Surjection(1..n, S)
  BY <1>1, <1>3, <1>4, FS_Injection
<1> QED BY <1>2, <1>5 DEF Surjection

\* Taking the first n of the list leaves a list of those that wait then.
LEMMA LoadNextLists ==
    ASSUME TypeOK, ListOK, NEW n \in Nat,
           NEW states \in [Feeds -> {"fresh", "queued", "loading", "loaded"}],
           \A f \in Feeds : states[f] = "queued" <=> feed[f] = "queued",
           LoadNext(n, states)
    PROVE  /\ ListOK'
           /\ LoadingFeeds' = {f \in Feeds : states[f] = "loading"}
                              \cup {toLoad[i] : i \in DOMAIN toLoad \cap 1..n}
<1> DEFINE taken == {toLoad[i] : i \in DOMAIN toLoad \cap 1..n}
           rest == SubSeq(toLoad, n + 1, Len(toLoad))
<1>1. toLoad \in Seq(Feeds) /\ Len(toLoad) \in Nat /\ DOMAIN toLoad = 1..Len(toLoad)
  BY DEF TypeOK
<1>2. feed' = [f \in Feeds |-> IF f \in taken THEN "loading" ELSE states[f]]
  BY DEF LoadNext
<1>3. toLoad' = rest
  BY DEF LoadNext
<1>4. /\ DOMAIN rest = {k \in Nat : 1 <= k /\ k + n <= Len(toLoad)}
      /\ \A k \in DOMAIN rest : rest[k] = toLoad[k + n] /\ k + n \in DOMAIN toLoad
  BY <1>1
<1>5. taken \subseteq Feeds
  BY <1>1
<1>6. {rest[k] : k \in DOMAIN rest} = WaitingFeeds \ taken
  <2>1. ASSUME NEW k \in DOMAIN rest
        PROVE  rest[k] \in WaitingFeeds \ taken
    <3>1. rest[k] = toLoad[k + n] /\ k + n \in DOMAIN toLoad /\ k + n \notin 1..n
      BY <1>4
    <3> QED BY <3>1 DEF ListOK
  <2>2. ASSUME NEW f \in WaitingFeeds, f \notin taken
        PROVE  \E k \in DOMAIN rest : f = rest[k]
    <3>1. PICK i \in DOMAIN toLoad : f = toLoad[i]
      BY DEF ListOK
    <3>2. i \notin 1..n
      BY <2>2, <3>1
    <3>3. i - n \in DOMAIN rest /\ (i - n) + n = i
      BY <1>1, <1>4, <3>2
    <3> QED BY <1>4, <3>1, <3>3
  <2> QED BY <2>1, <2>2
<1>7. WaitingFeeds' = WaitingFeeds \ taken
  BY <1>2, <1>5 DEF WaitingFeeds
<1>8. \A k, l \in DOMAIN rest : k # l => rest[k] # rest[l]
  BY <1>1, <1>4 DEF ListOK
<1>9. ListOK'
  BY <1>3, <1>6, <1>7, <1>8 DEF ListOK
<1>10. LoadingFeeds' = {f \in Feeds : states[f] = "loading"} \cup taken
  BY <1>2, <1>5 DEF LoadingFeeds
<1> QED BY <1>9, <1>10

\* A set that gains a new element gains one.
LEMMA OneMore ==
    ASSUME NEW S, IsFiniteSet(S), NEW x, x \notin S
    PROVE  IsFiniteSet(S \cup {x}) /\ Cardinality(S \cup {x}) = Cardinality(S) + 1
BY FS_AddElement

\* The reader begins with the first two feeds, or with those there are.
LEMMA StartLoads ==
    ASSUME TypeOK, ListOK, TwoAtATime, StartReader
    PROVE  ListOK' /\ TwoAtATime'
<1>1. LoadNext(2, feed) /\ phase = "rendered" /\ phase' = "reading"
  BY DEF StartReader
<1>2. feed \in [Feeds -> {"fresh", "queued", "loading", "loaded"}]
  BY DEF TypeOK
<1>3. /\ ListOK'
      /\ LoadingFeeds' = LoadingFeeds \cup {toLoad[i] : i \in DOMAIN toLoad \cap 1..2}
  BY <1>1, <1>2, LoadNextLists DEF LoadingFeeds
<1>4. LoadingFeeds' = {toLoad[i] : i \in DOMAIN toLoad \cap 1..2}
  BY <1>1, <1>3 DEF TwoAtATime
<1>5. toLoad \in Seq(Feeds) /\ Len(toLoad) \in Nat /\ DOMAIN toLoad = 1..Len(toLoad)
  BY DEF TypeOK
<1>6. CASE Len(toLoad) = 0
  <2>1. LoadingFeeds' = {}
    BY <1>4, <1>5, <1>6
  <2>2. WaitingFeeds = {}
    BY <1>5, <1>6 DEF ListOK
  <2>3. WaitingFeeds' = {}
    BY <1>1, <1>2, <1>5, <1>6, <2>2 DEF WaitingFeeds, LoadNext
  <2> QED BY <1>1, <1>3, <2>1, <2>3, FS_EmptySet DEF TwoAtATime
<1>7. CASE Len(toLoad) = 1
  <2>1. LoadingFeeds' = {} \cup {toLoad[1]}
    BY <1>4, <1>5, <1>7
  <2>2. Cardinality(LoadingFeeds') = 1
    <3>1. PICK x : x = toLoad[1]
      OBVIOUS
    <3>2. Cardinality({} \cup {x}) = 1
      BY FS_EmptySet, OneMore
    <3> QED BY <2>1, <3>1, <3>2
  <2>3. WaitingFeeds' = {}
    <3>1. toLoad' = <<>>
      BY <1>1, <1>5, <1>7 DEF LoadNext
    <3> QED BY <1>3, <3>1 DEF ListOK
  <2> QED BY <1>1, <1>3, <2>2, <2>3 DEF TwoAtATime
<1>8. CASE Len(toLoad) >= 2
  <2>1. LoadingFeeds' = ({} \cup {toLoad[1]}) \cup {toLoad[2]} /\ toLoad[1] # toLoad[2]
    BY <1>4, <1>5, <1>8 DEF ListOK
  <2>2. Cardinality(LoadingFeeds') = 2
    <3>1. PICK x, y : x = toLoad[1] /\ y = toLoad[2]
      OBVIOUS
    <3>2. IsFiniteSet({} \cup {x}) /\ Cardinality({} \cup {x}) = 1
      BY FS_EmptySet, OneMore
    <3>3. y \notin {} \cup {x}
      BY <2>1, <3>1
    <3>4. Cardinality(({} \cup {x}) \cup {y}) = 2
      <4> HIDE <3>1
      <4> QED BY <3>2, <3>3, OneMore
    <3> QED BY <2>1, <3>1, <3>4
  <2> QED BY <1>1, <1>3, <2>2 DEF TwoAtATime
<1> QED BY <1>5, <1>6, <1>7, <1>8

\* A feed that is answered, or fails, makes room for the next of the list.
LEMMA NextLoads ==
    ASSUME TypeOK, ListOK, TwoAtATime, NEW f \in Feeds, Loaded(f) \/ LoadFails(f)
    PROVE  ListOK' /\ TwoAtATime'
<1> DEFINE states == [feed EXCEPT ![f] = "loaded"]
<1>1. LoadNext(1, states) /\ phase' = phase /\ feed[f] = "loading" /\ f \in LoadingFeeds
  BY DEF Loaded, LoadFails, LoadingFeeds
<1>2. /\ feed \in [Feeds -> {"fresh", "queued", "loading", "loaded"}]
      /\ states \in [Feeds -> {"fresh", "queued", "loading", "loaded"}]
      /\ \A g \in Feeds : states[g] = IF g = f THEN "loaded" ELSE feed[g]
  BY DEF TypeOK
<1>3. toLoad \in Seq(Feeds) /\ Len(toLoad) \in Nat /\ DOMAIN toLoad = 1..Len(toLoad)
  BY DEF TypeOK
<1>4. \A g \in Feeds : states[g] = "queued" <=> feed[g] = "queued"
  BY <1>1, <1>2
<1>5. {g \in Feeds : states[g] = "loading"} = LoadingFeeds \ {f}
  BY <1>2 DEF LoadingFeeds
<1> HIDE DEF states
<1>6. ListOK' /\ LoadingFeeds' = (LoadingFeeds \ {f})
                                 \cup {toLoad[i] : i \in DOMAIN toLoad \cap 1..1}
  BY <1>1, <1>2, <1>4, <1>5, LoadNextLists
<1>7. IsFiniteSet(LoadingFeeds) /\ Cardinality(LoadingFeeds) \in Nat
  BY FeedsAssumption, FS_Subset, FS_CardinalityType DEF LoadingFeeds
<1>8. phase # "rendered"
  BY <1>1 DEF TwoAtATime
<1>9. /\ IsFiniteSet(LoadingFeeds \ {f})
      /\ Cardinality(LoadingFeeds \ {f}) = Cardinality(LoadingFeeds) - 1
  BY <1>1, <1>7, FS_RemoveElement
<1>10. CASE toLoad = <<>>
  <2>1. LoadingFeeds' = LoadingFeeds \ {f}
    BY <1>3, <1>6, <1>10
  <2>2. WaitingFeeds' = {}
    <3>1. toLoad' = <<>>
      BY <1>1, <1>3, <1>10 DEF LoadNext
    <3> QED BY <1>6, <3>1 DEF ListOK
  <2>3. Cardinality(LoadingFeeds') <= 2
    BY <1>7, <1>9, <2>1 DEF TwoAtATime
  <2> QED BY <1>1, <1>6, <1>8, <2>2, <2>3 DEF TwoAtATime
<1>11. CASE toLoad # <<>>
  <2>1. 1 \in DOMAIN toLoad
    BY <1>3, <1>11
  <2>2. toLoad[1] \in WaitingFeeds
    BY <2>1 DEF ListOK
  <2>3. toLoad[1] \notin LoadingFeeds
    BY <2>2 DEF WaitingFeeds, LoadingFeeds
  <2>4. LoadingFeeds' = (LoadingFeeds \ {f}) \cup {toLoad[1]}
    BY <1>6, <2>1
  <2>5. Cardinality(LoadingFeeds) = 2
    BY <1>8, <2>2 DEF TwoAtATime
  <2>6. Cardinality(LoadingFeeds') = 2
    <3>1. PICK x, S : x = toLoad[1] /\ S = LoadingFeeds \ {f}
      OBVIOUS
    <3>2. IsFiniteSet(S) /\ Cardinality(S) = 1 /\ x \notin S
      BY <1>9, <2>3, <2>5, <3>1
    <3>3. Cardinality(S \cup {x}) = 2
      BY <3>2, OneMore
    <3> QED BY <2>4, <3>1, <3>3
  <2> QED BY <1>1, <1>6, <1>8, <2>6 DEF TwoAtATime
<1> QED BY <1>10, <1>11

\* "We'll load 2 feeds at a time until done", whatever is answered or fails.
THEOREM PageLoadsTwoAtATime == Spec => []TwoAtATime
<1>1. Init => ListOK /\ TwoAtATime
  <2> SUFFICES ASSUME Init PROVE ListOK /\ TwoAtATime
    OBVIOUS
  <2>1. PICK S \in SUBSET Feeds :
           /\ toLoad \in SetToSeqs(S)
           /\ feed = [f \in Feeds |-> IF f \in S THEN "queued" ELSE "fresh"]
    BY DEF Init
  <2>2. WaitingFeeds = S /\ LoadingFeeds = {}
    BY <2>1 DEF WaitingFeeds, LoadingFeeds
  <2>3. IsFiniteSet(S)
    BY FeedsAssumption, FS_Subset
  <2>4. ListOK
    BY <2>1, <2>2, <2>3, SetToSeqsAll DEF ListOK
  <2> QED BY <2>2, <2>4, FS_EmptySet DEF Init, TwoAtATime
<1>2. PageInv /\ ListOK /\ TwoAtATime /\ [Next]_vars => (ListOK /\ TwoAtATime)'
  <2> SUFFICES ASSUME PageInv, ListOK, TwoAtATime, [Next]_vars PROVE ListOK' /\ TwoAtATime'
    OBVIOUS
  <2> DEFINE elsewhere ==
        /\ UNCHANGED <<toLoad, feed>>
        /\ phase' = phase \/ {phase, phase'} \subseteq {"reading", "trimming", "left"}
  <2>1. CASE StartReader
    BY <2>1, StartLoads DEF PageInv
  <2>2. CASE \E f \in Feeds : Loaded(f) \/ LoadFails(f)
    BY <2>2, NextLoads DEF PageInv
  <2>3. CASE elsewhere
    BY <2>3 DEF ListOK, TwoAtATime, WaitingFeeds, LoadingFeeds
  <2>4. ASSUME ~StartReader, ~(\E f \in Feeds : Loaded(f) \/ LoadFails(f))
        PROVE  elsewhere
    BY <2>4 DEF Next, Click, Answers, MarkPostAsRead, MarkPostAsUnread, CallSucceeds, CallFails,
                SubmitTrim, TrimPost, Leave, vars
  <2> QED BY <2>1, <2>2, <2>3, <2>4
<1> QED BY <1>1, <1>2, PageAlways, PTL DEF Spec

=============================================================================
