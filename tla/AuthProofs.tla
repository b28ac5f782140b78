------------------------------ MODULE AuthProofs ------------------------------
(***************************************************************************)
(* Accounts, then the sessions on top of them, for any requests,           *)
(* addresses, usernames, profiles, pages and messages.                     *)
(*                                                                         *)
(* Accounts are opened whole, each with a user and keys of its own: every  *)
(* step of Accounts is a step of AccountStore or changes no account.  The  *)
(* inductive invariant IInv says what the ids and keys held by requests    *)
(* under way have to do with the committed rows.                           *)
(*                                                                         *)
(* The browser's requests are requests of Accounts, so what is proved      *)
(* there holds under them; whoever is logged in has an account; the cookie *)
(* differs from a session kept by the server only after an answer changed  *)
(* an older copy; and messages leave it only in the ways the code has.     *)
(***************************************************************************)
EXTENDS Auth, TLAPS

\* Ids are handed out in order.
IdsOK ==
    /\ \A u \in users : u < nextId
    /\ \A r \in Requests : own[r] < nextId
    /\ Owners \subseteq users

\* A request has the form its phase is about.
FormsOK ==
    \A r \in Requests :
       /\ pc[r] \in Registering => form[r] \in Registrations
       /\ pc[r] \in LoggingIn => form[r] \in Profiles
       /\ reply[r] \in {"emailTaken", "nameTaken"} =>
             pc[r] \in {"undoing", "done"} /\ form[r] \in Registrations
       /\ reply[r] = "welcome" => pc[r] = "done"

\* The id of this request belongs to it alone.
Holds(r) ==
    \/ pc[r] \in {"opened", "registered", "linking"}
    \/ reply[r] \in {"emailTaken", "nameTaken"}

\* Ids of rows without an account are held once; those of transactions are
\* not in the table.
HoldersOK ==
    /\ \A r \in Requests :
          Holds(r) =>
             /\ own[r] \in 1..MaxId
             /\ own[r] \notin Owners
             /\ pc[r] = "linking" <=> own[r] \in users
    /\ \A r, q \in Requests : r # q /\ Holds(r) /\ Holds(q) => own[r] # own[q]

\* Keys of accounts and of transactions about to commit are used once.
KeysOK ==
    /\ \A a, b \in passwords : a # b => ~SameKey(a.form, b.form)
    /\ \A r \in Requests : pc[r] = "registered" => ~EmailTaken(r) /\ ~NameTaken(r)
    /\ \A r, q \in Requests :
          r # q /\ pc[r] = "registered" /\ pc[q] = "registered" => ~SameKey(form[r], form[q])

\* A registration that looks its user up has been stored.
SignedInOK ==
    \A r \in Requests :
       pc[r] = "signingIn" => [form |-> form[r], user |-> own[r]] \in passwords

\* The invariant of the accounts: the parts that make the properties inductive.
IInv ==
    /\ TypeOK
    /\ IdsOK
    /\ FormsOK
    /\ HoldersOK
    /\ KeysOK
    /\ SignedInOK
    /\ OnlyGoogleLeavesRows
    /\ TakenIsTrue
    /\ WelcomedAsOwner

-----------------------------------------------------------------------------
\* One more row has one more owner.
LEMMA OwnersGrow ==
    ASSUME NEW R, NEW f, NEW u
    PROVE  {row.user : row \in R \cup {[form |-> f, user |-> u]}} = {row.user : row \in R} \cup {u}
  <1> DEFINE new == [form |-> f, user |-> u]
  <1>1. new.user = u
    OBVIOUS
  <1> HIDE DEF new
  <1>2. {row.user : row \in R \cup {new}} = {row.user : row \in R} \cup {new.user}
    BY Zenon
  <1> QED
    BY <1>1, <1>2 DEF new

\* A row that is added to either table adds its user to the owners.
LEMMA NewOwner ==
    ASSUME NEW r, passwords' \cup profiles' =
              (passwords \cup profiles) \cup {[form |-> form[r], user |-> own[r]]}
    PROVE  Owners' = Owners \cup {own[r]}
  <1> DEFINE R == passwords \cup profiles
             S == passwords' \cup profiles'
             row == [form |-> form[r], user |-> own[r]]
  <1>1. S = R \cup {row}
    OBVIOUS
  <1>2. Owners = {x.user : x \in R} /\ Owners' = {x.user : x \in S}
    BY DEF Owners
  <1> HIDE DEF R, S
  <1> QED
    BY <1>1, <1>2, OwnersGrow

\* No tables, no requests.
LEMMA InitIInv == Init => IInv
  BY MaxIdAssumption DEF Init, IInv, TypeOK, IdsOK, FormsOK, HoldersOK, KeysOK, SignedInOK,
     OnlyGoogleLeavesRows, TakenIsTrue, WelcomedAsOwner, Holds, Owners, Phases, Registering,
     LoggingIn, Replies, Registrations

\* A row of users takes an id nobody has had.
LEMMA InsertUserIInv == ASSUME IInv, NEW r \in Requests, InsertUser(r) PROVE IInv'
  <1> USE DEF InsertUser, TakeId, Go, End, tables
  <1>1. TypeOK'
    BY MaxIdAssumption DEF IInv, TypeOK, FormsOK, HoldersOK, Holds, Phases, Registering, LoggingIn, Replies
  <1>2. IdsOK'
    BY MaxIdAssumption DEF IInv, IdsOK, TypeOK, HoldersOK, Holds, Owners
  <1>3. FormsOK'
    BY MaxIdAssumption DEF IInv, FormsOK, TypeOK, Holds, Phases, Registering, LoggingIn
  <1>4. HoldersOK'
    BY MaxIdAssumption DEF IInv, HoldersOK, TypeOK, IdsOK, Holds, Owners
  <1>5. KeysOK'
    BY MaxIdAssumption DEF IInv, KeysOK, TypeOK, FormsOK, Holds, SameKey, EmailTaken, NameTaken
  <1>6. SignedInOK'
    BY MaxIdAssumption DEF IInv, SignedInOK, TypeOK, Holds
  <1>7. OnlyGoogleLeavesRows'
    BY MaxIdAssumption DEF IInv, OnlyGoogleLeavesRows, TypeOK, HoldersOK, Holds, Owners
  <1>8. TakenIsTrue'
    BY MaxIdAssumption DEF IInv, TakenIsTrue, TypeOK, FormsOK, IdsOK, HoldersOK, Holds, EmailTaken, NameTaken
  <1>9. WelcomedAsOwner'
    BY MaxIdAssumption DEF IInv, WelcomedAsOwner, TypeOK, SignedInOK, KeysOK, FormsOK, Holds
  <1> QED
    BY <1>1, <1>2, <1>3, <1>4, <1>5, <1>6, <1>7, <1>8, <1>9 DEF IInv

\* A row of userPasswords is put in only when nobody has, or waits to have, its keys.
LEMMA InsertPasswordIInv == ASSUME IInv, NEW r \in Requests, InsertPassword(r) PROVE IInv'
  <1> USE DEF InsertPassword, MustWait, Go, End, tables
  <1>1. TypeOK'
    BY MaxIdAssumption DEF IInv, TypeOK, FormsOK, HoldersOK, Holds, Phases, Registering, LoggingIn, Replies
  <1>2. IdsOK'
    BY MaxIdAssumption DEF IInv, IdsOK, TypeOK, HoldersOK, Holds, Owners
  <1>3. FormsOK'
    BY MaxIdAssumption DEF IInv, FormsOK, TypeOK, Holds, Phases, Registering, LoggingIn
  <1>4. HoldersOK'
    BY MaxIdAssumption DEF IInv, HoldersOK, TypeOK, IdsOK, Holds, Owners
  <1>5. KeysOK'
    BY MaxIdAssumption DEF IInv, KeysOK, TypeOK, FormsOK, Holds, SameKey, EmailTaken, NameTaken
  <1>6. SignedInOK'
    BY MaxIdAssumption DEF IInv, SignedInOK, TypeOK, Holds
  <1>7. OnlyGoogleLeavesRows'
    BY MaxIdAssumption DEF IInv, OnlyGoogleLeavesRows, TypeOK, HoldersOK, Holds, Owners
  <1>8. TakenIsTrue'
    BY MaxIdAssumption DEF IInv, TakenIsTrue, TypeOK, FormsOK, IdsOK, HoldersOK, Holds, EmailTaken, NameTaken
  <1>9. WelcomedAsOwner'
    BY MaxIdAssumption DEF IInv, WelcomedAsOwner, TypeOK, SignedInOK, KeysOK, FormsOK, Holds
  <1> QED
    BY <1>1, <1>2, <1>3, <1>4, <1>5, <1>6, <1>7, <1>8, <1>9 DEF IInv

\* A failed statement changes no table.
LEMMA StatementFailsIInv == ASSUME IInv, NEW r \in Requests, StatementFails(r) PROVE IInv'
  <1> USE DEF StatementFails, Go, End, tables
  <1>1. TypeOK'
    BY MaxIdAssumption DEF IInv, TypeOK, FormsOK, HoldersOK, Holds, Phases, Registering, LoggingIn, Replies
  <1>2. IdsOK'
    BY MaxIdAssumption DEF IInv, IdsOK, TypeOK, HoldersOK, Holds, Owners
  <1>3. FormsOK'
    BY MaxIdAssumption DEF IInv, FormsOK, TypeOK, Holds, Phases, Registering, LoggingIn
  <1>4. HoldersOK'
    BY MaxIdAssumption DEF IInv, HoldersOK, TypeOK, IdsOK, Holds, Owners
  <1>5. KeysOK'
    BY MaxIdAssumption DEF IInv, KeysOK, TypeOK, FormsOK, Holds, SameKey, EmailTaken, NameTaken
  <1>6. SignedInOK'
    BY MaxIdAssumption DEF IInv, SignedInOK, TypeOK, Holds
  <1>7. OnlyGoogleLeavesRows'
    BY MaxIdAssumption DEF IInv, OnlyGoogleLeavesRows, TypeOK, HoldersOK, Holds, Owners
  <1>8. TakenIsTrue'
    BY MaxIdAssumption DEF IInv, TakenIsTrue, TypeOK, FormsOK, IdsOK, HoldersOK, Holds, EmailTaken, NameTaken
  <1>9. WelcomedAsOwner'
    BY MaxIdAssumption DEF IInv, WelcomedAsOwner, TypeOK, SignedInOK, KeysOK, FormsOK, Holds
  <1> QED
    BY <1>1, <1>2, <1>3, <1>4, <1>5, <1>6, <1>7, <1>8, <1>9 DEF IInv

\* A lost connection takes its transaction along.
LEMMA ConnectionLostIInv == ASSUME IInv, NEW r \in Requests, ConnectionLost(r) PROVE IInv'
  <1> USE DEF ConnectionLost, Go, End, tables
  <1>1. TypeOK'
    BY MaxIdAssumption DEF IInv, TypeOK, FormsOK, HoldersOK, Holds, Phases, Registering, LoggingIn, Replies
  <1>2. IdsOK'
    BY MaxIdAssumption DEF IInv, IdsOK, TypeOK, HoldersOK, Holds, Owners
  <1>3. FormsOK'
    BY MaxIdAssumption DEF IInv, FormsOK, TypeOK, Holds, Phases, Registering, LoggingIn
  <1>4. HoldersOK'
    BY MaxIdAssumption DEF IInv, HoldersOK, TypeOK, IdsOK, Holds, Owners
  <1>5. KeysOK'
    BY MaxIdAssumption DEF IInv, KeysOK, TypeOK, FormsOK, Holds, SameKey, EmailTaken, NameTaken
  <1>6. SignedInOK'
    BY MaxIdAssumption DEF IInv, SignedInOK, TypeOK, Holds
  <1>7. OnlyGoogleLeavesRows'
    BY MaxIdAssumption DEF IInv, OnlyGoogleLeavesRows, TypeOK, HoldersOK, Holds, Owners
  <1>8. TakenIsTrue'
    BY MaxIdAssumption DEF IInv, TakenIsTrue, TypeOK, FormsOK, IdsOK, HoldersOK, Holds, EmailTaken, NameTaken
  <1>9. WelcomedAsOwner'
    BY MaxIdAssumption DEF IInv, WelcomedAsOwner, TypeOK, SignedInOK, KeysOK, FormsOK, Holds
  <1> QED
    BY <1>1, <1>2, <1>3, <1>4, <1>5, <1>6, <1>7, <1>8, <1>9 DEF IInv

\* A rolled back registration keeps its reply.
LEMMA RollbackIInv == ASSUME IInv, NEW r \in Requests, Rollback(r) PROVE IInv'
  <1> USE DEF Rollback, Go, End, tables
  <1>1. TypeOK'
    BY MaxIdAssumption DEF IInv, TypeOK, FormsOK, HoldersOK, Holds, Phases, Registering, LoggingIn, Replies
  <1>2. IdsOK'
    BY MaxIdAssumption DEF IInv, IdsOK, TypeOK, HoldersOK, Holds, Owners
  <1>3. FormsOK'
    BY MaxIdAssumption DEF IInv, FormsOK, TypeOK, Holds, Phases, Registering, LoggingIn
  <1>4. HoldersOK'
    BY MaxIdAssumption DEF IInv, HoldersOK, TypeOK, IdsOK, Holds, Owners
  <1>5. KeysOK'
    BY MaxIdAssumption DEF IInv, KeysOK, TypeOK, FormsOK, Holds, SameKey, EmailTaken, NameTaken
  <1>6. SignedInOK'
    BY MaxIdAssumption DEF IInv, SignedInOK, TypeOK, Holds
  <1>7. OnlyGoogleLeavesRows'
    BY MaxIdAssumption DEF IInv, OnlyGoogleLeavesRows, TypeOK, HoldersOK, Holds, Owners
  <1>8. TakenIsTrue'
    BY MaxIdAssumption DEF IInv, TakenIsTrue, TypeOK, FormsOK, IdsOK, HoldersOK, Holds, EmailTaken, NameTaken
  <1>9. WelcomedAsOwner'
    BY MaxIdAssumption DEF IInv, WelcomedAsOwner, TypeOK, SignedInOK, KeysOK, FormsOK, Holds
  <1> QED
    BY <1>1, <1>2, <1>3, <1>4, <1>5, <1>6, <1>7, <1>8, <1>9 DEF IInv

\* So does one whose ROLLBACK failed, with another reply.
LEMMA RollbackFailsIInv == ASSUME IInv, NEW r \in Requests, RollbackFails(r) PROVE IInv'
  <1> USE DEF RollbackFails, Go, End, tables
  <1>1. TypeOK'
    BY MaxIdAssumption DEF IInv, TypeOK, FormsOK, HoldersOK, Holds, Phases, Registering, LoggingIn, Replies
  <1>2. IdsOK'
    BY MaxIdAssumption DEF IInv, IdsOK, TypeOK, HoldersOK, Holds, Owners
  <1>3. FormsOK'
    BY MaxIdAssumption DEF IInv, FormsOK, TypeOK, Holds, Phases, Registering, LoggingIn
  <1>4. HoldersOK'
    BY MaxIdAssumption DEF IInv, HoldersOK, TypeOK, IdsOK, Holds, Owners
  <1>5. KeysOK'
    BY MaxIdAssumption DEF IInv, KeysOK, TypeOK, FormsOK, Holds, SameKey, EmailTaken, NameTaken
  <1>6. SignedInOK'
    BY MaxIdAssumption DEF IInv, SignedInOK, TypeOK, Holds
  <1>7. OnlyGoogleLeavesRows'
    BY MaxIdAssumption DEF IInv, OnlyGoogleLeavesRows, TypeOK, HoldersOK, Holds, Owners
  <1>8. TakenIsTrue'
    BY MaxIdAssumption DEF IInv, TakenIsTrue, TypeOK, FormsOK, IdsOK, HoldersOK, Holds, EmailTaken, NameTaken
  <1>9. WelcomedAsOwner'
    BY MaxIdAssumption DEF IInv, WelcomedAsOwner, TypeOK, SignedInOK, KeysOK, FormsOK, Holds
  <1> QED
    BY <1>1, <1>2, <1>3, <1>4, <1>5, <1>6, <1>7, <1>8, <1>9 DEF IInv

\* A committed account has a user and keys of its own.
LEMMA CommitIInv == ASSUME IInv, NEW r \in Requests, Commit(r) PROVE IInv'
  <1> USE DEF Commit, Store, Go, End, tables
  <1>a. /\ form[r] \in Registrations
        /\ own[r] \in 1..MaxId
        /\ [form |-> form[r], user |-> own[r]] \in [form: Registrations, user: 1..MaxId]
    BY DEF IInv, FormsOK, HoldersOK, Holds, Registering
  <1>b. Owners' = Owners \cup {own[r]} /\ users' = users \cup {own[r]}
    BY NewOwner
  <1>1. TypeOK'
    BY <1>a, <1>b, MaxIdAssumption DEF IInv, TypeOK, FormsOK, HoldersOK, Holds, Phases, Registering, LoggingIn, Replies
  <1>2. IdsOK'
    BY <1>a, <1>b, MaxIdAssumption DEF IInv, IdsOK, TypeOK, HoldersOK, Holds
  <1>3. FormsOK'
    BY MaxIdAssumption DEF IInv, FormsOK, TypeOK, Holds, Phases, Registering, LoggingIn
  <1>4. HoldersOK'
    BY <1>a, <1>b, MaxIdAssumption DEF IInv, HoldersOK, FormsOK, TypeOK, IdsOK, Holds
  <1>5. KeysOK'
    BY MaxIdAssumption DEF IInv, KeysOK, TypeOK, FormsOK, Holds, SameKey, EmailTaken, NameTaken
  <1>6. SignedInOK'
    BY MaxIdAssumption DEF IInv, SignedInOK, TypeOK, Holds
  <1>7. OnlyGoogleLeavesRows'
    BY <1>a, <1>b, MaxIdAssumption DEF IInv, OnlyGoogleLeavesRows, TypeOK, HoldersOK, Holds
  <1>8. TakenIsTrue'
    BY MaxIdAssumption DEF IInv, TakenIsTrue, TypeOK, FormsOK, IdsOK, HoldersOK, Holds, EmailTaken, NameTaken
  <1>9. WelcomedAsOwner'
    BY MaxIdAssumption DEF IInv, WelcomedAsOwner, TypeOK, SignedInOK, KeysOK, FormsOK, Holds
  <1> QED
    BY <1>1, <1>2, <1>3, <1>4, <1>5, <1>6, <1>7, <1>8, <1>9 DEF IInv

\* A COMMIT that is not answered well stores the whole account or nothing.
LEMMA CommitFailsIInv == ASSUME IInv, NEW r \in Requests, CommitFails(r) PROVE IInv'
  <1> USE DEF CommitFails, Store, Go, End, tables
  <1>a. /\ form[r] \in Registrations
        /\ own[r] \in 1..MaxId
        /\ [form |-> form[r], user |-> own[r]] \in [form: Registrations, user: 1..MaxId]
    BY DEF IInv, FormsOK, HoldersOK, Holds, Registering
  <1>b. \/ Owners' = Owners \cup {own[r]} /\ users' = users \cup {own[r]}
        \/ Owners' = Owners /\ users' = users
    BY NewOwner DEF Owners
  <1>1. TypeOK'
    BY <1>a, <1>b, MaxIdAssumption DEF IInv, TypeOK, FormsOK, HoldersOK, Holds, Phases, Registering, LoggingIn, Replies
  <1>2. IdsOK'
    BY <1>a, <1>b, MaxIdAssumption DEF IInv, IdsOK, TypeOK, HoldersOK, Holds
  <1>3. FormsOK'
    BY MaxIdAssumption DEF IInv, FormsOK, TypeOK, Holds, Phases, Registering, LoggingIn
  <1>4. HoldersOK'
    BY <1>a, <1>b, MaxIdAssumption DEF IInv, HoldersOK, TypeOK, IdsOK, Holds
  <1>5. KeysOK'
    BY MaxIdAssumption DEF IInv, KeysOK, TypeOK, FormsOK, Holds, SameKey, EmailTaken, NameTaken
  <1>6. SignedInOK'
    BY MaxIdAssumption DEF IInv, SignedInOK, TypeOK, Holds
  <1>7. OnlyGoogleLeavesRows'
    BY <1>a, <1>b, MaxIdAssumption DEF IInv, OnlyGoogleLeavesRows, TypeOK, HoldersOK, Holds
  <1>8. TakenIsTrue'
    BY MaxIdAssumption DEF IInv, TakenIsTrue, TypeOK, FormsOK, IdsOK, HoldersOK, Holds, EmailTaken, NameTaken
  <1>9. WelcomedAsOwner'
    BY MaxIdAssumption DEF IInv, WelcomedAsOwner, TypeOK, SignedInOK, KeysOK, FormsOK, Holds
  <1> QED
    BY <1>1, <1>2, <1>3, <1>4, <1>5, <1>6, <1>7, <1>8, <1>9 DEF IInv

\* The user found by the address is the one registered.
LEMMA FindUserIInv == ASSUME IInv, NEW r \in Requests, FindUser(r) PROVE IInv'
  <1> USE DEF FindUser, Go, End, tables
  <1>a. PICK row \in passwords : row.form[1] = form[r][1] /\ own' = [own EXCEPT ![r] = row.user]
    OBVIOUS
  <1>b. [form |-> form[r], user |-> own[r]] \in passwords
    BY DEF IInv, SignedInOK
  <1>c. row = [form |-> form[r], user |-> own[r]]
    BY <1>a, <1>b DEF IInv, KeysOK, SameKey
  <1>d. own'[r] = own[r]
    BY <1>a, <1>c DEF IInv, TypeOK
  <1>1. TypeOK'
    BY MaxIdAssumption DEF IInv, TypeOK, FormsOK, HoldersOK, Holds, Phases, Registering, LoggingIn, Replies
  <1>2. IdsOK'
    BY MaxIdAssumption DEF IInv, IdsOK, TypeOK, HoldersOK, Holds, Owners
  <1>3. FormsOK'
    BY MaxIdAssumption DEF IInv, FormsOK, TypeOK, Holds, Phases, Registering, LoggingIn
  <1>4. HoldersOK'
    BY MaxIdAssumption DEF IInv, HoldersOK, TypeOK, IdsOK, Holds, Owners
  <1>5. KeysOK'
    BY MaxIdAssumption DEF IInv, KeysOK, TypeOK, FormsOK, Holds, SameKey, EmailTaken, NameTaken
  <1>6. SignedInOK'
    BY MaxIdAssumption DEF IInv, SignedInOK, TypeOK, Holds
  <1>7. OnlyGoogleLeavesRows'
    BY MaxIdAssumption DEF IInv, OnlyGoogleLeavesRows, TypeOK, HoldersOK, Holds, Owners
  <1>8. TakenIsTrue'
    BY MaxIdAssumption DEF IInv, TakenIsTrue, TypeOK, FormsOK, IdsOK, HoldersOK, Holds, EmailTaken, NameTaken
  <1>9. WelcomedAsOwner'
    BY <1>b, <1>d, MaxIdAssumption DEF IInv, WelcomedAsOwner, TypeOK, SignedInOK, KeysOK, FormsOK, Holds
  <1> QED
    BY <1>1, <1>2, <1>3, <1>4, <1>5, <1>6, <1>7, <1>8, <1>9 DEF IInv

\* Looking the user up changes no table.
LEMMA FindFailsIInv == ASSUME IInv, NEW r \in Requests, FindFails(r) PROVE IInv'
  <1> USE DEF FindFails, Go, End, tables
  <1>1. TypeOK'
    BY MaxIdAssumption DEF IInv, TypeOK, FormsOK, HoldersOK, Holds, Phases, Registering, LoggingIn, Replies
  <1>2. IdsOK'
    BY MaxIdAssumption DEF IInv, IdsOK, TypeOK, HoldersOK, Holds, Owners
  <1>3. FormsOK'
    BY MaxIdAssumption DEF IInv, FormsOK, TypeOK, Holds, Phases, Registering, LoggingIn
  <1>4. HoldersOK'
    BY MaxIdAssumption DEF IInv, HoldersOK, TypeOK, IdsOK, Holds, Owners
  <1>5. KeysOK'
    BY MaxIdAssumption DEF IInv, KeysOK, TypeOK, FormsOK, Holds, SameKey, EmailTaken, NameTaken
  <1>6. SignedInOK'
    BY MaxIdAssumption DEF IInv, SignedInOK, TypeOK, Holds
  <1>7. OnlyGoogleLeavesRows'
    BY MaxIdAssumption DEF IInv, OnlyGoogleLeavesRows, TypeOK, HoldersOK, Holds, Owners
  <1>8. TakenIsTrue'
    BY MaxIdAssumption DEF IInv, TakenIsTrue, TypeOK, FormsOK, IdsOK, HoldersOK, Holds, EmailTaken, NameTaken
  <1>9. WelcomedAsOwner'
    BY MaxIdAssumption DEF IInv, WelcomedAsOwner, TypeOK, SignedInOK, KeysOK, FormsOK, Holds
  <1> QED
    BY <1>1, <1>2, <1>3, <1>4, <1>5, <1>6, <1>7, <1>8, <1>9 DEF IInv

\* The user found by the profile is its owner.
LEMMA SeekIInv == ASSUME IInv, NEW r \in Requests, Seek(r) PROVE IInv'
  <1> USE DEF Seek, Linked, Go, End, tables
  <1>1. TypeOK'
    BY MaxIdAssumption DEF IInv, TypeOK, FormsOK, HoldersOK, Holds, Phases, Registering, LoggingIn, Replies
  <1>2. IdsOK'
    BY MaxIdAssumption DEF IInv, IdsOK, TypeOK, HoldersOK, Holds, Owners
  <1>3. FormsOK'
    BY MaxIdAssumption DEF IInv, FormsOK, TypeOK, Holds, Phases, Registering, LoggingIn
  <1>4. HoldersOK'
    BY MaxIdAssumption DEF IInv, HoldersOK, TypeOK, IdsOK, Holds, Owners
  <1>5. KeysOK'
    BY MaxIdAssumption DEF IInv, KeysOK, TypeOK, FormsOK, Holds, SameKey, EmailTaken, NameTaken
  <1>6. SignedInOK'
    BY MaxIdAssumption DEF IInv, SignedInOK, TypeOK, Holds
  <1>7. OnlyGoogleLeavesRows'
    BY MaxIdAssumption DEF IInv, OnlyGoogleLeavesRows, TypeOK, HoldersOK, Holds, Owners
  <1>8. TakenIsTrue'
    BY MaxIdAssumption DEF IInv, TakenIsTrue, TypeOK, FormsOK, IdsOK, HoldersOK, Holds, EmailTaken, NameTaken
  <1>9. WelcomedAsOwner'
    BY MaxIdAssumption DEF IInv, WelcomedAsOwner, TypeOK, SignedInOK, KeysOK, FormsOK, Holds
  <1> QED
    BY <1>1, <1>2, <1>3, <1>4, <1>5, <1>6, <1>7, <1>8, <1>9 DEF IInv

\* A row of users that waits for its profile is a login's under way.
LEMMA CreateUserIInv == ASSUME IInv, NEW r \in Requests, CreateUser(r) PROVE IInv'
  <1> USE DEF CreateUser, TakeId, Go, End, tables
  <1>1. TypeOK'
    BY MaxIdAssumption DEF IInv, TypeOK, FormsOK, HoldersOK, Holds, Phases, Registering, LoggingIn, Replies
  <1>2. IdsOK'
    BY MaxIdAssumption DEF IInv, IdsOK, TypeOK, HoldersOK, Holds, Owners
  <1>3. FormsOK'
    BY MaxIdAssumption DEF IInv, FormsOK, TypeOK, Holds, Phases, Registering, LoggingIn
  <1>4. HoldersOK'
    BY MaxIdAssumption DEF IInv, HoldersOK, TypeOK, IdsOK, Holds, Owners
  <1>5. KeysOK'
    BY MaxIdAssumption DEF IInv, KeysOK, TypeOK, FormsOK, Holds, SameKey, EmailTaken, NameTaken
  <1>6. SignedInOK'
    BY MaxIdAssumption DEF IInv, SignedInOK, TypeOK, Holds
  <1>7. OnlyGoogleLeavesRows'
    BY MaxIdAssumption DEF IInv, OnlyGoogleLeavesRows, TypeOK, HoldersOK, Holds, Owners
  <1>8. TakenIsTrue'
    BY MaxIdAssumption DEF IInv, TakenIsTrue, TypeOK, FormsOK, IdsOK, HoldersOK, Holds, EmailTaken, NameTaken
  <1>9. WelcomedAsOwner'
    BY MaxIdAssumption DEF IInv, WelcomedAsOwner, TypeOK, SignedInOK, KeysOK, FormsOK, Holds
  <1> QED
    BY <1>1, <1>2, <1>3, <1>4, <1>5, <1>6, <1>7, <1>8, <1>9 DEF IInv

\* A profile is linked to a user without an account.
LEMMA LinkIInv == ASSUME IInv, NEW r \in Requests, Link(r) PROVE IInv'
  <1> USE DEF Link, Linked, Abandon, Go, End, tables
  <1>a. /\ form[r] \in Profiles
        /\ own[r] \in 1..MaxId
        /\ own[r] \in users
        /\ [form |-> form[r], user |-> own[r]] \in [form: Profiles, user: 1..MaxId]
    BY DEF IInv, FormsOK, HoldersOK, Holds, LoggingIn
  <1>b. \/ Owners' = Owners \cup {own[r]} /\ abandoned' = abandoned
        \/ Owners' = Owners /\ abandoned' = abandoned \cup {own[r]}
    BY NewOwner DEF Owners
  <1>1. TypeOK'
    <2>1. profiles' \in SUBSET [form: Profiles, user: 1..MaxId]
      BY <1>a DEF IInv, TypeOK
    <2>2. users' \in SUBSET (1..MaxId) /\ abandoned' \in SUBSET users'
      BY <1>a, MaxIdAssumption DEF IInv, TypeOK
    <2>3. nextId' \in 1..(MaxId + 1) /\ own' \in [Requests -> 0..MaxId]
      BY <1>a, MaxIdAssumption DEF IInv, TypeOK
    <2>4. pc' \in [Requests -> Phases] /\ reply' \in [Requests -> Replies]
      BY DEF IInv, TypeOK, Phases, Replies
    <2> QED
      BY <2>1, <2>2, <2>3, <2>4 DEF IInv, TypeOK
  <1>2. IdsOK'
    BY <1>a, <1>b, MaxIdAssumption DEF IInv, IdsOK, TypeOK, HoldersOK, Holds
  <1>3. FormsOK'
    BY MaxIdAssumption DEF IInv, FormsOK, TypeOK, Holds, Phases, Registering, LoggingIn
  <1>4. HoldersOK'
    BY <1>a, <1>b, MaxIdAssumption DEF IInv, HoldersOK, TypeOK, IdsOK, Holds
  <1>5. KeysOK'
    BY MaxIdAssumption DEF IInv, KeysOK, TypeOK, FormsOK, Holds, SameKey, EmailTaken, NameTaken
  <1>6. SignedInOK'
    BY MaxIdAssumption DEF IInv, SignedInOK, TypeOK, Holds
  <1>7. OnlyGoogleLeavesRows'
    BY <1>a, <1>b, MaxIdAssumption DEF IInv, OnlyGoogleLeavesRows, TypeOK, HoldersOK, Holds
  <1>8. TakenIsTrue'
    BY MaxIdAssumption DEF IInv, TakenIsTrue, TypeOK, FormsOK, IdsOK, HoldersOK, Holds, EmailTaken, NameTaken
  <1>9. WelcomedAsOwner'
    BY MaxIdAssumption DEF IInv, WelcomedAsOwner, TypeOK, SignedInOK, KeysOK, FormsOK, Holds
  <1> QED
    BY <1>1, <1>2, <1>3, <1>4, <1>5, <1>6, <1>7, <1>8, <1>9 DEF IInv

\* A login that fails leaves at most an abandoned row.
LEMMA GoogleFailsIInv == ASSUME IInv, NEW r \in Requests, GoogleFails(r) PROVE IInv'
  <1> USE DEF GoogleFails, TakeId, Linked, Abandon, Go, End, tables
  <1>a. pc[r] = "linking" =>
           /\ form[r] \in Profiles
           /\ own[r] \in 1..MaxId
           /\ own[r] \in users
           /\ [form |-> form[r], user |-> own[r]] \in [form: Profiles, user: 1..MaxId]
    BY DEF IInv, FormsOK, HoldersOK, Holds, LoggingIn
  <1>b. \/ Owners' = Owners /\ abandoned' = abandoned /\ users' = users /\ pc[r] # "linking"
        \/ Owners' = Owners /\ abandoned' = abandoned \cup {nextId} /\ users' = users \cup {nextId}
              /\ pc[r] # "linking"
        \/ Owners' = Owners /\ abandoned' = abandoned \cup {own[r]} /\ users' = users
              /\ pc[r] = "linking"
        \/ Owners' = Owners \cup {own[r]} /\ abandoned' = abandoned /\ users' = users
              /\ pc[r] = "linking"
    BY NewOwner DEF Owners
  <1>c. \/ users' = users /\ nextId' = nextId
        \/ users' = users \cup {nextId} /\ nextId <= MaxId /\ nextId' = nextId + 1
    OBVIOUS
  <1>d. nextId \in 1..(MaxId + 1) /\ users \in SUBSET (1..MaxId) /\ abandoned \in SUBSET users
    BY DEF IInv, TypeOK
  <1>1. TypeOK'
    <2>1. profiles' \in SUBSET [form: Profiles, user: 1..MaxId]
      BY <1>a DEF IInv, TypeOK
    <2>2. users' \in SUBSET (1..MaxId) /\ abandoned' \in SUBSET users'
      <3>0. nextId <= MaxId => nextId \in 1..MaxId
        BY <1>d, MaxIdAssumption
      <3>1. users' \in SUBSET (1..MaxId)
        BY <1>c, <1>d, <3>0
      <3>2. abandoned' \in SUBSET users'
        BY <1>a, <1>b, <1>d
      <3> QED
        BY <3>1, <3>2
    <2>3. nextId' \in 1..(MaxId + 1) /\ own' \in [Requests -> 0..MaxId]
      BY <1>a, MaxIdAssumption DEF IInv, TypeOK
    <2>4. pc' \in [Requests -> Phases] /\ reply' \in [Requests -> Replies]
      BY DEF IInv, TypeOK, Phases, Replies
    <2> QED
      BY <2>1, <2>2, <2>3, <2>4 DEF IInv, TypeOK
  <1>2. IdsOK'
    <2>1. nextId \in Nat /\ nextId' \in Nat /\ nextId <= nextId'
      BY <1>1 DEF IInv, TypeOK
    <2>2. \A u \in users' : u < nextId'
      <3>1. \A u \in users : u < nextId /\ u \in Nat
        BY <1>d DEF IInv, IdsOK
      <3> QED
        BY <1>c, <2>1, <3>1
    <2>3. \A q \in Requests : own'[q] < nextId'
      BY <2>1, MaxIdAssumption DEF IInv, IdsOK, TypeOK
    <2>4. Owners' \subseteq users'
      BY <1>a, <1>b DEF IInv, IdsOK
    <2> QED
      BY <2>2, <2>3, <2>4 DEF IdsOK
  <1>3. FormsOK'
    BY MaxIdAssumption DEF IInv, FormsOK, TypeOK, Holds, Phases, Registering, LoggingIn
  <1>4. HoldersOK'
    BY <1>a, <1>b, MaxIdAssumption DEF IInv, HoldersOK, TypeOK, IdsOK, Holds
  <1>5. KeysOK'
    BY MaxIdAssumption DEF IInv, KeysOK, TypeOK, FormsOK, Holds, SameKey, EmailTaken, NameTaken
  <1>6. SignedInOK'
    BY MaxIdAssumption DEF IInv, SignedInOK, TypeOK, Holds
  <1>7. OnlyGoogleLeavesRows'
    BY <1>a, <1>b, MaxIdAssumption DEF IInv, OnlyGoogleLeavesRows, TypeOK, HoldersOK, Holds
  <1>8. TakenIsTrue'
    BY MaxIdAssumption DEF IInv, TakenIsTrue, TypeOK, FormsOK, IdsOK, HoldersOK, Holds, EmailTaken, NameTaken
  <1>9. WelcomedAsOwner'
    BY MaxIdAssumption DEF IInv, WelcomedAsOwner, TypeOK, SignedInOK, KeysOK, FormsOK, Holds
  <1> QED
    BY <1>1, <1>2, <1>3, <1>4, <1>5, <1>6, <1>7, <1>8, <1>9 DEF IInv

\* An answered request leaves nothing behind.
LEMMA FinishIInv == ASSUME IInv, NEW r \in Requests, Finish(r) PROVE IInv'
  <1> USE DEF Finish, Go, End, tables
  <1>1. TypeOK'
    BY MaxIdAssumption DEF IInv, TypeOK, FormsOK, HoldersOK, Holds, Phases, Registering, LoggingIn, Replies
  <1>2. IdsOK'
    BY MaxIdAssumption DEF IInv, IdsOK, TypeOK, HoldersOK, Holds, Owners
  <1>3. FormsOK'
    BY MaxIdAssumption DEF IInv, FormsOK, TypeOK, Holds, Phases, Registering, LoggingIn
  <1>4. HoldersOK'
    BY MaxIdAssumption DEF IInv, HoldersOK, TypeOK, IdsOK, Holds, Owners
  <1>5. KeysOK'
    BY MaxIdAssumption DEF IInv, KeysOK, TypeOK, FormsOK, Holds, SameKey, EmailTaken, NameTaken
  <1>6. SignedInOK'
    BY MaxIdAssumption DEF IInv, SignedInOK, TypeOK, Holds
  <1>7. OnlyGoogleLeavesRows'
    BY MaxIdAssumption DEF IInv, OnlyGoogleLeavesRows, TypeOK, HoldersOK, Holds, Owners
  <1>8. TakenIsTrue'
    BY MaxIdAssumption DEF IInv, TakenIsTrue, TypeOK, FormsOK, IdsOK, HoldersOK, Holds, EmailTaken, NameTaken
  <1>9. WelcomedAsOwner'
    BY MaxIdAssumption DEF IInv, WelcomedAsOwner, TypeOK, SignedInOK, KeysOK, FormsOK, Holds
  <1> QED
    BY <1>1, <1>2, <1>3, <1>4, <1>5, <1>6, <1>7, <1>8, <1>9 DEF IInv

-----------------------------------------------------------------------------
\* A request that starts has inserted nothing.
LEMMA StartIInv ==
    ASSUME IInv, NEW r \in Requests, NEW f, NEW phase, Start(r, f, phase),
           \/ f \in Registrations /\ phase = "starting"
           \/ f \in Profiles /\ phase = "seeking"
    PROVE  IInv'
  <1> USE DEF Start, Go, tables
  <1>1. TypeOK'
    BY DEF IInv, TypeOK, FormsOK, Holds, Phases, Registering, LoggingIn, Replies
  <1>2. IdsOK'
    BY DEF IInv, IdsOK, TypeOK, FormsOK, Holds, Owners
  <1>3. FormsOK'
    BY DEF IInv, FormsOK, TypeOK, Holds, Phases, Registering, LoggingIn
  <1>4. HoldersOK'
    BY DEF IInv, HoldersOK, TypeOK, FormsOK, Holds, Owners
  <1>5. KeysOK'
    BY DEF IInv, KeysOK, TypeOK, FormsOK, Holds, SameKey, EmailTaken, NameTaken
  <1>6. SignedInOK'
    BY DEF IInv, SignedInOK, TypeOK, FormsOK, Holds
  <1>7. OnlyGoogleLeavesRows'
    BY DEF IInv, OnlyGoogleLeavesRows, TypeOK, FormsOK, Holds, Owners
  <1>8. TakenIsTrue'
    BY DEF IInv, TakenIsTrue, TypeOK, FormsOK, Holds, EmailTaken, NameTaken
  <1>9. WelcomedAsOwner'
    BY DEF IInv, WelcomedAsOwner, TypeOK, FormsOK, Holds
  <1> QED
    BY <1>1, <1>2, <1>3, <1>4, <1>5, <1>6, <1>7, <1>8, <1>9 DEF IInv

\* A restart forgets the requests and their transactions; the rows of Google
\* logins stay behind.
LEMMA CrashIInv == ASSUME IInv, Crash PROVE IInv'
  <1> USE DEF Crash
  <1>0. \A r \in Requests : pc[r] = "linking" => own[r] \in users
    BY DEF IInv, HoldersOK, Holds
  <1>1. TypeOK'
    <2>1. abandoned' \in SUBSET users'
      <3> DEFINE Cut == {own[r] : r \in {q \in Requests : pc[q] = "linking"}}
      <3>1. Cut \subseteq users
        BY <1>0
      <3>2. abandoned' = abandoned \cup Cut /\ users' = users
        OBVIOUS
      <3> QED
        BY <3>1, <3>2 DEF IInv, TypeOK
    <2>2. own' \in [Requests -> 0..MaxId]
      BY MaxIdAssumption
    <2>3. /\ pc' \in [Requests -> Phases]
          /\ reply' \in [Requests -> Replies]
          /\ form' \in [Requests -> Registrations \cup Profiles \cup {NoForm}]
      BY DEF Phases, Replies
    <2> QED
      BY <2>1, <2>2, <2>3 DEF IInv, TypeOK
  <1>2. IdsOK'
    BY DEF IInv, IdsOK, TypeOK, Owners
  <1>3. OnlyGoogleLeavesRows'
    BY DEF IInv, OnlyGoogleLeavesRows, TypeOK, Owners
  <1>4. FormsOK' /\ HoldersOK' /\ KeysOK' /\ SignedInOK' /\ TakenIsTrue' /\ WelcomedAsOwner'
    BY DEF IInv, FormsOK, HoldersOK, Holds, KeysOK, SignedInOK, TakenIsTrue, WelcomedAsOwner,
       Registering, LoggingIn
  <1> QED
    BY <1>1, <1>2, <1>3, <1>4 DEF IInv

\* Every step keeps the invariant.
LEMMA NextIInv == IInv /\ [Next]_accountVars => IInv'
  <1> SUFFICES ASSUME IInv, [Next]_accountVars PROVE IInv'
    OBVIOUS
  <1>1. ASSUME NEW r \in Requests, Register(r) \/ GoogleReturn(r) PROVE IInv'
    BY <1>1, StartIInv DEF Register, GoogleReturn
  <1>2. ASSUME NEW r \in Requests, RegisterSteps(r) PROVE IInv'
    BY <1>2, InsertUserIInv, InsertPasswordIInv, StatementFailsIInv, ConnectionLostIInv,
       RollbackIInv, RollbackFailsIInv, CommitIInv, CommitFailsIInv, FindUserIInv, FindFailsIInv
    DEF RegisterSteps
  <1>3. ASSUME NEW r \in Requests, GoogleSteps(r) PROVE IInv'
    BY <1>3, SeekIInv, CreateUserIInv, LinkIInv, GoogleFailsIInv DEF GoogleSteps
  <1>4. CASE UNCHANGED accountVars
    BY <1>4 DEF accountVars, IInv, TypeOK, IdsOK, FormsOK, HoldersOK, Holds, KeysOK, SignedInOK,
       OnlyGoogleLeavesRows, TakenIsTrue, WelcomedAsOwner, Owners, EmailTaken, NameTaken
  <1> QED
    BY <1>1, <1>2, <1>3, <1>4, FinishIInv, CrashIInv DEF Next

-----------------------------------------------------------------------------
\* The strengthened invariant holds in every reachable state.
THEOREM AccountsInvariant == Spec => []IInv
  BY InitIInv, NextIInv, PTL DEF Spec

\* A row of users without an account comes from a Google login, never from a
\* registration.
THEOREM AccountsRowsHaveOwners == Spec => []OnlyGoogleLeavesRows
  BY AccountsInvariant, PTL DEF IInv

\* A refused registration was refused rightly and has left nothing.
THEOREM AccountsTakenIsTrue == Spec => []TakenIsTrue
  BY AccountsInvariant, PTL DEF IInv

\* Nobody is logged in as somebody else, however two logins interleave.
THEOREM AccountsWelcomedAsOwner == Spec => []WelcomedAsOwner
  BY AccountsInvariant, PTL DEF IInv

-----------------------------------------------------------------------------
\* A form has keys: an address and a username, or a profile.
LEMMA FormKeys ==
    /\ \A f \in Registrations : f[1] \in Emails /\ f[2] \in Names
    /\ \A p \in Profiles : p \notin Emails \cup Names
  BY FormsAssumption DEF Registrations

\* A committed registration opens an account in the store.
LEMMA StoreOpens ==
    ASSUME IInv, NEW r \in Requests, pc[r] = "registered", Store(r), UNCHANGED profiles
    PROVE  Promise!Next
  <1> DEFINE a == [user |-> own[r], keys |-> {form[r][1], form[r][2]}]
             row == [form |-> form[r], user |-> own[r]]
  <1>1. form[r] \in Registrations /\ own[r] \in 1..MaxId /\ own[r] \notin Owners
    BY DEF IInv, FormsOK, HoldersOK, Holds, Registering
  <1>2. a \in [user: 1..MaxId, keys: {{f[1], f[2]} : f \in Registrations} \cup {{p} : p \in Profiles}]
    BY <1>1
  <1>3. accounts' = accounts \cup {a}
    <2>1. passwords' = passwords \cup {row} /\ profiles' = profiles
      BY DEF Store
    <2>2. [user |-> row.user, keys |-> {row.form[1], row.form[2]}] = a
      OBVIOUS
    <2> HIDE DEF row, a
    <2> QED
      BY <2>1, <2>2 DEF accounts
  <1>4. ASSUME NEW b \in accounts PROVE b.user # a.user /\ b.keys \cap a.keys = {}
    <2>1. CASE \E x \in passwords : b = [user |-> x.user, keys |-> {x.form[1], x.form[2]}]
      <3>1. PICK x \in passwords : b = [user |-> x.user, keys |-> {x.form[1], x.form[2]}]
        BY <2>1
      <3>2. x.user \in Owners /\ x.form \in Registrations
        BY DEF Owners, IInv, TypeOK
      <3>3. x.form[1] # form[r][1] /\ x.form[2] # form[r][2]
        BY DEF IInv, KeysOK, EmailTaken, NameTaken
      <3> QED
        BY <1>1, <3>1, <3>2, <3>3, FormKeys, FormsAssumption
    <2>2. CASE \E x \in profiles : b = [user |-> x.user, keys |-> {x.form}]
      <3>1. PICK x \in profiles : b = [user |-> x.user, keys |-> {x.form}]
        BY <2>2
      <3>2. x.user \in Owners /\ x.form \in Profiles
        BY DEF Owners, IInv, TypeOK
      <3> QED
        BY <1>1, <3>1, <3>2, FormKeys
    <2> QED
      BY <2>1, <2>2 DEF accounts
  <1> HIDE DEF a
  <1> QED
    BY <1>2, <1>3, <1>4 DEF Promise!Next, Promise!Open

\* A linked profile opens an account in the store.
LEMMA LinkOpens ==
    ASSUME IInv, NEW r \in Requests, pc[r] = "linking", Linked(r) = {},
           profiles' = profiles \cup {[form |-> form[r], user |-> own[r]]}, UNCHANGED passwords
    PROVE  Promise!Next
  <1> DEFINE a == [user |-> own[r], keys |-> {form[r]}]
             row == [form |-> form[r], user |-> own[r]]
  <1>1. form[r] \in Profiles /\ own[r] \in 1..MaxId /\ own[r] \notin Owners
    BY DEF IInv, FormsOK, HoldersOK, Holds, LoggingIn
  <1>2. a \in [user: 1..MaxId, keys: {{f[1], f[2]} : f \in Registrations} \cup {{p} : p \in Profiles}]
    BY <1>1
  <1>3. accounts' = accounts \cup {a}
    <2>1. profiles' = profiles \cup {row} /\ passwords' = passwords
      OBVIOUS
    <2>2. [user |-> row.user, keys |-> {row.form}] = a
      OBVIOUS
    <2> HIDE DEF row, a
    <2> QED
      BY <2>1, <2>2 DEF accounts
  <1>4. ASSUME NEW b \in accounts PROVE b.user # a.user /\ b.keys \cap a.keys = {}
    <2>1. CASE \E x \in passwords : b = [user |-> x.user, keys |-> {x.form[1], x.form[2]}]
      <3>1. PICK x \in passwords : b = [user |-> x.user, keys |-> {x.form[1], x.form[2]}]
        BY <2>1
      <3>2. x.user \in Owners /\ x.form \in Registrations
        BY DEF Owners, IInv, TypeOK
      <3> QED
        BY <1>1, <3>1, <3>2, FormKeys
    <2>2. CASE \E x \in profiles : b = [user |-> x.user, keys |-> {x.form}]
      <3>1. PICK x \in profiles : b = [user |-> x.user, keys |-> {x.form}]
        BY <2>2
      <3>2. x.user \in Owners /\ x.form # form[r]
        BY DEF Owners, Linked
      <3> QED
        BY <1>1, <3>1, <3>2
    <2> QED
      BY <2>1, <2>2 DEF accounts
  <1> HIDE DEF a
  <1> QED
    BY <1>2, <1>3, <1>4 DEF Promise!Next, Promise!Open

\* Every step of the requests opens an account whole or changes none.
LEMMA StepOpens == IInv /\ [Next]_accountVars => [Promise!Next]_accounts
  <1> SUFFICES ASSUME IInv, [Next]_accountVars PROVE Promise!Next \/ UNCHANGED accounts
    OBVIOUS
  <1>1. UNCHANGED <<passwords, profiles>> => UNCHANGED accounts
    BY DEF accounts
  <1>2. ASSUME NEW r \in Requests, Commit(r) \/ CommitFails(r)
        PROVE  Promise!Next \/ UNCHANGED accounts
    BY <1>1, <1>2, StoreOpens DEF Commit, CommitFails
  <1>3. ASSUME NEW r \in Requests, Link(r) \/ GoogleFails(r)
        PROVE  Promise!Next \/ UNCHANGED accounts
    BY <1>1, <1>3, LinkOpens DEF Link, GoogleFails, tables
  <1>4. ASSUME NEW r \in Requests, Register(r) \/ GoogleReturn(r) \/ Finish(r)
        PROVE  UNCHANGED <<passwords, profiles>>
    BY <1>4 DEF Register, GoogleReturn, Start, Finish, tables
  <1>5. ASSUME NEW r \in Requests,
               \/ InsertUser(r) \/ InsertPassword(r) \/ StatementFails(r) \/ ConnectionLost(r)
               \/ Rollback(r) \/ RollbackFails(r) \/ FindUser(r) \/ FindFails(r)
               \/ Seek(r) \/ CreateUser(r)
        PROVE  UNCHANGED <<passwords, profiles>>
    BY <1>5 DEF InsertUser, InsertPassword, StatementFails, ConnectionLost, Rollback,
       RollbackFails, FindUser, FindFails, Seek, CreateUser, tables
  <1>6. Crash \/ UNCHANGED accountVars => UNCHANGED <<passwords, profiles>>
    BY DEF Crash, accountVars
  <1> QED
    BY <1>1, <1>2, <1>3, <1>4, <1>5, <1>6 DEF Next, RegisterSteps, GoogleSteps

\* Accounts implements AccountStore: registrations and Google logins, however
\* they interleave and fail, open whole accounts with unused users and keys.
THEOREM AccountsOpenWhole == Spec => OpensWholeAccounts
  <1>1. Init => Promise!Init
    BY DEF Init, Promise!Init, accounts
  <1> QED
    BY <1>1, StepOpens, AccountsInvariant, PTL DEF Spec, OpensWholeAccounts, Promise!Spec

\* So a key leads to one account, and an account to one user, at any time.
THEOREM AccountsKeysIdentify == Spec => []Promise!KeysIdentify
  <1>1. Promise!Init => Promise!KeysIdentify
    BY DEF Promise!Init, Promise!KeysIdentify
  <1>2. Promise!KeysIdentify /\ [Promise!Next]_accounts => Promise!KeysIdentify'
    <2>1. ASSUME Promise!KeysIdentify, accounts' = accounts
          PROVE  Promise!KeysIdentify'
      BY <2>1 DEF Promise!KeysIdentify
    <2>2. ASSUME Promise!KeysIdentify, NEW a, Promise!Open(a)
          PROVE  Promise!KeysIdentify'
      BY <2>2 DEF Promise!KeysIdentify, Promise!Open
    <2> QED
      BY <2>1, <2>2 DEF Promise!Next
  <1> QED
    BY <1>1, <1>2, AccountsOpenWhole, PTL DEF OpensWholeAccounts, Promise!Spec

-----------------------------------------------------------------------------
(* The sessions. *)

\* Every request has its copy.
CopiesOK == sent = [r \in Requests |-> sent[r]]

\* And what the sessions add to it.
AuthIInv ==
    /\ IInv
    /\ CopiesOK
    /\ SessionHasAccount
    /\ CookieIsSession

\* Other requests and answers leave the account tables and requests alone.
LEMMA StepSimulates == [AuthNext]_vars => [Next]_accountVars
  <1> SUFFICES ASSUME [AuthNext]_vars PROVE [Next]_accountVars
    OBVIOUS
  <1>1. ASSUME NEW r \in Requests, AccountSteps(r) \/ AccountAnswer(r) \/ SendsAccount(r)
        PROVE  Next
    BY <1>1 DEF AccountSteps, AccountAnswer, SendsAccount, Next
  <1>2. ASSUME NEW r \in Requests, SendsOther(r) \/ OtherAnswer(r)
        PROVE  UNCHANGED accountVars
    BY <1>2 DEF SendsOther, OtherAnswer
  <1>3. Restart => Next
    BY DEF Restart, Next
  <1>4. UNCHANGED vars => UNCHANGED accountVars
    BY DEF vars
  <1> QED
    BY <1>1, <1>2, <1>3, <1>4 DEF AuthNext

\* Auth implements Accounts, and with it the store of accounts.
THEOREM AuthImplementsAccounts == AuthSpec => Spec
  <1>1. AuthInit => Init
    BY DEF AuthInit
  <1> QED
    BY <1>1, StepSimulates, PTL DEF AuthSpec, Spec

\* No step of a request takes an account away.
LEMMA OwnersStay == IInv /\ [Next]_accountVars => Owners \subseteq Owners'
  <1> SUFFICES ASSUME IInv, [Next]_accountVars PROVE passwords \subseteq passwords' /\ profiles \subseteq profiles'
    BY DEF Owners
  <1>1. ASSUME NEW r \in Requests, RegisterSteps(r)
        PROVE  passwords \subseteq passwords' /\ profiles \subseteq profiles'
    BY <1>1 DEF RegisterSteps, InsertUser, InsertPassword, StatementFails, ConnectionLost,
       Rollback, RollbackFails, Commit, CommitFails, Store, FindUser, FindFails, tables
  <1>2. ASSUME NEW r \in Requests, GoogleSteps(r)
        PROVE  passwords \subseteq passwords' /\ profiles \subseteq profiles'
    BY <1>2 DEF GoogleSteps, Seek, CreateUser, Link, GoogleFails, tables
  <1>3. ASSUME NEW r \in Requests, Register(r) \/ GoogleReturn(r) \/ Finish(r)
        PROVE  UNCHANGED <<passwords, profiles>>
    BY <1>3 DEF Register, GoogleReturn, Start, Finish, tables
  <1>4. Crash \/ UNCHANGED accountVars => UNCHANGED <<passwords, profiles>>
    BY DEF Crash, accountVars
  <1> QED
    BY <1>1, <1>2, <1>3, <1>4 DEF Next

-----------------------------------------------------------------------------
\* An answer leaves the user of some copy, or the one its handler sets.
LEMMA AnswerUser ==
    ASSUME AuthIInv, NEW r \in Requests, NEW op, NEW shows \in BOOLEAN, Answer(r, op, shows),
           op.user = Same \/ op.user = 0 \/ op.user \in Owners,
           Owners \subseteq Owners'
    PROVE  CopiesOK' /\ SessionHasAccount'
  <1>1. /\ cookie' = After(sent[r], op) \/ cookie' = cookie
        /\ sent' = [sent EXCEPT ![r] = NoSession]
    BY DEF Answer
  <1>2. After(sent[r], op).user = sent[r].user \/ After(sent[r], op).user = op.user
    BY DEF After
  <1>3. After(sent[r], op).user = 0 \/ After(sent[r], op).user \in Owners
    <2>1. CASE op.user = Same
      <3>1. After(sent[r], op).user = sent[r].user
        BY <2>1 DEF After
      <3> QED
        BY <3>1 DEF AuthIInv, SessionHasAccount
    <2>2. CASE op.user # Same
      <3>1. After(sent[r], op).user = op.user
        BY <2>2 DEF After
      <3> QED
        BY <2>2, <3>1
    <2> QED
      BY <2>1, <2>2
  <1>4. cookie'.user = 0 \/ cookie'.user \in Owners'
    BY <1>1, <1>3 DEF AuthIInv, SessionHasAccount
  <1>5. ASSUME NEW q \in Requests PROVE sent'[q].user = 0 \/ sent'[q].user \in Owners'
    BY <1>1 DEF AuthIInv, CopiesOK, SessionHasAccount, NoSession
  <1>6. CopiesOK'
    BY <1>1 DEF AuthIInv, CopiesOK
  <1> QED
    BY <1>4, <1>5, <1>6 DEF SessionHasAccount

\* An answer with the newest copy does to the cookie what it would have done
\* to the server's session.
LEMMA AnswerCookie ==
    ASSUME CookieIsSession, NEW r \in Requests, NEW op, NEW shows \in BOOLEAN, Answer(r, op, shows)
    PROVE  CookieIsSession'
  <1> DEFINE new == After(sent[r], op)
  <1>1. cookie' = IF new # sent[r] THEN new ELSE cookie
    BY DEF Answer, Writes
  <1>2. ideal' = IF new = sent[r] THEN ideal ELSE After(ideal, op)
    BY DEF Answer
  <1>3. stale' = IF cookie' = ideal' THEN FALSE ELSE stale \/ (new # sent[r] /\ sent[r] # cookie)
    BY DEF Answer
  <1>4. CASE cookie' = ideal'
    BY <1>4 DEF CookieIsSession
  <1>5. CASE cookie' # ideal' /\ new = sent[r]
    BY <1>1, <1>2, <1>3, <1>5 DEF CookieIsSession
  <1>6. CASE cookie' # ideal' /\ new # sent[r]
    <2>1. stale \/ sent[r] # cookie
      BY <1>1, <1>2, <1>6 DEF CookieIsSession
    <2> QED
      BY <1>3, <1>6, <2>1 DEF CookieIsSession
  <1> QED
    BY <1>4, <1>5, <1>6

\* What a handler does logs nobody in, or the owner of an account.
Harmless(op) ==
    /\ op.user = Same \/ op.user = 0 \/ op.user \in Owners
    /\ op.referer \in Places \cup {Same}
    /\ op.consumes \in BOOLEAN /\ op.queues \in BOOLEAN

\* An answer of such a handler.
HarmlessAnswer(r) == \E op : \E shows \in BOOLEAN : Answer(r, op, shows) /\ Harmless(op)

\* A redirect of such a handler is such an answer,
LEMMA RedirectHarmless ==
    ASSUME NEW r, NEW op, Redirects(r, op), Harmless(op) PROVE HarmlessAnswer(r)
  BY DEF Redirects, HarmlessAnswer

\* and so is a page.
LEMMA RenderHarmless ==
    ASSUME NEW r, NEW op, Renders(r, op), Harmless([op EXCEPT !.consumes = TRUE])
    PROVE  HarmlessAnswer(r)
  BY DEF Renders, HarmlessAnswer

\* All but the logins leave the user alone or log out.
LEMMA NothingHarmless ==
    /\ Harmless(Nothing)
    /\ Harmless([Nothing EXCEPT !.consumes = TRUE])
    /\ Harmless(Queue(Nothing))
    /\ Harmless(Queue([Nothing EXCEPT !.referer = Home]))
    /\ Harmless([Nothing EXCEPT !.user = 0])
    /\ \A op \in From : Harmless(op) /\ Harmless([op EXCEPT !.consumes = TRUE])
    /\ \A u \in Owners : Harmless([Nothing EXCEPT !.user = u])
  <1> USE DEF Harmless, Nothing
  <1>1. Harmless(Nothing)
    OBVIOUS
  <1>2. Harmless([Nothing EXCEPT !.consumes = TRUE])
    OBVIOUS
  <1>3. Harmless(Queue(Nothing))
    BY DEF Queue
  <1>4. Harmless(Queue([Nothing EXCEPT !.referer = Home]))
    BY AuthAssumption DEF Queue
  <1>5. Harmless([Nothing EXCEPT !.user = 0])
    OBVIOUS
  <1>6. ASSUME NEW op \in From PROVE Harmless(op) /\ Harmless([op EXCEPT !.consumes = TRUE])
    <2>1. CASE op = Nothing
      BY <1>1, <1>2, <2>1
    <2>2. ASSUME NEW p \in Places, op = [Nothing EXCEPT !.referer = p]
          PROVE  Harmless(op) /\ Harmless([op EXCEPT !.consumes = TRUE])
      BY <2>2
    <2> QED
      BY <2>1, <2>2 DEF From
  <1>7. \A u \in Owners : Harmless([Nothing EXCEPT !.user = u])
    OBVIOUS
  <1> QED
    BY <1>1, <1>2, <1>3, <1>4, <1>5, <1>6, <1>7

\* The error page changes nobody's login.
LEMMA ErrorHarmless == ASSUME NEW r, RendersError(r) PROVE HarmlessAnswer(r)
  BY RenderHarmless, NothingHarmless DEF RendersError

\* A login of an owner is harmless.
LEMMA LoginHarmless == ASSUME NEW r, NEW u \in Owners, LogsIn(r, u) PROVE HarmlessAnswer(r)
  BY RedirectHarmless, NothingHarmless DEF LogsIn

\* Every handler is such an answer.
LEMMA HandlerAnswers ==
    ASSUME AuthIInv, NEW r \in Requests, OtherAnswer(r) \/ AccountAnswer(r)
    PROVE  HarmlessAnswer(r)
  <1>1. CASE Page(r) \/ HomePage(r) \/ Call(r) \/ Post(r) \/ Logout(r)
    BY <1>1, RedirectHarmless, RenderHarmless, ErrorHarmless, NothingHarmless
    DEF Page, HomePage, Call, Post, Logout
  <1>2. CASE LoginPage(r)
    BY <1>2, RenderHarmless, NothingHarmless DEF LoginPage
  <1>3. CASE ToGoogle(r)
    BY <1>3, RedirectHarmless, NothingHarmless DEF ToGoogle
  <1>4. CASE LocalLogin(r)
    <2>1. \A row \in passwords : row.user \in Owners
      BY DEF Owners
    <2> QED
      BY <1>4, <2>1, LoginHarmless, RedirectHarmless, NothingHarmless, ErrorHarmless DEF LocalLogin
  <1>5. CASE AccountAnswer(r)
    <2>1. reply[r] = "welcome" => own[r] \in Owners
      <3>1. \A x \in passwords \cup profiles : x.user \in Owners
        BY DEF Owners
      <3>2. [form |-> form[r], user |-> own[r]].user = own[r]
        OBVIOUS
      <3> QED
        BY <3>1, <3>2 DEF AuthIInv, IInv, WelcomedAsOwner
    <2>2. CASE reply[r] = "welcome"
      <3>1. LogsIn(r, own[r])
        BY <1>5, <2>2, Zenon DEF AccountAnswer
      <3> QED
        BY <2>1, <2>2, <3>1, LoginHarmless, Zenon
    <2>3. CASE reply[r] # "welcome"
      <3>1. RendersError(r)
        BY <1>5, <2>3, Zenon DEF AccountAnswer
      <3> QED
        BY <3>1, ErrorHarmless, Zenon
    <2> QED
      BY <2>2, <2>3
  <1> QED
    BY <1>1, <1>2, <1>3, <1>4, <1>5 DEF OtherAnswer

-----------------------------------------------------------------------------
\* There are no sessions, or copies of them, at first.
LEMMA AuthInitIInv == AuthInit => AuthIInv
  <1> SUFFICES ASSUME AuthInit PROVE AuthIInv
    OBVIOUS
  <1>1. NoSession.user = 0
    BY DEF NoSession
  <1>2. CopiesOK
    BY DEF AuthInit, CopiesOK
  <1>3. SessionHasAccount
    BY <1>1 DEF AuthInit, SessionHasAccount
  <1> QED
    BY <1>2, <1>3, InitIInv DEF AuthInit, AuthIInv, CookieIsSession

\* Every step of the browser and the server keeps the invariant.
LEMMA AuthNextIInv == AuthIInv /\ [AuthNext]_vars => AuthIInv'
  <1> SUFFICES ASSUME AuthIInv, [AuthNext]_vars PROVE AuthIInv'
    OBVIOUS
  <1>1. IInv' /\ Owners \subseteq Owners'
    BY StepSimulates, NextIInv, OwnersStay DEF AuthIInv
  <1>2. ASSUME NEW r \in Requests, OtherAnswer(r) \/ AccountAnswer(r)
        PROVE  CopiesOK' /\ SessionHasAccount' /\ CookieIsSession'
    <2>1. HarmlessAnswer(r)
      BY <1>2, HandlerAnswers
    <2>2. PICK op : \E shows \in BOOLEAN : Answer(r, op, shows) /\ Harmless(op)
      BY <2>1, Zenon DEF HarmlessAnswer
    <2>3. PICK shows \in BOOLEAN : Answer(r, op, shows) /\ Harmless(op)
      BY <2>2
    <2> QED
      BY <1>1, <2>3, AnswerUser, AnswerCookie DEF AuthIInv, Harmless
  <1>3. ASSUME NEW r \in Requests, NEW v, Send(r, v)
        PROVE  CopiesOK' /\ SessionHasAccount' /\ CookieIsSession'
    BY <1>1, <1>3 DEF Send, CopiesOK, AuthIInv, SessionHasAccount, CookieIsSession
  <1>4. ASSUME UNCHANGED sessionVars PROVE CopiesOK' /\ SessionHasAccount' /\ CookieIsSession'
    BY <1>1, <1>4 DEF sessionVars, CopiesOK, AuthIInv, SessionHasAccount, CookieIsSession
  <1>5. ASSUME Restart PROVE CopiesOK' /\ SessionHasAccount' /\ CookieIsSession'
    <2>1. NoSession.user = 0
      BY DEF NoSession
    <2>2. CopiesOK'
      BY <1>5 DEF Restart, CopiesOK
    <2>3. SessionHasAccount'
      BY <1>1, <1>5, <2>1 DEF Restart, AuthIInv, SessionHasAccount
    <2> QED
      BY <1>5, <2>2, <2>3 DEF Restart, AuthIInv, CookieIsSession
  <1> QED
    BY <1>1, <1>2, <1>3, <1>4, <1>5
    DEF AuthNext, SendsOther, SendsAccount, AccountSteps, vars, AuthIInv

\* The invariant of the sessions holds in every reachable state.
LEMMA AuthInvariant == AuthSpec => []AuthIInv
  BY AuthInitIInv, AuthNextIInv, PTL DEF AuthSpec

\* Whoever a cookie, or a copy of it under way, says is logged in has an account.
THEOREM AuthSessionHasAccount == AuthSpec => []SessionHasAccount
  BY AuthInvariant, PTL DEF AuthIInv

\* Without an answer to an older copy, the cookie is the session a server would
\* have kept.
THEOREM AuthCookieIsSession == AuthSpec => []CookieIsSession
  BY AuthInvariant, PTL DEF AuthIInv

-----------------------------------------------------------------------------
\* What an answer puts into a cookie is a session.
LEMMA AfterTyped ==
    ASSUME IInv, queued \in 0..MaxMessages, NEW s \in Sessions, NEW op, Harmless(op),
           op.queues => queued < MaxMessages
    PROVE  After(s, op) \in Sessions
  <1> DEFINE user == IF op.user = Same THEN s.user ELSE op.user
             referer == IF op.referer = Same THEN s.referer ELSE op.referer
             flash == (IF op.consumes THEN {} ELSE s.flash) \cup (IF op.queues THEN {queued + 1} ELSE {})
             keys == IF op.consumes \/ op.queues \/ s.keys = 2 THEN 2 ELSE 1
  <1>0. s.user \in 0..MaxId /\ s.referer \in Places \cup {""} /\ s.flash \in SUBSET (1..MaxMessages)
    BY DEF Sessions
  <1>1. user \in 0..MaxId
    <2>1. Owners \subseteq 0..MaxId
      BY DEF IInv, IdsOK, TypeOK
    <2>2. op.user = Same \/ op.user = 0 \/ op.user \in Owners
      BY DEF Harmless
    <2>3. CASE op.user = Same
      BY <1>0, <2>3
    <2>4. CASE op.user # Same
      <3>0. 0 \in 0..MaxId
        BY MaxIdAssumption
      <3>1. op.user \in 0..MaxId
        BY <2>1, <2>2, <2>4, <3>0, Zenon
      <3> QED
        BY <2>4, <3>1
    <2> QED
      BY <2>3, <2>4
  <1>2. referer \in Places \cup {""}
    BY <1>0 DEF Harmless
  <1>3. flash \in SUBSET (1..MaxMessages)
    <2>1. op.queues => queued + 1 \in 1..MaxMessages
      BY AuthAssumption
    <2> QED
      BY <1>0, <2>1
  <1>4. keys \in 0..2
    OBVIOUS
  <1>5. After(s, op) = [user |-> user, referer |-> referer, flash |-> flash, keys |-> keys]
    BY DEF After
  <1>6. \A u \in 0..MaxId, p \in Places \cup {""}, f \in SUBSET (1..MaxMessages), k \in 0..2 :
           [user |-> u, referer |-> p, flash |-> f, keys |-> k] \in Sessions
    BY DEF Sessions
  <1> HIDE DEF user, referer, flash, keys
  <1> QED
    BY <1>1, <1>2, <1>3, <1>4, <1>5, <1>6

\* There is a session for nobody.
LEMMA NoSessionTyped == NoSession \in Sessions
  BY MaxIdAssumption DEF NoSession, Sessions

\* Who answers was asked.
LEMMA AnswersUnderWay ==
    ASSUME AuthTypeOK, NEW r \in Requests, OtherAnswer(r) \/ AccountAnswer(r)
    PROVE  /\ visit[r] # "none"
           /\ pc' = [pc EXCEPT ![r] = "idle"]
  <1>1. CASE OtherAnswer(r)
    <2>1. visit[r] = "other"
      BY <1>1 DEF OtherAnswer, Page, LoginPage, ToGoogle, HomePage, Logout, LocalLogin, Post, Call
    <2>2. pc[r] = "idle" /\ pc' = pc
      BY <1>1, <2>1 DEF OtherAnswer, accountVars, AuthTypeOK
    <2> QED
      BY <2>1, <2>2 DEF AuthTypeOK, TypeOK
  <1>2. CASE AccountAnswer(r)
    BY <1>2 DEF AccountAnswer, Finish, Go, AuthTypeOK
  <1> QED
    BY <1>1, <1>2

\* A request to the data layer stays under way until it is answered.
LEMMA AccountStepsGoOn ==
    ASSUME TypeOK, NEW r \in Requests, RegisterSteps(r) \/ GoogleSteps(r)
    PROVE  /\ pc[r] # "idle"
           /\ \E phase \in Phases \ {"idle"} : pc' = [pc EXCEPT ![r] = phase]
  <1> USE DEF Go, End, Phases, Registering, LoggingIn
  <1>1. CASE RegisterSteps(r)
    BY <1>1 DEF RegisterSteps, InsertUser, InsertPassword, StatementFails, ConnectionLost,
       Rollback, RollbackFails, Commit, CommitFails, FindUser, FindFails
  <1>2. CASE GoogleSteps(r)
    BY <1>2 DEF GoogleSteps, Seek, CreateUser, Link, GoogleFails
  <1> QED
    BY <1>1, <1>2

\* Every step of the browser and the server keeps the types.
LEMMA AuthTypesNext == AuthIInv /\ AuthTypeOK /\ [AuthNext]_vars => AuthTypeOK'
  <1> SUFFICES ASSUME AuthIInv, AuthTypeOK, [AuthNext]_vars PROVE AuthTypeOK'
    OBVIOUS
  <1>1. TypeOK'
    BY StepSimulates, NextIInv DEF AuthIInv, IInv
  <1>2. ASSUME NEW r \in Requests, OtherAnswer(r) \/ AccountAnswer(r)
        PROVE  AuthTypeOK'
    <2>1. HarmlessAnswer(r)
      BY <1>2, HandlerAnswers
    <2>2. PICK op : \E shows \in BOOLEAN : Answer(r, op, shows) /\ Harmless(op)
      BY <2>1, Zenon DEF HarmlessAnswer
    <2>3. PICK shows \in BOOLEAN : Answer(r, op, shows) /\ Harmless(op)
      BY <2>2
    <2>4. op.queues => queued < MaxMessages
      BY <2>3 DEF Answer
    <2>5. \A s \in Sessions : After(s, op) \in Sessions
      BY <2>3, <2>4, AfterTyped DEF AuthIInv, AuthTypeOK
    <2>6. cookie' \in Sessions /\ ideal' \in Sessions
      BY <2>3, <2>5 DEF Answer, AuthTypeOK
    <2>7. sent' \in [Requests -> Sessions]
      BY <2>3, NoSessionTyped DEF Answer, AuthTypeOK
    <2>8. queued' \in 0..MaxMessages /\ visits' \in 0..MaxVisits
      BY <2>3, <2>4, AuthAssumption DEF Answer, AuthTypeOK
    <2>9. stale' \in BOOLEAN
      BY <2>3 DEF Answer, AuthTypeOK
    <2>10. shown' \in SUBSET (1..MaxMessages)
      <3>1. sent[r].flash \subseteq 1..MaxMessages
        BY DEF AuthTypeOK, Sessions
      <3>2. shown' = IF shows THEN shown \cup sent[r].flash ELSE shown
        BY <2>3 DEF Answer
      <3> QED
        BY <3>1, <3>2 DEF AuthTypeOK
    <2>11. /\ visit' \in [Requests -> Visits]
           /\ \A q \in Requests : visit'[q] = "account" <=> pc'[q] # "idle"
      <3>1. visit' = [visit EXCEPT ![r] = "none"]
        BY <2>3 DEF Answer
      <3>2. pc' = [pc EXCEPT ![r] = "idle"]
        BY <1>2, AnswersUnderWay
      <3> QED
        BY <3>1, <3>2 DEF AuthTypeOK, TypeOK, Visits
    <2> QED
      BY <1>1, <2>6, <2>7, <2>8, <2>9, <2>10, <2>11 DEF AuthTypeOK
  <1>3. ASSUME NEW r \in Requests, NEW v \in {"account", "other"}, Send(r, v),
               v = "account" => Register(r) \/ GoogleReturn(r),
               v = "other" => UNCHANGED accountVars
        PROVE  AuthTypeOK'
    <2>1. /\ cookie' \in Sessions /\ ideal' \in Sessions /\ sent' \in [Requests -> Sessions]
          /\ visits' \in 0..MaxVisits /\ queued' \in 0..MaxMessages
          /\ stale' \in BOOLEAN /\ shown' \in SUBSET (1..MaxMessages)
      BY <1>3, AuthAssumption DEF Send, AuthTypeOK
    <2>2. visit' = [visit EXCEPT ![r] = v] /\ visit[r] = "none"
      BY <1>3 DEF Send
    <2>3. CASE v = "account"
      <3>1. \E phase \in {"starting", "seeking"} : pc' = [pc EXCEPT ![r] = phase]
        BY <1>3, <2>3 DEF Register, GoogleReturn, Start, Go
      <3>2. /\ visit' \in [Requests -> Visits]
            /\ \A q \in Requests : visit'[q] = "account" <=> pc'[q] # "idle"
        BY <2>2, <2>3, <3>1 DEF AuthTypeOK, TypeOK, Visits
      <3> QED
        BY <1>1, <2>1, <3>2 DEF AuthTypeOK
    <2>4. CASE v = "other"
      <3>1. pc' = pc
        BY <1>3, <2>4 DEF accountVars
      <3>2. /\ visit' \in [Requests -> Visits]
            /\ \A q \in Requests : visit'[q] = "account" <=> pc'[q] # "idle"
        BY <2>2, <2>4, <3>1 DEF AuthTypeOK, TypeOK, Visits
      <3> QED
        BY <1>1, <2>1, <3>2 DEF AuthTypeOK
    <2> QED
      BY <2>3, <2>4
  <1>4. ASSUME NEW r \in Requests, AccountSteps(r)
        PROVE  AuthTypeOK'
    <2>1. UNCHANGED sessionVars
      BY <1>4 DEF AccountSteps
    <2>2. /\ pc[r] # "idle"
          /\ \E phase \in Phases \ {"idle"} : pc' = [pc EXCEPT ![r] = phase]
      BY <1>4, AccountStepsGoOn DEF AccountSteps, AuthTypeOK
    <2> QED
      BY <1>1, <2>1, <2>2 DEF sessionVars, AuthTypeOK, TypeOK
  <1>5. ASSUME Restart
        PROVE  AuthTypeOK'
    BY <1>1, <1>5, NoSessionTyped DEF Restart, Crash, AuthTypeOK, Visits
  <1>6. CASE UNCHANGED vars
    BY <1>1, <1>6 DEF vars, sessionVars, accountVars, AuthTypeOK
  <1>7. ASSUME NEW r \in Requests, SendsOther(r) \/ SendsAccount(r)
        PROVE  AuthTypeOK'
    BY <1>3, <1>7 DEF SendsOther, SendsAccount
  <1> QED
    BY <1>2, <1>4, <1>5, <1>6, <1>7 DEF AuthNext

\* The types of the sessions hold in every reachable state.
LEMMA AuthTypesAlways == AuthSpec => []AuthTypeOK
  <1>1. AuthInit => AuthTypeOK
    <2>1. AuthInit => TypeOK
      BY InitIInv DEF AuthInit, IInv
    <2>2. AuthInit => \A r \in Requests : visit[r] = "none" /\ pc[r] = "idle"
      BY DEF AuthInit, Init
    <2>3. AuthInit => /\ cookie \in Sessions /\ ideal \in Sessions
                      /\ sent \in [Requests -> Sessions]
                      /\ visit \in [Requests -> Visits]
      BY NoSessionTyped DEF AuthInit, Visits
    <2>4. AuthInit => /\ visits \in 0..MaxVisits /\ queued \in 0..MaxMessages
                      /\ shown \in SUBSET (1..MaxMessages)
      BY AuthAssumption DEF AuthInit
    <2>5. AuthInit => stale \in BOOLEAN
      BY Zenon DEF AuthInit
    <2> QED
      BY <2>1, <2>2, <2>3, <2>4, <2>5 DEF AuthTypeOK
  <1> QED
    BY <1>1, AuthTypesNext, AuthInvariant, PTL DEF AuthSpec

\* What the browser and the server keep is of its type, and the requests to
\* the data layer are those the browser waits for.
THEOREM AuthTypes == AuthSpec => []AuthTypeOK
  BY AuthTypesAlways

-----------------------------------------------------------------------------
\* An answer that takes messages out of its copy shows them.
CarefulAnswer(r) ==
    \E op : \E shows \in BOOLEAN : Answer(r, op, shows) /\ (op.consumes => shows)

\* A page does,
LEMMA RenderCareful == ASSUME NEW r, NEW op, Renders(r, op) PROVE CarefulAnswer(r)
  BY DEF Renders, CarefulAnswer

\* and so does the error page;
LEMMA ErrorCareful == ASSUME NEW r, RendersError(r) PROVE CarefulAnswer(r)
  BY RenderCareful DEF RendersError

\* a redirect may leave them where they are.
LEMMA RedirectCareful ==
    ASSUME NEW r, NEW op, Redirects(r, op), ~op.consumes PROVE CarefulAnswer(r)
  BY DEF Redirects, CarefulAnswer

\* Only the homepage and the calls of scripts take messages nobody sees.
LEMMA CarefulHandlers ==
    ASSUME NEW r \in Requests, OtherAnswer(r) \/ AccountAnswer(r)
    PROVE  HomePage(r) \/ Call(r) \/ CarefulAnswer(r)
  <1>1. /\ ~Nothing.consumes /\ ~Queue(Nothing).consumes
        /\ ~[Nothing EXCEPT !.user = 0].consumes
        /\ \A u : ~[Nothing EXCEPT !.user = u].consumes
        /\ \A op \in From : ~op.consumes
    BY DEF Nothing, Queue, From
  <1>2. CASE Page(r) \/ LoginPage(r)
    BY <1>2, RenderCareful DEF Page, LoginPage
  <1>3. CASE ToGoogle(r)
    BY <1>1, <1>3, RedirectCareful DEF ToGoogle
  <1>4. CASE Logout(r) \/ Post(r)
    BY <1>1, <1>4, RedirectCareful, ErrorCareful DEF Logout, Post
  <1>5. ASSUME NEW u, LogsIn(r, u) PROVE CarefulAnswer(r)
    BY <1>1, <1>5, RedirectCareful DEF LogsIn
  <1>6. CASE LocalLogin(r)
    BY <1>1, <1>5, <1>6, RedirectCareful, ErrorCareful DEF LocalLogin
  <1>7. CASE AccountAnswer(r)
    <2>1. LogsIn(r, own[r]) \/ RendersError(r)
      BY <1>7, Zenon DEF AccountAnswer
    <2> QED
      BY <1>5, <2>1, ErrorCareful, Zenon
  <1> QED
    BY <1>2, <1>3, <1>4, <1>6, <1>7 DEF OtherAnswer

\* Careful answers lose nothing a page has not shown, but by an older copy.
LEMMA CarefulKeepsMessages ==
    ASSUME AuthTypeOK, NEW r \in Requests, CarefulAnswer(r),
           NEW m \in cookie.flash \ cookie'.flash
    PROVE  (m \in shown' \/ sent[r] # cookie) /\ visit'[r] = "none"
  <1>1. PICK op : \E shows \in BOOLEAN : Answer(r, op, shows) /\ (op.consumes => shows)
    BY Zenon DEF CarefulAnswer
  <1>2. PICK shows \in BOOLEAN : Answer(r, op, shows) /\ (op.consumes => shows)
    BY <1>1
  <1>3. visit'[r] = "none"
    BY <1>2 DEF Answer, AuthTypeOK
  <1>4. cookie' = After(sent[r], op) \/ cookie' = cookie
    BY <1>2 DEF Answer
  <1>5. ASSUME sent[r] = cookie
        PROVE  m \in shown'
    <2>1. cookie'.flash = After(cookie, op).flash
      BY <1>4, <1>5
    <2>2. op.consumes
      BY <2>1 DEF After
    <2>3. shown' = shown \cup cookie.flash
      BY <1>2, <1>5, <2>2 DEF Answer
    <2> QED
      BY <2>3
  <1> QED
    BY <1>3, <1>5

\* A flash message leaves the cookie on a page, with a homepage that redirects
\* or a failing call of a script, or with an answer to an older copy.
THEOREM AuthMessagesShown == AuthSpec => MessagesShown
  <1> DEFINE Leaves(m) ==
        \/ m \in shown'
        \/ \E r \in Requests :
              \/ HomePage(r) \/ Call(r)
              \/ visit[r] # "none" /\ visit'[r] = "none" /\ sent[r] # cookie
  <1>1. ASSUME AuthTypeOK, [AuthNext]_vars, NEW m \in cookie.flash \ cookie'.flash
        PROVE  Leaves(m)
    <2>1. ASSUME NEW r \in Requests, OtherAnswer(r) \/ AccountAnswer(r)
          PROVE  Leaves(m)
      <3>1. CASE HomePage(r) \/ Call(r)
        BY <3>1
      <3>2. CASE CarefulAnswer(r)
        <4>1. visit[r] # "none"
          BY <1>1, <2>1, AnswersUnderWay
        <4>2. (m \in shown' \/ sent[r] # cookie) /\ visit'[r] = "none"
          BY <1>1, <3>2, CarefulKeepsMessages
        <4> QED
          BY <4>1, <4>2
      <3> QED
        BY <2>1, <3>1, <3>2, CarefulHandlers
    <2>2. cookie' # cookie
      BY <1>1
    <2> QED
      BY <1>1, <2>1, <2>2
      DEF AuthNext, SendsOther, SendsAccount, Send, AccountSteps, Restart, vars, sessionVars
  <1>2. AuthTypeOK /\ [AuthNext]_vars => [\A m \in cookie.flash \ cookie'.flash : Leaves(m)]_vars
    BY <1>1
  <1> QED
    BY <1>2, AuthTypesAlways, PTL DEF AuthSpec, MessagesShown

=============================================================================
