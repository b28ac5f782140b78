----------------------------- MODULE AccountStore -----------------------------
(***************************************************************************)
(* What the account tables promise the rest of the program: accounts are   *)
(* opened one at a time and whole, each for a user of its own and with     *)
(* keys (e-mail address and username, or Google profile) no other account  *)
(* has, and they stay.                                                     *)
(***************************************************************************)
CONSTANT Accounts       \* records [user, keys]

VARIABLE accounts

Init == accounts = {}

\* The account that is added shares nothing with the accounts there are.
Open(a) ==
    /\ \A b \in accounts : b.user # a.user /\ b.keys \cap a.keys = {}
    /\ accounts' = accounts \cup {a}

Next == \E a \in Accounts : Open(a)

Spec == Init /\ [][Next]_accounts

\* A key leads to one account, and an account to one user.
KeysIdentify ==
    \A a, b \in accounts :
       a # b => a.user # b.user /\ a.keys \cap b.keys = {}

=============================================================================
