CONSTANTS
    r1 = r1
    r2 = r2
    e1 = e1
    e2 = e2
    n1 = n1
    g1 = g1
    Requests = {r1, r2}
    Emails = {e1, e2}
    Names = {n1}
    Profiles = {g1}
    NoForm = NoForm
    Same = Same
    MaxId = 2
    Places = {"/"}
    Home = "/"
    MaxMessages = 1
    MaxVisits = 4
SPECIFICATION AuthFairSpec
INVARIANTS
    AuthTypeOK
    OnlyGoogleLeavesRows
    TakenIsTrue
    WelcomedAsOwner
    CookieIsSession
    SessionHasAccount
PROPERTIES
    OpensWholeAccounts
    MessagesShown
    AccountRequestsEnd
CHECK_DEADLOCK FALSE
