CONSTANTS
    r1 = r1
    r2 = r2
    r3 = r3
    t1 = t1
    Urls = {"/a", "/b", "/p", "/q"}
    Names = {"n", "m"}
    Lists <- AllLists
    Requests = {r1, r2, r3}
    MaxIds = 2
    Uploads <- AllUploads
    Anonymous = {r3}
    FeedUrls = {"/a"}
    Title <- Titles
    Links <- SomeLinks
    Length <- Lengths
    NoUrl = "none"
    Tabs = {t1}
SPECIFICATION SceneSpec
INVARIANTS
    FeedsTypeOK
    DealtWithIsSubscribed
    TwiceOnlyIfRaced
    AnswersAreTrue
    GoneIsUnsubscribed
PROPERTIES
    RequestsEnd
    ClicksEnd
CHECK_DEADLOCK FALSE
