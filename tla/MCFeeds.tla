------------------------------- MODULE MCFeeds -------------------------------
(***************************************************************************)
(* An instance of Feeds for TLC, in two scenes that one run explores: the  *)
(* handlers with the page unopened, two requests of the user at a time;    *)
(* and a tab with two rows, with a request of the user and one without a   *)
(* login beside it.                                                        *)
(***************************************************************************)
EXTENDS Feeds, TLC

CONSTANTS r1, r2, r3, t1

VARIABLE scene

E(u, n) == [url |-> u, name |-> n]

\* An upload of a feed that has changed its name since, and of one that is gone.
SomeUploads == {<<E("/a", "n"), E("/q", "n")>>}

\* Two feeds, uploaded together or not at all.
PageUploads == {<<E("/a", "n"), E("/b", "n")>>}

AllUploads == SomeUploads \cup PageUploads

AllLists == AllUploads \cup {<<E("/a", "m")>>}

Titles == [u \in Urls |-> "m"]

\* The page links to the feed and, by an address as short, to the one gone.
SomeLinks == [u \in Urls |-> IF u = "/p" THEN {"/a", "/q"} ELSE {}]
Lengths == [u \in Urls |-> 2]

\* r1 uploads, or subscribes to the feed or to the page with its links; r2
\* uploads or subscribes to the feed, and its sites are not silent.
HandlersOnly ==
    /\ stage[r3] = "idle" /\ tab[t1] = "asking"
    /\ \A r \in Requests : list[r] \notin PageUploads
    /\ target[r1] # "/b" /\ (stage[r1] = "meta" => target[r1] # "/q")
    /\ target[r2] \in {NoUrl, "/a"} /\ stage[r2] # "silent"

\* r1 uploads, or subscribes to what is no feed; r3 has no login.
PageAmongOthers ==
    /\ stage[r2] = "idle"
    /\ \A r \in Requests : list[r] \in PageUploads \cup {<<>>}
    /\ target[r1] \in {NoUrl, "/b"} /\ target[r3] \in {NoUrl, "/a", "/b"}

\* The bounds of each scene; none of them keeps a request from going on.
InScene == IF scene = "handlers" THEN HandlersOnly ELSE PageAmongOthers

SceneInit == FeedsInit /\ scene \in {"handlers", "page"}

SceneNext == UNCHANGED scene /\ FeedsNext /\ InScene'

SceneSpec == SceneInit /\ [][SceneNext]_<<feedsVars, scene>> /\ FeedsFairness

=============================================================================
