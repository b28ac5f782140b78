---------------------------- MODULE MCFeedRefresh ----------------------------
(* Instances of FeedRefresh for TLC. *)
EXTENDS FeedRefresh, TLC

CONSTANTS r1, r2

\* Two texts, the second under two urls.
TwoArticles == {[article |-> "a", url |-> "/a", date |-> 1],
                [article |-> "b", url |-> "/b", date |-> 2],
                [article |-> "b", url |-> "/b2", date |-> 2]}

\* Three texts, two of one date, the last of them under two urls.
ThreeTexts == {[article |-> "a", url |-> "/a", date |-> 1],
               [article |-> "b", url |-> "/b", date |-> 2],
               [article |-> "c", url |-> "/c", date |-> 2],
               [article |-> "c", url |-> "/c2", date |-> 2]}

\* A text with a date and one without.
DatedAndUndated == {[article |-> "b", url |-> "/b", date |-> 2],
                    [article |-> "c", url |-> "/c", date |-> 0]}

RequestSymmetry == Permutations(Requests)

=============================================================================
