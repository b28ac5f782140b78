---------------------------- MODULE MCReaderPage ----------------------------
(* Instances of ReaderPage for TLC. *)
EXTENDS ReaderPage

CONSTANTS f1, f2, f3

\* Two feeds with four posts, one of them in both.
SharedPost == {[feed |-> f1, url |-> "/a", date |-> 1],
               [feed |-> f1, url |-> "/b", date |-> 3],
               [feed |-> f1, url |-> "/d", date |-> 2],
               [feed |-> f2, url |-> "/c", date |-> 2],
               [feed |-> f2, url |-> "/a", date |-> 3]}

\* Two feeds with one post each.
TwoPosts == {[feed |-> f1, url |-> "/a", date |-> 1],
             [feed |-> f2, url |-> "/b", date |-> 2]}

=============================================================================
