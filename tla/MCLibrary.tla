----------------------------- MODULE MCLibrary -----------------------------
(* Two accounts, one feed, one post of it.                                 *)
EXTENDS Library, TLC

CONSTANTS p1, alice, bob

FeedOfPosts == [p \in AllPosts |-> 1]
TimeOfPosts == [p \in AllPosts |-> 1]
TextsOfPosts == [p \in AllPosts |-> {}]
NameOfFeeds == [f \in Feeds |-> <<"a">>]
InOrderOfFeeds == [f \in Feeds |-> f]

Symmetry == Permutations(Calls) \cup Permutations(Users)

=============================================================================
