---------------------------- MODULE MCFeedScrape ----------------------------
(* The scrapes of a feed on small instances: what the runs share.          *)
EXTENDS FeedScrape, TLC

\* Articles that age one after another, and one with no date.
CONSTANTS old, new, undated

Dates == (old :> 1) @@ (new :> 2) @@ (undated :> Undated)
DatesOf == [a \in Articles |-> Dates[a]]
ThinEditions == <<<<undated, old>>, <<new, old>>>>
TwoEditions == <<<<old>>, <<new, old>>>>
OtherPolicies == {[age |-> Retention, keep |-> 0]}

=============================================================================
