------------------------------ MODULE Shelves ------------------------------
(***************************************************************************)
(* What the store promises the accounts that share it, read off the fake   *)
(* the tests of every layer run against (internal/store/storetest): each   *)
(* request is one step, it concerns the shelf of the account that made it, *)
(* and the shelves of the others stay as they are.  The fake is the store  *)
(* of one account; here there is one per user.  One thing happens that the *)
(* fake has no word for: a prune forgets posts, never one that is saved.   *)
(***************************************************************************)
CONSTANTS Users, Feeds, AllPosts, Folders, NoFolder, Server

VARIABLES
    subs,   \* Subs of each user: the folder of each feed followed
    read,   \* Read
    saved,  \* Bookmarked
    actor   \* who the last step was for

vars == <<subs, read, saved, actor>>

Init ==
    /\ subs = [u \in Users |-> <<>>]
    /\ read = [u \in Users |-> {}]
    /\ saved = [u \in Users |-> {}]
    /\ actor = Server

File(u, f, folder) ==
    subs' = [subs EXCEPT ![u] =
                [g \in DOMAIN @ \cup {f} |-> IF g = f THEN folder ELSE @[g]]]

SetRead(u, p) ==
    /\ \/ read' = [read EXCEPT ![u] = @ \cup {p}]
       \/ read' = [read EXCEPT ![u] = @ \ {p}]
    /\ UNCHANGED <<subs, saved>>

SetAllRead(u, ps) ==
    read' = [read EXCEPT ![u] = @ \cup ps] /\ UNCHANGED <<subs, saved>>

Bookmark(u, p) ==
    saved' = [saved EXCEPT ![u] = @ \cup {p}] /\ UNCHANGED <<subs, read>>

Unbookmark(u, p) ==
    saved' = [saved EXCEPT ![u] = @ \ {p}] /\ UNCHANGED <<subs, read>>

AddFeed(u, f) ==
    /\ f \notin DOMAIN subs[u]
    /\ File(u, f, NoFolder)
    /\ UNCHANGED <<read, saved>>

Unfollow(u, f) ==
    /\ subs' = [subs EXCEPT ![u] = [g \in DOMAIN @ \ {f} |-> @[g]]]
    /\ UNCHANGED <<read, saved>>

Categorize(u, f, folder) ==
    /\ f \in DOMAIN subs[u]
    /\ File(u, f, folder)
    /\ UNCHANGED <<read, saved>>

(* Everything that only asks, and whatever was refused. *)
Ask == UNCHANGED <<subs, read, saved>>

Act(u) ==
    /\ actor' = u
    /\ \/ \E p \in AllPosts : SetRead(u, p) \/ Bookmark(u, p) \/ Unbookmark(u, p)
       \/ \E ps \in SUBSET AllPosts : SetAllRead(u, ps)
       \/ \E f \in Feeds :
             \/ AddFeed(u, f)
             \/ Unfollow(u, f)
             \/ \E folder \in Folders : Categorize(u, f, folder)
       \/ Ask

Forget ==
    /\ actor' = Server
    /\ \E ps \in SUBSET AllPosts :
          /\ \A u \in Users : ps \cap saved[u] = {}
          /\ read' = [u \in Users |-> read[u] \ ps]
    /\ UNCHANGED <<subs, saved>>

Next == (\E u \in Users : Act(u)) \/ Forget

Spec == Init /\ [][Next]_vars

=============================================================================
