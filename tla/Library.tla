------------------------------ MODULE Library ------------------------------
(***************************************************************************)
(* The local store (internal/store/local) behind the API (internal/api):   *)
(* what the accounts of one server do to the feeds, follows, posts and     *)
(* marks they share a database for.                                        *)
(*                                                                         *)
(* The store opens no transaction.  An operation of one SQL statement is   *)
(* one action; an operation of several (adding a feed, filing one, reading *)
(* an article) is a call that takes a step per statement that matters, and *)
(* the statements of other calls come in between.  A feed's row is never   *)
(* deleted, so looking one up can be taken with the statement after it.    *)
(***************************************************************************)
EXTENDS PostQueries

CONSTANTS
    Users,   \* accounts
    Server,  \* the actor of what no account asked for
    Calls    \* operations of several statements under way at once

ASSUME LibraryAssumption == Server \notin Users /\ Server \notin Calls

VARIABLES
    listed,   \* feeds
    subs,     \* feed_follows: category, by user and feed followed
    posts,    \* posts
    text,     \* the posts with a full_text
    read,     \* post_reads, by user
    saved,    \* bookmarks, by user
    call,     \* the operations of several statements
    actor     \* history: who the last step was for

tables == <<listed, subs, posts, text, read, saved>>
vars   == <<tables, call, actor>>

Idle == [op |-> "none", stage |-> "idle"]
Call ==
    [op : {"file", "filemany"}, user : Users, feed : Feeds, folder : Folders,
     stage : {"create", "follow", "check", "set", "ok"},
     crossed : BOOLEAN] \* the account did something else to that feed since
    \cup
    [op : {"text"}, user : Users, post : AllPosts, stage : {"put"}]

TypeOK ==
    /\ listed \subseteq Feeds
    /\ subs \in [Users -> UNION {[fs -> Folders] : fs \in SUBSET listed}]
    /\ posts \subseteq AllPosts
    /\ text \subseteq posts
    /\ read \in [Users -> SUBSET posts]
    /\ saved \in [Users -> SUBSET posts]
    /\ call \in [Calls -> Call \cup {Idle}]
    /\ actor \in Users \cup {Server}

Init ==
    /\ listed = {}
    /\ subs = [u \in Users |-> <<>>]
    /\ posts = {}
    /\ text = {}
    /\ read = [u \in Users |-> {}]
    /\ saved = [u \in Users |-> {}]
    /\ call = [c \in Calls |-> Idle]
    /\ actor = Server

(* JOIN feed_follows: the posts an account can mark. *)
Within(u) == {p \in posts : FeedOf[p] \in DOMAIN subs[u]}

-----------------------------------------------------------------------------
(* Operations of one statement *)

MarkPostRead(u, p) ==
    /\ read' = [read EXCEPT ![u] = @ \cup ({p} \cap Within(u))]
    /\ UNCHANGED <<listed, subs, posts, text, saved, call>>

UnreadByAll(u, p) ==
    /\ read' = [v \in Users |-> read[v] \ {p}]
    /\ UNCHANGED <<listed, subs, posts, text, saved, call>>

MarkPostUnread(u, p) ==
    /\ read' = [read EXCEPT ![u] = @ \ {p}]
    /\ UNCHANGED <<listed, subs, posts, text, saved, call>>

MarkPostsRead(u, ps) ==
    /\ read' = [read EXCEPT ![u] = @ \cup (ps \cap Within(u))]
    /\ UNCHANGED <<listed, subs, posts, text, saved, call>>

CreateBookmark(u, p) ==
    /\ saved' = [saved EXCEPT ![u] = @ \cup ({p} \cap Within(u))]
    /\ UNCHANGED <<listed, subs, posts, text, read, call>>

DeleteBookmark(u, p) ==
    /\ saved' = [saved EXCEPT ![u] = @ \ {p}]
    /\ UNCHANGED <<listed, subs, posts, text, read, call>>

(* Something the account does to feed f while calls of its own about that  *)
(* feed are under way.                                                     *)
Crossed(me, u, f) ==
    [c \in Calls |->
        IF c # me /\ call[c].op \notin {"none", "text"}
                  /\ call[c].user = u /\ call[c].feed = f
        THEN [call[c] EXCEPT !.crossed = TRUE]
        ELSE call[c]]

(* DeleteFeedFollow, by id or by URL.  The marks stay. *)
DeleteFeedFollow(u, f) ==
    /\ f \in listed
    /\ subs' = [subs EXCEPT ![u] = [g \in DOMAIN @ \ {f} |-> @[g]]]
    /\ call' = Crossed(Server, u, f)
    /\ UNCHANGED <<listed, posts, text, read, saved>>

-----------------------------------------------------------------------------
(* Operations of several statements *)

Begin(c, k) ==
    /\ call[c] = Idle
    /\ call' = [call EXCEPT ![c] = k]
    /\ UNCHANGED tables

(* AddFeed through the API files the feed by categorizing it afterwards    *)
(* ("file"), AddFeeds by a statement whose failure it ignores              *)
(* ("filemany"); with no folder there is nothing more to do.               *)
AddFeed(c, u, f, folder) ==
    \E op \in IF folder = NoFolder THEN {"filemany"} ELSE {"file", "filemany"} :
        Begin(c, [op |-> op, user |-> u, feed |-> f, folder |-> folder,
                  stage |-> "create", crossed |-> FALSE])

(* Of a URL no feed has, the two that look it up do nothing more. *)
FollowURL(c, u, f) ==
    /\ f \in listed
    /\ Begin(c, [op |-> "filemany", user |-> u, feed |-> f, folder |-> NoFolder,
                 stage |-> "follow", crossed |-> FALSE])

Categorize(c, u, f, folder) ==
    /\ f \in listed
    /\ Begin(c, [op |-> "file", user |-> u, feed |-> f,
                 folder |-> folder, stage |-> "check", crossed |-> FALSE])

(* FullText looks the post up, fetches the article, and stores its text.   *)
FullText(c, u, p) ==
    /\ p \in Within(u)
    /\ Begin(c, [op |-> "text", user |-> u, post |-> p, stage |-> "put"])

To(c, stage) == call' = [call EXCEPT ![c].stage = stage]
End(c)       == call' = [call EXCEPT ![c] = Idle]

CreateFeedOrStop(c) ==
    /\ call[c].stage = "create"
    /\ listed' = listed \cup {call[c].feed}
    /\ To(c, IF call[c].feed \in listed THEN "ok" ELSE "follow")
    /\ UNCHANGED <<subs, posts, text, read, saved>>

(* A URL that is taken is looked up and followed like a new one. *)
CreateFeed(c) ==
    /\ call[c].stage = "create"
    /\ listed' = listed \cup {call[c].feed}
    /\ To(c, "follow")
    /\ UNCHANGED <<subs, posts, text, read, saved>>

AfterFollow(k) ==
    CASE k.folder = NoFolder -> "ok"
      [] k.op = "file"       -> "check"
      [] OTHER               -> "set"

(* INSERT INTO feed_follows ... ON CONFLICT DO NOTHING *)
CreateFeedFollow(c) ==
    LET k == call[c]
    IN /\ k.stage = "follow"
       /\ subs' = [subs EXCEPT ![k.user] =
                      [g \in DOMAIN @ \cup {k.feed} |->
                          IF g \in DOMAIN @ THEN @[g] ELSE NoFolder]]
       /\ To(c, AfterFollow(k))
       /\ UNCHANGED <<listed, posts, text, read, saved>>

(* GetFeedFollowsForUser and followsFeed *)
CheckFollows(c) ==
    LET k == call[c]
    IN /\ k.stage = "check"
       /\ IF k.feed \in DOMAIN subs[k.user] THEN To(c, "set") ELSE End(c)
       /\ UNCHANGED tables

(* UPDATE feed_follows SET category: no row, no error. *)
SetFeedFollowCategory(c) ==
    LET k == call[c]
    IN /\ k.stage = "set"
       /\ subs' = [subs EXCEPT ![k.user] =
                      [g \in DOMAIN @ |-> IF g = k.feed THEN k.folder ELSE @[g]]]
       /\ call' = [Crossed(c, k.user, k.feed) EXCEPT ![c].stage = "ok"]
       /\ UNCHANGED <<listed, posts, text, read, saved>>

(* A statement fails, or the request's context ends between two. *)
StatementFails(c) ==
    LET k == call[c]
    IN /\ k.stage \in {"create", "follow", "check", "set"}
       /\ IF k.op = "filemany" /\ k.stage = "set" THEN To(c, "ok") ELSE End(c)
       /\ UNCHANGED tables

(* UPDATE posts SET full_text: no row if the post was pruned meanwhile. *)
SetPostFullText(c) ==
    /\ call[c].stage = "put"
    /\ \/ text' = text \cup ({call[c].post} \cap posts)
       \/ text' = text  \* the article could not be had, or says no more
    /\ End(c)
    /\ UNCHANGED <<listed, subs, posts, read, saved>>

Answer(c) ==
    /\ call[c].stage = "ok"
    /\ End(c)
    /\ UNCHANGED tables

Continue(c) ==
    \/ CreateFeed(c) \/ CreateFeedFollow(c) \/ CheckFollows(c)
    \/ SetFeedFollowCategory(c) \/ StatementFails(c)
    \/ SetPostFullText(c) \/ Answer(c)

-----------------------------------------------------------------------------
(* What the aggregator does to the tables meanwhile *)

CreatePost(p) ==
    /\ FeedOf[p] \in listed
    /\ posts' = posts \cup {p}
    /\ UNCHANGED <<listed, subs, text, read, saved, call>>

PruneOnly(ps) ==
    /\ ps \subseteq posts
    /\ \A u \in Users : ps \cap saved[u] = {}
    /\ posts' = posts \ ps
    /\ text' = text \ ps
    /\ UNCHANGED <<listed, subs, read, saved, call>>

(* The marks of a post go with it: ON DELETE CASCADE. *)
PrunePosts(ps) ==
    /\ ps \subseteq posts
    /\ \A u \in Users : ps \cap saved[u] = {}
    /\ posts' = posts \ ps
    /\ text' = text \ ps
    /\ read' = [u \in Users |-> read[u] \ ps]
    /\ UNCHANGED <<listed, subs, saved, call>>

Request(u) ==
    \/ \E p \in AllPosts :
          \/ MarkPostRead(u, p) \/ MarkPostUnread(u, p)
          \/ CreateBookmark(u, p) \/ DeleteBookmark(u, p)
    \/ \E ps \in SUBSET AllPosts : MarkPostsRead(u, ps)
    \/ \E f \in Feeds : DeleteFeedFollow(u, f)
    \/ \E c \in Calls :
          \/ \E f \in Feeds, folder \in Folders :
                AddFeed(c, u, f, folder) \/ Categorize(c, u, f, folder)
          \/ \E f \in Feeds : FollowURL(c, u, f)
          \/ \E p \in AllPosts : FullText(c, u, p)
          \/ call[c] # Idle /\ call[c].user = u /\ Continue(c)

Next ==
    \/ \E u \in Users : Request(u) /\ actor' = u
    \/ (\E p \in AllPosts : CreatePost(p)) /\ actor' = Server
    \/ (\E ps \in SUBSET AllPosts : PrunePosts(ps)) /\ actor' = Server

Spec == Init /\ [][Next]_vars

-----------------------------------------------------------------------------
(* A feed that was added or followed with success is followed, under the   *)
(* folder asked for, unless the account itself did something else to it    *)
(* meanwhile: two accounts that add the same new feed at once both follow  *)
(* it, whichever of them created it.  (A list of feeds is only promised    *)
(* the follow: the failure of its folders is ignored.)                     *)
AddedIsFollowed ==
    \A c \in Calls :
        /\ call[c].stage = "ok" /\ ~call[c].crossed
        => LET k == call[c]
           IN /\ k.feed \in DOMAIN subs[k.user]
              /\ k.op = "file" => subs[k.user][k.feed] = k.folder

(* However the statements of several accounts interleave, each account     *)
(* sees a store of its own: every step is one operation of one account on  *)
(* its own shelf, and a prune takes no saved post from anyone.             *)
Promise == INSTANCE Shelves
ImplementsShelves == Promise!Spec

=============================================================================
