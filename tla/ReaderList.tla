----------------------------- MODULE ReaderList -----------------------------
(***************************************************************************)
(* The list of posts in the terminal reader (internal/tui): what the user  *)
(* asked to see, the loads under way, and what the answers do to the list. *)
(*                                                                         *)
(* The reader is one loop.  A key or an answer is handled to the end, and  *)
(* what the handler starts (a tea.Cmd) runs beside the loop until its own  *)
(* answer comes in; answers come in any order.  A command in flight is a   *)
(* record, and inflight is the bag of them, since two can be alike.        *)
(*                                                                         *)
(* A page of posts is the question it answers, its number and whether it   *)
(* is full (pageSize posts); offsets are counted in pages.                 *)
(***************************************************************************)
EXTENDS Naturals, Sequences, Bags

CONSTANTS
    Feeds,      \* the feeds there are
    AnyFeed,    \* no feed in particular, uuid.Nil
    Words,      \* what the user searches for
    Orders,     \* sort directions and time ranges
    MaxPages,   \* bound: pages in the longest list
    MaxKeys,    \* bound: keys the user presses
    MaxAtOnce   \* bound: commands in flight when a key is pressed

NoWord == ""    \* which the prompt does not search for

ASSUME ReaderListAssumption ==
    /\ AnyFeed \notin Feeds /\ NoWord \notin Words
    /\ MaxPages \in Nat \ {0} /\ MaxKeys \in Nat

VARIABLES
    view,        \* m.source and m.filter: what the list should show
    offset,      \* m.offset, in pages
    hasMore, loadingMore, loading, fetching,
    list,        \* m.list: the pages in it
    inflight,    \* commands whose answer has not been handled
    follows,     \* the feeds the user follows, as the store has them
    keys,        \* keys pressed so far
    \* history, read by the properties and never by an action
    raced        \* since the list was last asked for afresh, a load of posts
                 \* was started beside another one, or failed

flags == <<hasMore, loadingMore, loading, fetching>>
vars == <<view, offset, flags, list, inflight, follows, keys, raced>>

Sources == {"feeds", "bookmarks", "search"}

View == [source : Sources, word : Words \cup {NoWord}, feed : Feeds \cup {AnyFeed},
         read : {"any", "unread", "read"}, order : Orders]

(* The question a view puts to the store: only the list of the feeds goes  *)
(* by the filter, and only it has pages.                                   *)
Question(v) ==
    CASE v.source = "bookmarks" -> [of |-> "bookmarks"]
      [] v.source = "search" -> [of |-> "search", word |-> v.word]
      [] OTHER -> [of |-> "feeds", feed |-> v.feed, read |-> v.read,
                   order |-> v.order]

Posts(v, n) == [op |-> "posts", q |-> Question(v), off |-> n]
Plain(op) == [op |-> op]
About(op, f) == [op |-> op, feed |-> f]

Paged(c) == c.q.of = "feeds"
Derived(v) == v.source # "feeds"
InFlight(cs) == BagToSet(cs)
LoadsIn(cs) == {c \in InFlight(cs) : c.op = "posts"}

TypeOK ==
    /\ view \in View
    /\ (view.source = "search") = (view.word # NoWord)
    /\ offset \in 0 .. MaxPages
    /\ flags \in BOOLEAN \X BOOLEAN \X BOOLEAN \X BOOLEAN
    /\ \A i \in DOMAIN list :
          /\ DOMAIN list[i] = {"q", "off", "full"}
          /\ list[i].off \in 0 .. MaxPages
          /\ list[i].full \in BOOLEAN
    /\ \A c \in InFlight(inflight) :
          c.op \in {"posts", "feeds", "scrape", "add", "unfollow", "file",
                    "mark", "unsave", "other"}
    /\ follows \subseteq Feeds
    /\ keys \in 0 .. MaxKeys
    /\ raced \in BOOLEAN

(* The reader starts with the filter it was left with, in whose feed the   *)
(* user may not be interested any more.  The reads, the bookmarks and the  *)
(* unread counts it asks for too are left out: all they can do to the list *)
(* is fail, as the feeds can.                                              *)
Init ==
    /\ view \in {v \in View : v.source = "feeds" /\ v.word = NoWord
                             /\ v.read # "read"}
    /\ offset = 0
    /\ hasMore = TRUE /\ loadingMore = FALSE /\ loading = TRUE
    /\ fetching = FALSE
    /\ list = << >>
    /\ inflight = SetToBag({Posts(view, 0), Plain("feeds")})
    /\ follows \in SUBSET Feeds
    /\ keys = 0
    /\ raced = FALSE

-----------------------------------------------------------------------------
(* Starting commands *)

Start(cs, others) == inflight' = others (+) SetToBag(cs)

(* Load c, and the rest of cs, beside others.                              *)
StartAfresh(c, cs, others) ==
    /\ Start({c} \cup cs, others)
    /\ raced' = (LoadsIn(others) # {})

(* startLoad: show v from its first page.                                  *)
StartLoad(v, cs, others) ==
    /\ view' = v
    /\ offset' = 0
    /\ hasMore' = TRUE
    /\ loadingMore' = FALSE
    /\ StartAfresh(Posts(v, 0), cs, others)

-----------------------------------------------------------------------------
(* Keys *)

Key ==
    /\ keys < MaxKeys /\ BagCardinality(inflight) < MaxAtOnce
    /\ keys' = keys + 1
    /\ UNCHANGED <<follows, list, loading>>

(* A key that shows another list, or the same one again.                   *)
Show(v) ==
    /\ Key
    /\ StartLoad(v, {}, inflight)
    /\ UNCHANGED fetching

(* r *)
Reload == Show(view)

(* Seeded bug: the words of the last search stay.                          *)
SwitchSourceOnly ==
    Show([view EXCEPT !.source = IF @ = "bookmarks" THEN "feeds" ELSE "bookmarks"])

(* B: to the bookmarks and back.                                           *)
SwitchSource ==
    Show([view EXCEPT !.source = IF @ = "bookmarks" THEN "feeds" ELSE "bookmarks",
                      !.word = NoWord])

(* U, H: the unread posts, the read ones, or both again.                   *)
SetReadState(want) ==
    /\ ~Derived(view)
    /\ Show([view EXCEPT !.read = IF @ = want THEN "any" ELSE want])

(* S, t: newest first, oldest first or by feed; of all time, of a day, ... *)
Reorder(order) ==
    /\ ~Derived(view)
    /\ order # view.order
    /\ Show([view EXCEPT !.order = order])

(* esc, where there is something to leave.                                 *)
LeaveDerivedView ==
    /\ Derived(view) \/ view.read # "any"
    /\ Show([view EXCEPT !.source = "feeds", !.word = NoWord, !.read = "any"])

(* enter on a feed of the feed pane.                                       *)
SelectFeed(f) ==
    /\ f \in follows
    /\ Show([view EXCEPT !.feed = f, !.source = "feeds", !.word = NoWord])

(* enter on one of the two rows above the feeds, which may reorder too.    *)
ShowEveryFeed(order) ==
    Show([view EXCEPT !.feed = AnyFeed, !.order = order, !.source = "feeds",
                      !.word = NoWord])

(* enter after a search: nothing of the paging is reset until the answer.  *)
Search(w) ==
    /\ Key
    /\ view' = [view EXCEPT !.source = "search", !.word = w]
    /\ StartAfresh(Posts(view', 0), {}, inflight)
    /\ UNCHANGED <<offset, hasMore, loadingMore, fetching>>

(* Moving through the list, once its end is near: maybeLoadMore.  On an    *)
(* empty list the end is always near.                                      *)
Scroll ==
    /\ Key
    /\ hasMore /\ ~loadingMore /\ ~Derived(view) /\ offset < MaxPages
    /\ loadingMore' = TRUE
    /\ offset' = offset + 1
    /\ Start({Posts(view, offset + 1)}, inflight)
    /\ raced' = (raced \/ LoadsIn(inflight) # {})
    /\ UNCHANGED <<view, hasMore, fetching>>

(* R, in a local reader.                                                   *)
FetchAll ==
    /\ Key
    /\ ~fetching
    /\ fetching' = TRUE
    /\ Start({Plain("scrape")}, inflight)
    /\ UNCHANGED <<view, offset, hasMore, loadingMore, raced>>

(* Keys that start one command and leave the list alone: a feed added,     *)
(* unfollowed or put in a folder, the list marked read, a bookmark         *)
(* removed, and what only changes the status line (a bookmark, a link      *)
(* opened or copied, ...).                                                 *)
Ask(c) ==
    /\ Key
    /\ Start({c}, inflight)
    /\ UNCHANGED <<view, offset, hasMore, loadingMore, fetching, raced>>

Asks == {About("add", f) : f \in Feeds} \cup {About("unfollow", f) : f \in Feeds}
        \cup {Plain("file"), Plain("mark"), Plain("unsave"), Plain("other")}

Press ==
    \/ Reload \/ SwitchSource \/ LeaveDerivedView \/ Scroll \/ FetchAll
    \/ \E want \in {"unread", "read"} : SetReadState(want)
    \/ \E f \in Feeds : SelectFeed(f)
    \/ \E order \in Orders : Reorder(order) \/ ShowEveryFeed(order)
    \/ \E w \in Words : Search(w)
    \/ \E c \in Asks : Ask(c)

-----------------------------------------------------------------------------
(* Answers *)

Without(c) == inflight (-) SetToBag({c})

Handled(c) ==
    /\ c \in InFlight(inflight)
    /\ UNCHANGED keys

(* postsLoaded: a page at another offset than the reader's is dropped.     *)
Takes(c) == Paged(c) => c.off = offset

PostsDropped(c) ==
    /\ Handled(c) /\ c.op = "posts"
    /\ ~Takes(c)
    /\ inflight' = Without(c)
    /\ UNCHANGED <<view, offset, flags, list, follows, raced>>

PostsTaken(c, full) ==
    /\ Handled(c) /\ c.op = "posts"
    /\ Takes(c)
    /\ full => c.off < MaxPages
    /\ inflight' = Without(c)
    /\ loading' = FALSE
    /\ loadingMore' = FALSE
    /\ hasMore' = (Paged(c) /\ full)
    /\ LET page == [q |-> c.q, off |-> c.off, full |-> full]
       IN IF Paged(c) /\ c.off > 0
          THEN list' = Append(list, page) /\ offset' = offset
          ELSE list' = <<page>> /\ offset' = 0
    /\ UNCHANGED <<view, fetching, follows, raced>>

(* feedsLoaded: when the feed of the filter is not followed any more the   *)
(* reader goes back to every feed.                                         *)
FeedsLoaded(c) ==
    /\ Handled(c) /\ c.op = "feeds"
    /\ IF view.feed \in follows \cup {AnyFeed}
       THEN /\ inflight' = Without(c)
            /\ UNCHANGED <<view, offset, hasMore, loadingMore, raced>>
       ELSE StartLoad([view EXCEPT !.feed = AnyFeed], {}, Without(c))
    /\ UNCHANGED <<loading, fetching, list, follows>>

(* Seeded bug: the result of a fetch leaves the spinner on.                *)
ScrapedOn(c) ==
    /\ Handled(c) /\ c.op = "scrape"
    /\ StartLoad(view, {}, Without(c))
    /\ UNCHANGED <<fetching, loading, list, follows>>

Scraped(c) ==
    /\ Handled(c) /\ c.op = "scrape"
    /\ fetching' = FALSE
    /\ StartLoad(view, {}, Without(c))
    /\ UNCHANGED <<loading, list, follows>>

(* A feed was added, or one or more of the catalog: feeds and posts again. *)
FeedAdded(c) ==
    /\ Handled(c) /\ c.op = "add"
    /\ follows' = follows \cup {c.feed}
    /\ StartLoad(view, {Plain("feeds")}, Without(c))
    /\ UNCHANGED <<loading, fetching, list>>

(* Seeded bug: the filter moves off the feed and the list is not reloaded. *)
UnfollowedOnly(c) ==
    /\ Handled(c) /\ c.op = "unfollow"
    /\ follows' = follows \ {c.feed}
    /\ view' = [view EXCEPT !.feed = IF @ = c.feed THEN AnyFeed ELSE @]
    /\ Start({Plain("feeds")}, Without(c))
    /\ UNCHANGED <<offset, flags, list, raced>>

FeedUnfollowed(c) ==
    /\ Handled(c) /\ c.op = "unfollow"
    /\ follows' = follows \ {c.feed}
    /\ StartLoad([view EXCEPT !.feed = IF @ = c.feed THEN AnyFeed ELSE @],
                 {Plain("feeds")}, Without(c))
    /\ UNCHANGED <<loading, fetching, list>>

(* feedCategorized: the feeds again, and not the posts.                    *)
FeedCategorized(c) ==
    /\ Handled(c) /\ c.op = "file"
    /\ Start({Plain("feeds")}, Without(c))
    /\ UNCHANGED <<view, offset, flags, list, follows, raced>>

(* allRead: the list has changed if it goes by what is read.               *)
AllRead(c) ==
    /\ Handled(c) /\ c.op = "mark"
    /\ IF view.read # "any"
       THEN StartLoad(view, {}, Without(c))
       ELSE /\ inflight' = Without(c)
            /\ UNCHANGED <<view, offset, hasMore, loadingMore, raced>>
    /\ UNCHANGED <<loading, fetching, list, follows>>

(* A bookmark is gone: the bookmarks, if that is the list, are read again, *)
(* without startLoad.                                                      *)
BookmarkRemoved(c) ==
    /\ Handled(c) /\ c.op = "unsave"
    /\ IF view.source = "bookmarks"
       THEN StartAfresh(Posts(view, 0), {}, Without(c))
       ELSE inflight' = Without(c) /\ UNCHANGED raced
    /\ UNCHANGED <<view, offset, flags, list, follows>>

(* Any other answer: the status line, or nothing to mark.                  *)
Noted(c) ==
    /\ Handled(c) /\ c.op \in {"other", "mark"}
    /\ inflight' = Without(c)
    /\ UNCHANGED <<view, offset, flags, list, follows, raced>>

(* Seeded bug: an error leaves the page it was about under way.            *)
FailedStill(c) ==
    /\ Handled(c)
    /\ inflight' = Without(c)
    /\ fetching' = FALSE
    /\ loading' = FALSE
    /\ raced' = (raced \/ c.op = "posts")
    /\ UNCHANGED <<view, offset, hasMore, loadingMore, list, follows>>

(* errMsg: whichever command failed, every flag is cleared.  (While the    *)
(* first list is loaded any error stays on the screen, in m.err, which     *)
(* nothing but the view reads.)                                            *)
Failed(c) ==
    /\ Handled(c)
    /\ inflight' = Without(c)
    /\ loadingMore' = FALSE
    /\ fetching' = FALSE
    /\ loading' = FALSE
    /\ raced' = (raced \/ c.op = "posts")
    /\ UNCHANGED <<view, offset, hasMore, list, follows>>

Answer ==
    \E c \in InFlight(inflight) :
        \/ PostsDropped(c)
        \/ \E full \in BOOLEAN : PostsTaken(c, full)
        \/ FeedsLoaded(c)
        \/ Scraped(c)
        \/ FeedAdded(c)
        \/ FeedUnfollowed(c)
        \/ FeedCategorized(c)
        \/ AllRead(c)
        \/ BookmarkRemoved(c)
        \/ Noted(c)
        \/ Failed(c)

Next == Press \/ Answer

Spec == Init /\ [][Next]_vars

(* Every command ends (the HTTP client has a timeout, the pager and the    *)
(* browser are started and left) and the loop handles what has ended.      *)
FairSpec == Spec /\ WF_vars(Answer)

-----------------------------------------------------------------------------
(* Properties *)

(* What a flag says is under way is under way: an answer that will be      *)
(* taken is in flight while the first list or a further page is loading,   *)
(* and a scrape while the reader says it fetches.                          *)
FlagsAreBacked ==
    /\ loading => \E c \in LoadsIn(inflight) : Takes(c)
    /\ loadingMore => \E c \in LoadsIn(inflight) : Paged(c) /\ c.off = offset
    /\ fetching => Plain("scrape") \in InFlight(inflight)

(* Once no load is under way the list is the one that was asked for last,  *)
(* from its first page, with no page missing, repeated or of another list, *)
(* and there is more exactly if the last page was full -- unless, since it *)
(* was last asked for, a load was started beside another one or failed.    *)
ListIsTheOneAskedFor ==
    (~raced /\ LoadsIn(inflight) = {}) =>
        /\ list # << >>
        /\ offset = Len(list) - 1
        /\ \A i \in DOMAIN list : list[i].q = Question(view) /\ list[i].off = i - 1
        /\ hasMore = (~Derived(view) /\ list[Len(list)].full)

(* The first list, every further page and every fetch come to an end.      *)
EverySpinnerStops ==
    /\ loading ~> ~loading
    /\ loadingMore ~> ~loadingMore
    /\ fetching ~> ~fetching

=============================================================================
