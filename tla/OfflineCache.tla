---------------------------- MODULE OfflineCache ----------------------------
(***************************************************************************)
(* What the offline store has cached, and what it answers from it          *)
(* (internal/store/offline: cache.go, filter.go, and the calls of          *)
(* offline.go), against the answers the server would give.  One account;   *)
(* the server is its shelf, which other clients of the account and the     *)
(* aggregator change too.  How the calls of the store interleave, what     *)
(* happens to its files and to replies that get lost is the matter of      *)
(* OfflineStore; here a call is one step, and the data is all there.       *)
(***************************************************************************)
EXTENDS PostQueries, SequencesExt

CONSTANTS
    MaxPosts,    \* posts the snapshot holds, 200 in the code
    MaxEvents,   \* bound: changes, single answers, changes elsewhere
    Pages,       \* the pages of posts a client asks for
    Lists,       \* the sets of posts a client marks read at once
    Asked        \* the queries the answers are compared on

(* What a sync asks for. *)
Everything == [feed |-> 0, name |-> <<>>, word |-> <<>>, read |-> "all",
               since |-> 0, dir |-> "desc", perFeed |-> 0,
               limit |-> MaxPosts, offset |-> 0]

ASSUME CacheAssumption ==
    /\ MaxPosts \in Nat \ {0}
    /\ MaxEvents \in Nat
    /\ Pages \subseteq Query
    /\ Lists \subseteq SUBSET AllPosts
    /\ Asked \subseteq Query
    /\ \A q \in Asked :
          /\ q.limit > 0
          /\ q.word # <<>> => q = [Everything EXCEPT !.word = q.word, !.limit = q.limit]

VARIABLES
    shelf,   \* the server: see PostQueries
    snap,    \* snapshot; marked are the posts of Bookmarked, above the pairs
             \* of them whose first is listed before the second
    queue,   \* queue.pending
    up,      \* requests reach the server
    events   \* history: what counts towards MaxEvents

cacheVars == <<shelf, snap, queue, up, events>>

Change ==
    [op : {"read", "bookmark"}, post : AllPosts, value : BOOLEAN]
    \cup [op : {"read_all"}, posts : Lists]
    \cup [op : {"categorize"}, feed : Feeds, folder : Folders]

CacheInit ==
    /\ shelf = [posts |-> AllPosts, subs |-> [f \in Feeds |-> NoFolder],
                read |-> {}, saved |-> {}, after |-> {}]
    /\ snap = [posts |-> {}, subs |-> <<>>, read |-> {}, saved |-> {},
               marked |-> {}, above |-> {}, unread |-> [f \in Feeds |-> 0]]
    /\ queue = <<>>
    /\ up = TRUE
    /\ events = 0

-----------------------------------------------------------------------------
(* A change, at the server: see Library *)

FileUnder(subs, f, folder) ==
    [g \in DOMAIN subs |-> IF g = f THEN folder ELSE subs[g]]

Without(s, p)   == s \ {p}
Leaving(prs, p) == {pr \in prs : pr[1] # p /\ pr[2] # p}

(* ON CONFLICT DO NOTHING: what was saved keeps its created_at. *)
Bookmarked(p, sh) ==
    LET new == ({p} \cap Followed(sh)) \ sh.saved
    IN [sh EXCEPT !.saved = @ \cup new, !.after = @ \cup (new \X sh.saved)]

Unbookmarked(p, sh) ==
    [sh EXCEPT !.saved = Without(@, p), !.after = Leaving(@, p)]

CarriedTheOtherWay(c, sh) ==
    CASE c.op = "read" ->
            [sh EXCEPT !.read = IF c.post \in @ THEN Without(@, c.post)
                                ELSE @ \cup ({c.post} \cap Followed(sh))]
      [] OTHER -> sh

Carried(c, sh) ==
    CASE c.op = "read" ->
            [sh EXCEPT !.read = IF c.value THEN @ \cup ({c.post} \cap Followed(sh))
                                ELSE Without(@, c.post)]
      [] c.op = "read_all" ->
            [sh EXCEPT !.read = @ \cup (c.posts \cap Followed(sh))]
      [] c.op = "bookmark" ->
            IF c.value THEN Bookmarked(c.post, sh) ELSE Unbookmarked(c.post, sh)
      [] c.op = "categorize" ->
            [sh EXCEPT !.subs = FileUnder(@, c.feed, c.folder)]

(* flush: each change in order; the refused ones change nothing. *)
Replay(changes, sh) ==
    LET after[n \in 0..Len(changes)] ==
            IF n = 0 THEN sh ELSE Carried(changes[n], after[n - 1])
    IN after[Len(changes)]

-----------------------------------------------------------------------------
(* A change, in the snapshot *)

(* countUnread: of a post the snapshot does not hold the feed is unknown,  *)
(* and a count does not go below zero.                                     *)
CountUnread(sn, p, delta) ==
    IF p \notin sn.posts THEN sn
    ELSE [sn EXCEPT !.unread[FeedOf[p]] = Max({@ + delta, 0})]

SetReadAnyway(sn, p, value) ==
    IF value THEN CountUnread([sn EXCEPT !.read = @ \cup {p}], p, -1)
    ELSE CountUnread([sn EXCEPT !.read = Without(@, p)], p, 1)

SetRead(sn, p, value) ==
    IF value = (p \in sn.read) THEN sn
    ELSE IF value THEN CountUnread([sn EXCEPT !.read = @ \cup {p}], p, -1)
    ELSE CountUnread([sn EXCEPT !.read = Without(@, p)], p, 1)

(* A post saved here is appended to the list, where the server puts it     *)
(* first.                                                                  *)
SetSaved(sn, p, value) ==
    IF value = (p \in sn.saved) THEN sn
    ELSE IF value
    THEN LET shown == {p} \cap sn.posts
         IN [sn EXCEPT !.saved = @ \cup {p}, !.marked = @ \cup shown,
                       !.above = @ \cup (sn.marked \X shown)]
    ELSE [sn EXCEPT !.saved = Without(@, p), !.marked = Without(@, p),
                    !.above = Leaving(@, p)]

Apply(c, sn) ==
    CASE c.op = "read"       -> SetRead(sn, c.post, c.value)
      [] c.op = "read_all"   -> FoldSet(LAMBDA p, s : SetRead(s, p, TRUE), sn, c.posts)
      [] c.op = "bookmark"   -> SetSaved(sn, c.post, c.value)
      [] c.op = "categorize" ->
            [sn EXCEPT !.subs = FileUnder(@, c.feed, c.folder)]

(* mergePosts: the newest are kept, and of one time those that were there. *)
MergePosts(sn, ps) ==
    LET merged == sn.posts \cup ps
        before(p, r) == \/ Newer(p, r)
                        \/ TimeOf[p] = TimeOf[r] /\ p \in sn.posts /\ r \notin sn.posts
    IN {[sn EXCEPT !.posts = kept] :
           kept \in {k \in SUBSET merged :
                        /\ Cardinality(k) = Min({MaxPosts, Cardinality(merged)})
                        /\ \A p \in merged \ k, r \in k : ~before(p, r)}}

(* What each call of the store keeps of an answer. *)
KeepPosts(sn, list) == MergePosts(sn, ToSet(list))
KeepMarked(sn, sh)  ==
    LET list == GetBookmarksForUser(sh)
    IN [sn EXCEPT !.marked = list.posts, !.above = list.order]
KeepSaved(sn, sh)   == [sn EXCEPT !.saved = sh.saved]
KeepRead(sn, sh)    == [sn EXCEPT !.read = sh.read]
KeepUnread(sn, sh)  == [sn EXCEPT !.unread = GetUnreadCountsForUser(sh)]
KeepSubs(sn, sh)    == [sn EXCEPT !.subs = sh.subs]

-----------------------------------------------------------------------------
(* The client *)

Drain == shelf' = Replay(queue, shelf) /\ queue' = <<>>

(* A list the server answers: the answer is from before the queue went out *)
(* and is kept after it did.                                               *)
AskPosts(q) ==
    /\ up
    /\ \E list \in Posts(shelf, q) : snap' \in KeepPosts(snap, list)
    /\ Drain /\ UNCHANGED up

PostByURL(p) ==
    /\ up /\ p \in Followed(shelf)
    /\ snap' \in KeepPosts(snap, <<p>>)
    /\ Drain /\ UNCHANGED up

AskMarks ==
    /\ up
    /\ \/ snap' = KeepMarked(snap, shelf)
       \/ snap' = KeepSaved(snap, shelf)
       \/ snap' = KeepRead(snap, shelf)
       \/ snap' = KeepUnread(snap, shelf)
       \/ snap' = KeepSubs(snap, shelf)
    /\ Drain /\ UNCHANGED up

(* Sync drains first, then asks for everything there is. *)
SyncForgettingCounts ==
    /\ up
    /\ Drain
    /\ \E list \in Posts(shelf', Everything) :
          \E sn \in KeepPosts(KeepSubs(snap, shelf'), list) :
             snap' = KeepRead(KeepSaved(KeepMarked(sn, shelf'), shelf'), shelf')
    /\ UNCHANGED up

Sync ==
    /\ up
    /\ Drain
    /\ \E list \in Posts(shelf', Everything) :
          \E sn \in KeepPosts(KeepSubs(snap, shelf'), list) :
             snap' = KeepUnread(KeepRead(KeepSaved(KeepMarked(sn, shelf'),
                                                   shelf'), shelf'), shelf')
    /\ UNCHANGED up

(* The changes a client can make: about the posts it has been shown, and   *)
(* the feeds it follows as far as it knows.                                *)
Shown == snap.posts \cup snap.marked
Offered ==
    {c \in Change :
        \/ c.op \in {"read", "bookmark"} /\ c.post \in Shown
        \/ c.op = "read_all" /\ c.posts \subseteq Shown
        \/ c.op = "categorize" /\ c.feed \in DOMAIN snap.subs}

(* Only a feed that is followed can be filed. *)
Refused(c, sh) == c.op = "categorize" /\ c.feed \notin DOMAIN sh.subs

(* With the server there a change goes to it, and the snapshot is left as  *)
(* it was until the next answer.  One it refuses starts no drain.          *)
WriteOnline(c) ==
    /\ up
    /\ IF Refused(c, shelf) THEN UNCHANGED <<shelf, queue>>
       ELSE shelf' = Replay(queue, Carried(c, shelf)) /\ queue' = <<>>
    /\ UNCHANGED <<snap, up>>

WriteOffline(c) ==
    /\ ~up
    /\ queue' = Append(queue, c)
    /\ snap' = Apply(c, snap)
    /\ UNCHANGED <<shelf, up>>

Outage == up' = ~up /\ UNCHANGED <<shelf, snap, queue>>

-----------------------------------------------------------------------------
(* Everyone else *)

(* What another client of the account, or the aggregator, does to the      *)
(* shelf: the steps of Library, as this account sees them.                 *)
Moved(sh, sh2) ==
    \/ \E c \in Change : c.op # "read_all" /\ sh2 = Carried(c, sh)
    \/ \E ps \in SUBSET AllPosts :
          sh2 = [sh EXCEPT !.read = @ \cup (ps \cap Followed(sh))]
    \/ \E f \in DOMAIN sh.subs :
          sh2 = [sh EXCEPT !.subs = [g \in DOMAIN @ \ {f} |-> @[g]]]
    \/ \E f \in Feeds \ DOMAIN sh.subs :
          sh2 = [sh EXCEPT !.subs = [g \in DOMAIN @ \cup {f} |->
                                        IF g = f THEN NoFolder ELSE @[g]]]
    \/ \E ps \in SUBSET (sh.posts \ sh.saved) :
          sh2 = [sh EXCEPT !.posts = @ \ ps, !.read = @ \ ps]
    \/ \E p \in AllPosts \ sh.posts : sh2 = [sh EXCEPT !.posts = @ \cup {p}]

Elsewhere == Moved(shelf, shelf') /\ UNCHANGED <<snap, queue, up>>

Event ==
    \/ \E q \in Pages : AskPosts(q)
    \/ \E p \in AllPosts : PostByURL(p)
    \/ AskMarks
    \/ \E c \in Offered : WriteOnline(c) \/ WriteOffline(c)
    \/ Elsewhere

CacheNext ==
    \/ events < MaxEvents /\ Event /\ events' = events + 1
    \/ (Sync \/ Outage) /\ UNCHANGED events

CacheSpec == CacheInit /\ [][CacheNext]_cacheVars

-----------------------------------------------------------------------------
(* What the server will answer once it has the queue. *)
Coming == Replay(queue, shelf)

(* The snapshot holds what the server will hold, whatever the order of the *)
(* bookmarks.                                                              *)
Agrees(sn, sh) ==
    /\ sn.posts = Followed(sh)
    /\ sn.subs = sh.subs
    /\ sn.read = sh.read
    /\ sn.saved = sh.saved
    /\ sn.marked = GetBookmarksForUser(sh).posts
    /\ sn.unread = GetUnreadCountsForUser(sh)

(* The bookmarks shown above one the server lists before them.             *)
OutOfOrder(sn, sh) == {pr \in sn.above : <<pr[2], pr[1]>> \in sh.after}

(* The feeds whose newest posts are of one time stand in one order by the  *)
(* collation of the database and by strings.Compare.                       *)
TiesAlike(ps) ==
    \A p, r \in ps :
        LET f == FeedOf[p]
            g == FeedOf[r]
        IN Fresh(f, ps) = Fresh(g, ps)
           => (Collated[f] < Collated[g] <=> Lowered[f] < Lowered[g])

(* With the same posts, follows and marks, the Go that stands in for the   *)
(* database answers every list as the SQL may: filter.go against           *)
(* posts.sql, the digest, the order and the pages included.  This is so    *)
(* for names and words without the _ % and \ that ILIKE takes for a        *)
(* pattern and strings.Contains for letters, and of a digest when the      *)
(* collation does not set apart what strings.Compare does.  With _ or % in *)
(* it the server may find more, and what the snapshot finds is among it;   *)
(* with \ nothing is said.  (Asked are the queries the clients make: a     *)
(* search names nothing but the word, and every list has a limit.)         *)
SameAnswers ==
    Agrees(snap, Coming) =>
        \A q \in Asked :
            /\ /\ Plain(q.name) /\ Plain(q.word)
               /\ q.perFeed > 0 => TiesAlike(Found(snap, q))
               => SelectPosts(snap, q) \subseteq Posts(Coming, q)
            /\ NoEscape(q.name) /\ NoEscape(q.word)
               => Found(snap, q) \subseteq
                     IF q.word # <<>> THEN Searched(Coming, q) ELSE Selected(Coming, q)

(* A sync leaves the reader with what the server has, queue included and   *)
(* the bookmarks in the server's order, when the cache has room for it and *)
(* nothing in it is from a feed unfollowed or a post pruned since (such    *)
(* posts only go when newer ones push them).                               *)
SyncAgrees ==
    [][/\ Sync
       /\ Cardinality(Followed(shelf')) <= MaxPosts
       /\ snap.posts \subseteq Followed(shelf')
       => /\ Agrees(snap', shelf')
          /\ snap'.above = GetBookmarksForUser(shelf').order]_cacheVars

(* Whatever is marked, saved or filed while the server is away, the reader *)
(* keeps seeing what the server will say once it has been told: the marks, *)
(* the posts and bookmarks there are, and the unread counts.  Not the      *)
(* place of a bookmark made now: it is shown last, and the server lists it *)
(* first, as README.md says; but no other two bookmarks come out of order. *)
(* (A saved post of a feed no longer followed is not meant: the server     *)
(* takes no mark of it.)                                                   *)
ChangesForeseen ==
    [][\A c \in Offered :
          /\ WriteOffline(c)
          /\ Agrees(snap, Coming)
          /\ c.op \in {"read", "bookmark"} => c.post \in Followed(shelf)
          /\ c.op = "read_all" => c.posts \subseteq Followed(shelf)
          => /\ Agrees(snap', Coming')
             /\ \A pr \in OutOfOrder(snap', Coming') :
                   \/ pr \in OutOfOrder(snap, Coming)
                   \/ c.op = "bookmark" /\ pr[2] = c.post]_cacheVars

(* A drain that is cut off after some of its changes and starts over does  *)
(* no more than one that was not, except to the order of the bookmarks: a  *)
(* post saved again is the newest of them.                                 *)
ResendingChangesNothing ==
    \A k \in 0..Len(queue) :
        LET again == Replay(queue, Replay(SubSeq(queue, 1, k), shelf))
        IN [again EXCEPT !.after = {}] = [Coming EXCEPT !.after = {}]

=============================================================================
