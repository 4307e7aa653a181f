---------------------------- MODULE PostQueries ----------------------------
(***************************************************************************)
(* What the lists of posts answer: the SQL behind the local store          *)
(* (internal/database), and the Go that answers the same questions from    *)
(* the cached snapshot when no server can be reached                       *)
(* (internal/store/offline/filter.go).                                     *)
(*                                                                         *)
(* A shelf is what the database holds for one account: posts (the stored   *)
(* ones, everyone's), subs (folder of each feed it follows), read, saved,  *)
(* and after, the pairs of saved posts whose first was saved later.  A     *)
(* post's time is its published_at, or created_at when it has none.        *)
(*                                                                         *)
(* What an ORDER BY leaves open the database answers as it likes, and a    *)
(* stable sort by what it was given: a query has a set of answers, lists   *)
(* of posts.                                                               *)
(***************************************************************************)
EXTENDS Patterns, FiniteSets, FiniteSetsExt

CONSTANTS
    Feeds,
    AllPosts,    \* every post there will be
    FeedOf,      \* [AllPosts -> Feeds]
    TimeOf,      \* [AllPosts -> Nat], several of one time or not
    NameOf,      \* [Feeds -> Text]
    TextsOf,     \* [AllPosts -> SUBSET Text]: title and description
    Collated,    \* [Feeds -> Nat]: where the database's collation puts the
                 \* name of a feed
    Lowered,     \* [Feeds -> Nat]: where strings.Compare puts it in lower case
    Folders,     \* what a feed can be filed under, NoFolder among them
    NoFolder     \* category ''

ASSUME QueriesAssumption ==
    /\ Feeds \subseteq Nat \ {0}
    /\ IsFiniteSet(AllPosts)
    /\ FeedOf \in [AllPosts -> Feeds]
    /\ TimeOf \in [AllPosts -> Nat \ {0}]
    /\ NameOf \in [Feeds -> Text]
    /\ TextsOf \in [AllPosts -> SUBSET Text]
    /\ Collated \in [Feeds -> Nat]
    /\ Lowered \in [Feeds -> Nat]
    /\ NoFolder \in Folders

(* store.PostQuery.  Feed 0 is any feed; an empty name any name, an empty  *)
(* word no search; since 0 any time; perFeed 0 no digest; limit 0 no limit *)
(* offline, and no rows from the database.                                 *)
Query == [feed : Feeds \cup {0}, name : Text, word : Text,
          read : {"all", "unread", "read"}, since : Nat,
          dir : {"asc", "desc"}, perFeed : Nat, limit : Nat, offset : Nat]

Newer(p, q)  == TimeOf[p] > TimeOf[q]
InOrder(dir, p, q) == IF dir = "asc" THEN Newer(q, p) ELSE Newer(p, q)
Fresh(f, ps) == Max({TimeOf[p] : p \in {r \in ps : FeedOf[r] = f}})

(* ORDER BY and the comparisons of a sort, as sets of pairs, the earlier   *)
(* first: by time; within each feed by time; or the feeds by their newest  *)
(* post, then by the place of their names, and each by time.               *)
ByTime(dir, ps) == {pr \in ps \X ps : InOrder(dir, pr[1], pr[2])}

PerFeed(ps) == {pr \in ByTime("desc", ps) : FeedOf[pr[1]] = FeedOf[pr[2]]}

ByFeed(ps, place) ==
    LET fresh(p) == Fresh(FeedOf[p], ps)
        at(p)    == place[FeedOf[p]]
    IN {pr \in ps \X ps :
           \/ fresh(pr[1]) > fresh(pr[2])
           \/ /\ fresh(pr[1]) = fresh(pr[2])
              /\ \/ at(pr[1]) < at(pr[2])
                 \/ at(pr[1]) = at(pr[2]) /\ Newer(pr[1], pr[2])}

(* The lists of s, each member once, none after one that comes before it.  *)
Listings(s, order) ==
    {l \in [1..Cardinality(s) -> s] :
        \A i, j \in DOMAIN l :
            i < j => l[i] # l[j] /\ <<l[j], l[i]>> \notin order}

-----------------------------------------------------------------------------
(* The server *)

Followed(shelf) == {p \in shelf.posts : FeedOf[p] \in DOMAIN shelf.subs}

(* LIMIT and OFFSET *)
Upto(list, q) == [i \in 1..Min({q.limit, Max({Len(list) - q.offset, 0})})
                  |-> list[q.offset + i]]

(* The WHERE clause the list and the digest share. *)
Selected(shelf, q) ==
    {p \in Followed(shelf) :
        /\ q.name # <<>> => ILike(NameOf[FeedOf[p]], q.name)
        /\ q.feed # 0 => FeedOf[p] = q.feed
        /\ q.read = "unread" => p \notin shelf.read
        /\ q.read = "read" => p \in shelf.read
        /\ TimeOf[p] >= q.since}

(* A search looks at the word alone: it has no filter and no offset. *)
Searched(shelf, q) ==
    {p \in Followed(shelf) : \E text \in TextsOf[p] : ILike(text, q.word)}

GetPostsForUserFiltered(shelf, q) ==
    LET found == Selected(shelf, q)
    IN {Upto(list, q) : list \in Listings(found, ByTime(q.dir, found))}

(* row_number() over the rows of a feed, newest first *)
Ranked(rows, perFeed) ==
    LET rank(i) == Cardinality({j \in 1..i : FeedOf[rows[j]] = FeedOf[rows[i]]})
    IN {rows[i] : i \in {k \in DOMAIN rows : rank(k) <= perFeed}}

GetPostDigestForUser(shelf, q) ==
    LET found == Selected(shelf, q)
    IN UNION {{Upto(list, q) :
                  list \in Listings(Ranked(rows, q.perFeed), ByFeed(found, Collated))}
              : rows \in Listings(found, PerFeed(found))}

SearchPostsForUser(shelf, q) ==
    LET found == Searched(shelf, q)
    IN {Upto(list, [q EXCEPT !.offset = 0]) :
           list \in Listings(found, ByTime("desc", found))}

(* local.Store.Posts *)
Posts(shelf, q) ==
    IF q.word # <<>> THEN SearchPostsForUser(shelf, q)
    ELSE IF q.perFeed > 0 THEN GetPostDigestForUser(shelf, q)
    ELSE GetPostsForUserFiltered(shelf, q)

(* No join with the follows: what was saved stays listed when its feed is  *)
(* no longer followed.  ORDER BY bookmarks.created_at DESC.                *)
GetBookmarksForUser(shelf) ==
    LET kept == shelf.saved \cap shelf.posts
    IN [posts |-> kept, order |-> shelf.after \cap (kept \X kept)]

(* A feed with nothing unread has no row; here it has a zero. *)
GetUnreadCountsForUser(shelf) ==
    [f \in Feeds |-> Cardinality({p \in Followed(shelf) :
                                     FeedOf[p] = f /\ p \notin shelf.read})]

-----------------------------------------------------------------------------
(* The snapshot: posts as a set, for mergePosts keeps them sorted by time, *)
(* and those of one time as they came.                                     *)

(* The lists of the entries of sorted at the places kept, in their order:  *)
(* there is one.                                                           *)
InTurn(sorted, kept) ==
    {[k \in DOMAIN turn |-> sorted[turn[k]]] :
        turn \in Listings(kept, {pr \in kept \X kept : pr[1] < pr[2]})}

Seen(sorted, i) ==
    Cardinality({j \in 1..(i - 1) : FeedOf[sorted[j]] = FeedOf[sorted[i]]})

DigestOneMore(sorted, perFeed) ==
    InTurn(sorted, {i \in DOMAIN sorted : Seen(sorted, i) <= perFeed})

(* digest: the first posts of each feed. *)
Digest(sorted, perFeed) ==
    InTurn(sorted, {i \in DOMAIN sorted : Seen(sorted, i) < perFeed})

(* The names are those of the cached subscriptions: of any other feed it   *)
(* is empty, and comes first.                                              *)
Found(snap, q) ==
    {p \in snap.posts :
        /\ q.feed # 0 => FeedOf[p] = q.feed
        /\ q.name # <<>> => /\ FeedOf[p] \in DOMAIN snap.subs
                            /\ Holds(NameOf[FeedOf[p]], q.name)
        /\ q.word # <<>> => \E text \in TextsOf[p] : Holds(text, q.word)
        /\ q.read = "unread" => p \notin snap.read
        /\ q.read = "read" => p \in snap.read
        /\ TimeOf[p] >= q.since}

Placed(snap) == [f \in Feeds |-> IF f \in DOMAIN snap.subs THEN Lowered[f] ELSE 0]

(* selectPosts *)
SelectPosts(snap, q) ==
    LET found == Found(snap, q)
        lists == IF q.perFeed > 0
                 THEN UNION {Digest(sorted, q.perFeed) :
                                sorted \in Listings(found, ByFeed(found, Placed(snap)))}
                 ELSE Listings(found, ByTime(q.dir, found))
        cut(list) == IF q.offset >= Len(list) THEN <<>>
                     ELSE IF q.limit > 0 THEN Upto(list, q)
                     ELSE SubSeq(list, q.offset + 1, Len(list))
    IN {cut(list) : list \in lists}

=============================================================================
