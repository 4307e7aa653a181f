-------------------------- MODULE ReaderListProofs --------------------------
(***************************************************************************)
(* Theorems about the list of posts, for any feeds, words and orders, any  *)
(* number of pages and keys, and any number of commands in flight.         *)
(*                                                                         *)
(* As long as no load was started beside another one, the list is the one  *)
(* asked for last, or one load is under way, and the list is the part of   *)
(* the one asked for that comes before its page.                           *)
(***************************************************************************)
EXTENDS ReaderList, FiniteSetTheorems, SequenceTheorems, TLAPS

Questions == {Question(v) : v \in View}
Page == [q : Questions, off : 0 .. MaxPages, full : BOOLEAN]
Ops == {"posts", "feeds", "scrape", "add", "unfollow", "file", "mark", "unsave", "other"}

IsACommand(c) ==
    /\ c.op \in Ops
    /\ c.op = "posts" => c.q \in Questions /\ c.off \in 0 .. MaxPages
    /\ c.op \in {"add", "unfollow"} => c.feed \in Feeds
    /\ c.op = "scrape" => c = Plain("scrape")

Types ==
    /\ view \in View
    /\ (view.source = "search") = (view.word # NoWord)
    /\ offset \in 0 .. MaxPages
    /\ hasMore \in BOOLEAN /\ loadingMore \in BOOLEAN
    /\ loading \in BOOLEAN /\ fetching \in BOOLEAN
    /\ list \in Seq(Page)
    /\ IsABag(inflight)
    /\ \A c \in InFlight(inflight) : IsACommand(c)
    /\ follows \subseteq Feeds
    /\ keys \in 0 .. MaxKeys
    /\ raced \in BOOLEAN

Loads == LoadsIn(inflight)

\* The pages in the list are the first of the list asked for.
Pages == \A i \in DOMAIN list : list[i].q = Question(view) /\ list[i].off = i - 1

Whole ==
    /\ list # << >>
    /\ offset = Len(list) - 1
    /\ Pages
    /\ hasMore = (~Derived(view) /\ list[Len(list)].full)

\* The answer to c makes it whole.
Completes(c) ==
    /\ c.q = Question(view)
    /\ \/ c.off = 0 /\ (Paged(c) => offset = 0)
       \/ c.off > 0 /\ Paged(c) /\ c.off = offset /\ Len(list) = offset /\ Pages

ListInv ==
    ~raced =>
        /\ Loads = {} => Whole
        /\ \A c, d \in Loads : c = d /\ inflight[c] = 1
        /\ \A c \in Loads : Completes(c)
-----------------------------------------------------------------------------
(* Views and commands *)

\* A view the user can be looking at.
IsAView(v) == v \in View /\ (v.source = "search") = (v.word # NoWord)

LEMMA QuestionIs ==
  ASSUME NEW v \in View
  PROVE  /\ Question(v) \in Questions
         /\ Question(v).of = "feeds" <=> ~Derived(v)
<1>1. v.source \in Sources
  BY DEF View
<1>2. Question(v).of = "feeds" <=> ~Derived(v)
  BY <1>1 DEF Question, Derived, Sources
<1>3. QED
  BY <1>2 DEF Questions

LEMMA PostsIs ==
  ASSUME NEW v \in View, NEW n \in 0 .. MaxPages
  PROVE  /\ Posts(v, n).op = "posts" /\ Posts(v, n).q = Question(v)
         /\ Posts(v, n).off = n /\ IsACommand(Posts(v, n))
         /\ Paged(Posts(v, n)) <=> ~Derived(v)
<1>1. Posts(v, n).op = "posts" /\ Posts(v, n).q = Question(v) /\ Posts(v, n).off = n
  BY DEF Posts
<1>2. QED
  BY <1>1, QuestionIs DEF IsACommand, Ops, Paged

LEMMA PlainIs ==
  ASSUME NEW op
  PROVE  /\ Plain(op).op = op
         /\ op \in Ops \ {"posts", "add", "unfollow"} => IsACommand(Plain(op))
<1>1. Plain(op).op = op
  BY DEF Plain
<1>2. op = "scrape" => Plain(op) = Plain("scrape")
  OBVIOUS
<1>3. QED
  BY <1>1, <1>2 DEF IsACommand

LEMMA AboutIs ==
  ASSUME NEW op \in {"add", "unfollow"}, NEW f \in Feeds
  PROVE  About(op, f).op = op /\ IsACommand(About(op, f))
<1>1. About(op, f).op = op /\ About(op, f).feed = f
  BY DEF About
<1>2. QED
  BY <1>1 DEF IsACommand, Ops

LEMMA ReviewIs ==
  ASSUME NEW v, IsAView(v)
  PROVE  /\ \A s \in {"feeds", "bookmarks"} :
              IsAView([v EXCEPT !.source = s, !.word = NoWord])
         /\ \A w \in Words : IsAView([v EXCEPT !.source = "search", !.word = w])
         /\ \A r \in {"any", "unread", "read"} : IsAView([v EXCEPT !.read = r])
         /\ \A o \in Orders : IsAView([v EXCEPT !.order = o])
         /\ \A f \in Feeds \cup {AnyFeed} : IsAView([v EXCEPT !.feed = f])
  BY ReaderListAssumption DEF IsAView, View, Sources

-----------------------------------------------------------------------------
(* Bags *)

LEMMA BagGains ==
  ASSUME NEW B, IsABag(B), NEW S
  PROVE  /\ IsABag(B (+) SetToBag(S))
         /\ BagToSet(B (+) SetToBag(S)) = BagToSet(B) \cup S
         /\ \A x \in BagToSet(B) : x \notin S => (B (+) SetToBag(S))[x] = B[x]
         /\ \A x \in S : x \notin BagToSet(B) => (B (+) SetToBag(S))[x] = 1
  BY DEF IsABag, BagToSet, SetToBag, (+)

LEMMA BagLoses ==
  ASSUME NEW B, IsABag(B), NEW e
  PROVE  /\ IsABag(B (-) SetToBag({e}))
         /\ BagToSet(B (-) SetToBag({e})) \subseteq BagToSet(B)
         /\ BagToSet(B) \ {e} \subseteq BagToSet(B (-) SetToBag({e}))
         /\ \A x \in BagToSet(B) : x # e => (B (-) SetToBag({e}))[x] = B[x]
         /\ e \in BagToSet(B) /\ B[e] = 1 => e \notin BagToSet(B (-) SetToBag({e}))
  BY DEF IsABag, BagToSet, SetToBag, (-)

LEMMA NewBag ==
  ASSUME NEW S
  PROVE  /\ IsABag(SetToBag(S)) /\ BagToSet(SetToBag(S)) = S
         /\ \A e \in S : SetToBag(S)[e] = 1
  BY DEF IsABag, BagToSet, SetToBag

\* The commands beside which something is started: as far as loads go, all.
Beside(o) ==
    /\ IsABag(o) /\ InFlight(o) \subseteq InFlight(inflight)
    /\ LoadsIn(o) = Loads
    /\ \A c \in Loads : o[c] = inflight[c]

LEMMA BesideIs ==
  ASSUME Types
  PROVE  /\ Beside(inflight)
         /\ \A c \in InFlight(inflight) : c.op # "posts" => Beside(Without(c))
<1>1. IsABag(inflight)
  BY DEF Types
<1>2. Beside(inflight)
  BY <1>1 DEF Beside, Loads
<1>3. ASSUME NEW c \in InFlight(inflight), c.op # "posts"
      PROVE  Beside(Without(c))
  <2>1. /\ IsABag(Without(c)) /\ InFlight(Without(c)) \subseteq InFlight(inflight)
        /\ InFlight(inflight) \ {c} \subseteq InFlight(Without(c))
        /\ \A d \in InFlight(inflight) : d # c => Without(c)[d] = inflight[d]
    BY <1>1, BagLoses DEF Without, InFlight
  <2>2. LoadsIn(Without(c)) = Loads
    BY <1>3, <2>1 DEF Loads, LoadsIn
  <2>3. QED
    BY <1>3, <2>1, <2>2 DEF Beside, Loads, LoadsIn
<1>4. QED
  BY <1>2, <1>3

LEMMA StartIs ==
  ASSUME Types, NEW o, Beside(o), NEW cs, \A c \in cs : IsACommand(c), Start(cs, o)
  PROVE  /\ IsABag(inflight') /\ InFlight(inflight') = InFlight(o) \cup cs
         /\ \A c \in InFlight(inflight') : IsACommand(c)
         /\ Loads' = Loads \cup {c \in cs : c.op = "posts"}
         /\ \A c \in cs : c \notin InFlight(o) => inflight'[c] = 1
         /\ \A c \in InFlight(o) : c \notin cs => inflight'[c] = o[c]
<1>1. /\ IsABag(inflight') /\ InFlight(inflight') = InFlight(o) \cup cs
      /\ \A c \in cs : c \notin InFlight(o) => inflight'[c] = 1
      /\ \A c \in InFlight(o) : c \notin cs => inflight'[c] = o[c]
  BY BagGains DEF Beside, Start, InFlight
<1>2. \A c \in InFlight(inflight') : IsACommand(c)
  BY <1>1 DEF Beside, Types
<1>3. Loads' = Loads \cup {c \in cs : c.op = "posts"}
  BY <1>1 DEF Loads, LoadsIn, Beside
<1>4. QED
  BY <1>1, <1>2, <1>3
-----------------------------------------------------------------------------
(* What steps do to the list and its loads, whichever key or answer it is. *)

Others(cs) == \A c \in cs : IsACommand(c) /\ c.op # "posts"

\* Another list is shown, or the same one again.
Restarts(o) ==
    /\ \E v, cs : IsAView(v) /\ Others(cs) /\ StartLoad(v, cs, o)
    /\ UNCHANGED <<list, loading>>

\* The list is read again, where it has no pages.
Rereads(o) ==
    /\ view.source = "bookmarks"
    /\ StartAfresh(Posts(view, 0), {}, o)
    /\ UNCHANGED <<view, offset, hasMore, loadingMore, list, loading>>

Searches(w) ==
    /\ view' = [view EXCEPT !.source = "search", !.word = w]
    /\ StartAfresh(Posts(view', 0), {}, inflight)
    /\ UNCHANGED <<offset, hasMore, loadingMore, list, loading>>

Scrolls ==
    /\ ~Derived(view) /\ offset < MaxPages
    /\ loadingMore' = TRUE
    /\ offset' = offset + 1
    /\ Start({Posts(view, offset + 1)}, inflight)
    /\ raced' = (raced \/ Loads # {})
    /\ UNCHANGED <<view, hasMore, list, loading>>

\* It goes on as it was.
Passes(o) ==
    /\ \/ inflight' = o
       \/ \E cs : Others(cs) /\ Start(cs, o)
    /\ UNCHANGED <<view, offset, hasMore, loadingMore, list, loading, raced>>

Fetches == fetching => Plain("scrape") \in InFlight(inflight)

Rest == follows' \subseteq Feeds /\ keys' \in 0 .. MaxKeys /\ fetching' \in BOOLEAN

LEMMA KeyIs ==
  ASSUME Types, Key
  PROVE  /\ follows' \subseteq Feeds /\ keys' \in 0 .. MaxKeys
         /\ UNCHANGED <<list, loading>>
  BY ReaderListAssumption DEF Key, Types

LEMMA ShowIs ==
  ASSUME Types, Fetches, NEW v, IsAView(v), Show(v)
  PROVE  Restarts(inflight) /\ Fetches' /\ Rest
<1>1. Restarts(inflight)
  BY DEF Show, Key, Restarts, Others
<1>2. InFlight(inflight) \subseteq InFlight(inflight')
  BY BagGains DEF Types, Show, StartLoad, StartAfresh, Start, InFlight
<1>3. Fetches' /\ fetching' \in BOOLEAN
  BY <1>2 DEF Show, Fetches, Types
<1>4. QED
  BY <1>1, <1>3, KeyIs DEF Show, Rest

LEMMA PressIs ==
  ASSUME Types, Fetches, Press
  PROVE  /\ Restarts(inflight) \/ (\E w \in Words : Searches(w)) \/ Scrolls
            \/ Passes(inflight)
         /\ Fetches' /\ Rest
<1>1. IsAView(view)
  BY DEF Types, IsAView
<1>2. CASE Reload
  BY <1>1, <1>2, ShowIs DEF Reload
<1>3. CASE SwitchSource
  <2>1. PICK s \in {"feeds", "bookmarks"} :
            Show([view EXCEPT !.source = s, !.word = NoWord])
    BY <1>3 DEF SwitchSource
  <2>2. QED
    BY <1>1, <2>1, ReviewIs, ShowIs
<1>4. CASE LeaveDerivedView
  <2> DEFINE v == [view EXCEPT !.source = "feeds", !.word = NoWord]
  <2>1. IsAView(v)
    BY <1>1, ReviewIs
  <2>2. IsAView([v EXCEPT !.read = "any"])
    BY <2>1, ReviewIs
  <2>3. Show([v EXCEPT !.read = "any"])
    BY <1>4 DEF LeaveDerivedView
  <2>4. QED
    BY <2>2, <2>3, ShowIs
<1>5. ASSUME NEW want \in {"unread", "read"}, SetReadState(want)
      PROVE  Restarts(inflight) /\ Fetches' /\ Rest
  <2>1. PICK r \in {"any", "unread", "read"} : Show([view EXCEPT !.read = r])
    BY <1>5 DEF SetReadState
  <2>2. QED
    BY <1>1, <2>1, ReviewIs, ShowIs
<1>6. ASSUME NEW f \in Feeds, SelectFeed(f)
      PROVE  Restarts(inflight) /\ Fetches' /\ Rest
  <2> DEFINE v == [view EXCEPT !.feed = f]
  <2>1. IsAView(v)
    BY <1>1, ReviewIs
  <2>2. IsAView([v EXCEPT !.source = "feeds", !.word = NoWord])
    BY <2>1, ReviewIs
  <2>3. Show([v EXCEPT !.source = "feeds", !.word = NoWord])
    BY <1>6 DEF SelectFeed
  <2>4. QED
    BY <2>2, <2>3, ShowIs
<1>7. ASSUME NEW order \in Orders, Reorder(order)
      PROVE  Restarts(inflight) /\ Fetches' /\ Rest
  BY <1>1, <1>7, ReviewIs, ShowIs DEF Reorder
<1>8. ASSUME NEW order \in Orders, ShowEveryFeed(order)
      PROVE  Restarts(inflight) /\ Fetches' /\ Rest
  <2> DEFINE u == [view EXCEPT !.feed = AnyFeed]
             v == [u EXCEPT !.order = order]
  <2>1. IsAView(u)
    BY <1>1, ReviewIs
  <2>2. IsAView(v)
    BY <2>1, ReviewIs
  <2>3. IsAView([v EXCEPT !.source = "feeds", !.word = NoWord])
    BY <2>2, ReviewIs
  <2>4. Show([v EXCEPT !.source = "feeds", !.word = NoWord])
    BY <1>8 DEF ShowEveryFeed
  <2>5. QED
    BY <2>3, <2>4, ShowIs
<1>9. ASSUME NEW c, IsACommand(c), c.op # "posts", Start({c}, inflight),
             fetching' \in BOOLEAN, fetching' => fetching \/ c = Plain("scrape"),
             Key, UNCHANGED <<view, offset, hasMore, loadingMore, raced>>
      PROVE  Passes(inflight) /\ Fetches' /\ Rest
  <2>1. InFlight(inflight') = InFlight(inflight) \cup {c}
    BY <1>9, BagGains DEF Types, Start, InFlight
  <2>2. Others({c}) /\ Fetches'
    BY <1>9, <2>1 DEF Others, Fetches
  <2>3. Rest /\ UNCHANGED <<list, loading>>
    BY <1>9, KeyIs DEF Rest
  <2>4. QED
    BY <1>9, <2>2, <2>3 DEF Passes
<1>10. CASE FetchAll
  <2>1. IsACommand(Plain("scrape")) /\ Plain("scrape").op # "posts"
    BY PlainIs DEF Ops
  <2>2. QED
    BY <1>9, <1>10, <2>1 DEF FetchAll
<1>11. ASSUME NEW c \in Asks, Ask(c)
       PROVE  Passes(inflight) /\ Fetches' /\ Rest
  <2>1. IsACommand(c) /\ c.op # "posts"
    BY PlainIs, AboutIs DEF Asks, Ops
  <2>2. QED
    BY <1>9, <1>11, <2>1 DEF Ask, Types
<1>12. CASE Scroll
  <2>1. InFlight(inflight) \subseteq InFlight(inflight')
    BY <1>12, BagGains DEF Types, Scroll, Start, InFlight
  <2>2. Fetches' /\ Rest /\ UNCHANGED <<list, loading>>
    BY <1>12, <2>1, KeyIs DEF Scroll, Rest, Fetches, Types
  <2>3. Scrolls
    BY <1>12, <2>2 DEF Scroll, Scrolls, Loads
  <2>4. QED
    BY <2>2, <2>3
<1>13. ASSUME NEW w \in Words, Search(w)
       PROVE  Searches(w) /\ Fetches' /\ Rest
  <2>1. InFlight(inflight) \subseteq InFlight(inflight')
    BY <1>13, BagGains DEF Types, Search, StartAfresh, Start, InFlight
  <2>2. Fetches' /\ Rest /\ UNCHANGED <<list, loading>>
    BY <1>13, <2>1, KeyIs DEF Search, Rest, Fetches, Types
  <2>3. Searches(w)
    BY <1>13, <2>2 DEF Search, Searches
  <2>4. QED
    BY <2>2, <2>3
<1>14. QED
  BY <1>2, <1>3, <1>4, <1>5, <1>6, <1>7, <1>8, <1>10, <1>11, <1>12, <1>13 DEF Press
\* An answer that is not of posts leaves the loads beside which it came.
Lists(o) == Restarts(o) \/ Rereads(o) \/ Passes(o)

AnswerStep(c) ==
    \/ c.op # "posts" /\ Lists(Without(c))
    \/ PostsDropped(c)
    \/ \E full \in BOOLEAN : PostsTaken(c, full)
    \/ Failed(c)

LEMMA WithoutKeeps ==
  ASSUME Types, NEW c \in InFlight(inflight)
  PROVE  InFlight(inflight) \ {c} \subseteq InFlight(Without(c)) /\ IsABag(Without(c))
  BY BagLoses DEF Types, Without, InFlight

\* What an answer that starts something leaves of the fetch.
LEMMA FetchGoesOn ==
  ASSUME Types, Fetches, NEW c \in InFlight(inflight), NEW cs,
         inflight' = Without(c) \/ Start(cs, Without(c)),
         fetching' = FALSE \/ (fetching' = fetching /\ c # Plain("scrape"))
  PROVE  Fetches' /\ fetching' \in BOOLEAN
<1>1. InFlight(Without(c)) \subseteq InFlight(inflight')
  BY WithoutKeeps, BagGains DEF Start, InFlight
<1>2. QED
  BY <1>1, WithoutKeeps DEF Fetches, Types

LEMMA AnswerIs ==
  ASSUME Types, Fetches, Answer
  PROVE  \E c \in InFlight(inflight) : AnswerStep(c) /\ Fetches' /\ Rest
<1>1. PICK c \in InFlight(inflight) :
        \/ PostsDropped(c) \/ (\E full \in BOOLEAN : PostsTaken(c, full))
        \/ FeedsLoaded(c) \/ Scraped(c) \/ FeedAdded(c) \/ FeedUnfollowed(c)
        \/ FeedCategorized(c) \/ AllRead(c) \/ BookmarkRemoved(c) \/ Noted(c) \/ Failed(c)
  BY DEF Answer
<1> SUFFICES AnswerStep(c) /\ Fetches' /\ Rest
  BY <1>1
<1>2. IsAView(view) /\ IsACommand(c) /\ Plain("scrape").op = "scrape"
  BY PlainIs DEF Types, IsAView
<1>3. \A f \in Feeds \cup {AnyFeed} : IsAView([view EXCEPT !.feed = f])
  BY <1>2, ReviewIs
<1>4. Others({}) /\ Others({Plain("feeds")})
  BY PlainIs DEF Others, Ops
<1>5. CASE PostsDropped(c)
  <2>1. Fetches' /\ fetching' \in BOOLEAN
    BY <1>2, <1>5, FetchGoesOn DEF PostsDropped, flags, Types
  <2>2. QED
    BY <1>5, <2>1 DEF PostsDropped, Handled, AnswerStep, Rest, Types
<1>6. CASE \E full \in BOOLEAN : PostsTaken(c, full)
  <2>1. Fetches' /\ fetching' \in BOOLEAN
    BY <1>2, <1>6, FetchGoesOn DEF PostsTaken, Types
  <2>2. QED
    BY <1>6, <2>1 DEF PostsTaken, Handled, AnswerStep, Rest, Types
<1>7. CASE FeedsLoaded(c)
  <2>1. keys' \in 0 .. MaxKeys /\ follows' \subseteq Feeds /\ UNCHANGED <<list, loading>>
    BY <1>7 DEF FeedsLoaded, Handled, Types
  <2>2. CASE view.feed \in follows \cup {AnyFeed}
    <3>1. Passes(Without(c))
      BY <1>7, <2>1, <2>2 DEF FeedsLoaded, Passes
    <3>2. Fetches' /\ fetching' \in BOOLEAN
      BY <1>2, <1>7, <2>2, FetchGoesOn DEF FeedsLoaded
    <3>3. QED
      BY <1>7, <2>1, <3>1, <3>2 DEF FeedsLoaded, AnswerStep, Lists, Rest
  <2>3. CASE view.feed \notin follows \cup {AnyFeed}
    <3>1. StartLoad([view EXCEPT !.feed = AnyFeed], {}, Without(c))
      BY <1>7, <2>3 DEF FeedsLoaded
    <3>2. Restarts(Without(c))
      BY <1>3, <1>4, <2>1, <3>1 DEF Restarts
    <3>3. Fetches' /\ fetching' \in BOOLEAN
      BY <1>2, <1>7, <3>1, FetchGoesOn DEF FeedsLoaded, StartLoad, StartAfresh
    <3>4. QED
      BY <1>7, <2>1, <3>2, <3>3 DEF FeedsLoaded, AnswerStep, Lists, Rest
  <2>4. QED
    BY <2>2, <2>3
<1>8. CASE Scraped(c)
  <2>1. Restarts(Without(c))
    BY <1>2, <1>4, <1>8 DEF Scraped, Restarts
  <2>2. Fetches' /\ fetching' \in BOOLEAN
    BY <1>8, FetchGoesOn DEF Scraped, StartLoad, StartAfresh
  <2>3. QED
    BY <1>8, <2>1, <2>2 DEF Scraped, Handled, AnswerStep, Lists, Rest, Types
<1>9. CASE FeedAdded(c)
  <2>1. Restarts(Without(c))
    BY <1>2, <1>4, <1>9 DEF FeedAdded, Restarts
  <2>2. Fetches' /\ fetching' \in BOOLEAN
    BY <1>2, <1>9, FetchGoesOn DEF FeedAdded, StartLoad, StartAfresh
  <2>3. QED
    BY <1>2, <1>9, <2>1, <2>2
    DEF FeedAdded, Handled, AnswerStep, Lists, Rest, Types, IsACommand
<1>10. CASE FeedUnfollowed(c)
  <2>1. PICK f \in Feeds \cup {AnyFeed} :
            StartLoad([view EXCEPT !.feed = f], {Plain("feeds")}, Without(c))
    <3>1. view.feed \in Feeds \cup {AnyFeed}
      BY DEF Types, View
    <3>2. (IF view.feed = c.feed THEN AnyFeed ELSE view.feed) \in Feeds \cup {AnyFeed}
      BY <3>1
    <3>3. QED
      BY <1>10, <3>2 DEF FeedUnfollowed
  <2>2. Restarts(Without(c))
    BY <1>3, <1>4, <1>10, <2>1 DEF FeedUnfollowed, Restarts
  <2>3. Fetches' /\ fetching' \in BOOLEAN
    BY <1>2, <1>10, <2>1, FetchGoesOn DEF FeedUnfollowed, StartLoad, StartAfresh
  <2>4. QED
    BY <1>10, <2>2, <2>3 DEF FeedUnfollowed, Handled, AnswerStep, Lists, Rest, Types
<1>11. CASE AllRead(c)
  <2>1. Restarts(Without(c)) \/ Passes(Without(c))
    BY <1>2, <1>4, <1>11 DEF AllRead, Restarts, Passes
  <2>2. Fetches' /\ fetching' \in BOOLEAN
    BY <1>2, <1>11, FetchGoesOn DEF AllRead, StartLoad, StartAfresh
  <2>3. QED
    BY <1>11, <2>1, <2>2 DEF AllRead, Handled, AnswerStep, Lists, Rest, Types
<1>12. CASE BookmarkRemoved(c)
  <2>1. Rereads(Without(c)) \/ Passes(Without(c))
    BY <1>12 DEF BookmarkRemoved, Rereads, Passes, flags
  <2>2. Fetches' /\ fetching' \in BOOLEAN
    BY <1>2, <1>12, FetchGoesOn DEF BookmarkRemoved, StartAfresh, flags
  <2>3. QED
    BY <1>12, <2>1, <2>2 DEF BookmarkRemoved, Handled, AnswerStep, Lists, Rest, Types
<1>13. CASE Noted(c)
  <2>1. Passes(Without(c))
    BY <1>13 DEF Noted, Passes, flags
  <2>2. Fetches' /\ fetching' \in BOOLEAN
    BY <1>2, <1>13, FetchGoesOn DEF Noted, flags
  <2>3. QED
    BY <1>13, <2>1, <2>2 DEF Noted, Handled, AnswerStep, Lists, Rest, Types
<1>14. CASE Failed(c)
  <2>1. Fetches' /\ fetching' \in BOOLEAN
    BY <1>14, FetchGoesOn DEF Failed
  <2>2. QED
    BY <1>14, <2>1 DEF Failed, Handled, AnswerStep, Rest, Types
<1>15. CASE FeedCategorized(c)
  <2>1. Passes(Without(c))
    BY <1>4, <1>15 DEF FeedCategorized, Passes, flags
  <2>2. Fetches' /\ fetching' \in BOOLEAN
    BY <1>2, <1>15, FetchGoesOn DEF FeedCategorized, flags
  <2>3. QED
    BY <1>15, <2>1, <2>2 DEF FeedCategorized, Handled, AnswerStep, Lists, Rest, Types
<1>16. QED
  BY <1>1, <1>5, <1>6, <1>7, <1>8, <1>9, <1>10, <1>11, <1>12, <1>13, <1>14, <1>15
-----------------------------------------------------------------------------
(* A list asked for afresh *)

Backed ==
    /\ loading => \E c \in Loads : Takes(c)
    /\ loadingMore => \E c \in Loads : Paged(c) /\ c.off = offset

LEMMA FlagsAre == FlagsAreBacked <=> Backed /\ Fetches
  BY DEF FlagsAreBacked, Backed, Fetches, Loads

\* l will bring the list, from its first page.
Afresh(l) ==
    /\ IsAView(view') /\ l = Posts(view', 0) /\ (Paged(l) => offset' = 0)
    /\ \/ offset' = 0 /\ loadingMore' = FALSE
       \/ UNCHANGED <<offset, loadingMore>>
    /\ hasMore' \in {TRUE, hasMore}
    /\ UNCHANGED <<list, loading>>
    /\ raced' = (Loads # {})
    /\ IsABag(inflight') /\ \A c \in InFlight(inflight') : IsACommand(c)
    /\ Loads' = Loads \cup {l}
    /\ Loads = {} => inflight'[l] = 1

LEMMA StartAfreshIs ==
  ASSUME Types, NEW o, Beside(o), NEW v, IsAView(v), NEW cs, Others(cs),
         StartAfresh(Posts(v, 0), cs, o)
  PROVE  /\ IsABag(inflight') /\ \A c \in InFlight(inflight') : IsACommand(c)
         /\ Loads' = Loads \cup {Posts(v, 0)}
         /\ Loads = {} => inflight'[Posts(v, 0)] = 1
         /\ raced' = (Loads # {})
<1>1. v \in View /\ 0 \in 0 .. MaxPages
  BY ReaderListAssumption DEF IsAView
<1>2. Posts(v, 0).op = "posts" /\ IsACommand(Posts(v, 0))
  BY <1>1, PostsIs
<1> DEFINE all == {Posts(v, 0)} \cup cs
<1>3. (\A c \in all : IsACommand(c)) /\ Start(all, o)
  BY <1>2 DEF Others, StartAfresh
<1>4. {c \in all : c.op = "posts"} = {Posts(v, 0)}
  BY <1>2 DEF Others
<1>5. Loads = {} => Posts(v, 0) \notin InFlight(o)
  BY <1>2 DEF Beside, LoadsIn
<1>6. raced' = (Loads # {})
  BY DEF StartAfresh, Beside
<1>7. Posts(v, 0) \in all
  OBVIOUS
<1> HIDE DEF all
<1>8. QED
  BY <1>3, <1>4, <1>5, <1>6, <1>7, StartIs

LEMMA RestartsAfresh ==
  ASSUME Types, NEW o, Beside(o), Restarts(o)
  PROVE  \E l : Afresh(l)
<1>1. PICK v, cs : IsAView(v) /\ Others(cs) /\ StartLoad(v, cs, o)
  BY DEF Restarts
<1>2. view' = v /\ StartAfresh(Posts(v, 0), cs, o)
  BY <1>1 DEF StartLoad
<1>3. Afresh(Posts(v, 0))
  BY <1>1, <1>2, StartAfreshIs DEF Afresh, StartLoad, Restarts
<1>4. QED
  BY <1>3

LEMMA RereadsAfresh ==
  ASSUME Types, NEW o, Beside(o), Rereads(o)
  PROVE  \E l : Afresh(l)
<1>1. IsAView(view) /\ Others({}) /\ view' = view
  BY DEF Types, IsAView, Others, Rereads
<1>2. StartAfresh(Posts(view, 0), {}, o) /\ ~Paged(Posts(view, 0))
  <2>1. Derived(view) /\ view \in View /\ 0 \in 0 .. MaxPages
    BY ReaderListAssumption DEF Rereads, Derived, Types
  <2>2. QED
    BY <2>1, PostsIs DEF Rereads
<1>3. Afresh(Posts(view, 0))
  BY <1>1, <1>2, StartAfreshIs DEF Afresh, Rereads
<1>4. QED
  BY <1>3

LEMMA SearchesAfresh ==
  ASSUME Types, NEW w \in Words, Searches(w)
  PROVE  \E l : Afresh(l)
<1> DEFINE v == [view EXCEPT !.source = "search", !.word = w]
<1>1. view' = v /\ StartAfresh(Posts(v, 0), {}, inflight)
  BY DEF Searches
<1>2. IsAView(v) /\ v.source = "search"
  <2>1. IsAView(view)
    BY DEF Types, IsAView
  <2>2. v.source = "search"
    BY DEF Types, View
  <2>3. QED
    BY <2>1, <2>2, ReviewIs
<1> HIDE DEF v
<1>3. ~Paged(Posts(v, 0))
  <2>1. Derived(v) /\ v \in View /\ 0 \in 0 .. MaxPages
    BY <1>2, ReaderListAssumption DEF Derived, IsAView
  <2>2. QED
    BY <2>1, PostsIs
<1>4. Others({}) /\ Beside(inflight)
  BY BesideIs DEF Others
<1>5. Afresh(Posts(v, 0))
  BY <1>1, <1>2, <1>3, <1>4, StartAfreshIs DEF Afresh, Searches
<1>6. QED
  BY <1>5

LEMMA AfreshKeeps ==
  ASSUME Types, Backed, Rest, NEW l, Afresh(l)
  PROVE  Types' /\ Backed' /\ ListInv'
<1>1. view' \in View /\ 0 \in 0 .. MaxPages
  BY ReaderListAssumption DEF Afresh, IsAView
<1>2. l.op = "posts" /\ l.q = Question(view') /\ l.off = 0
  BY <1>1, PostsIs DEF Afresh
<1>3. Types'
  BY <1>1 DEF Types, Rest, Afresh, IsAView
<1>4. Backed'
  <2>1. (Paged(l) => l.off = offset') /\ l \in Loads'
    BY <1>2 DEF Afresh
  <2>2. loading' => \E c \in Loads' : Paged(c) => c.off = offset'
    BY <2>1
  <2>3. loadingMore' => \E c \in Loads' : Paged(c) /\ c.off = offset'
    BY DEF Afresh, Backed
  <2>4. QED
    BY <2>2, <2>3 DEF Backed, Takes
<1>5. ListInv'
  <2>1. ~raced' => Loads' = {l} /\ inflight'[l] = 1
    BY DEF Afresh
  <2>2. Completes(l)'
    BY <1>2 DEF Afresh, Completes, Paged
  <2>3. QED
    BY <2>1, <2>2 DEF ListInv
<1>6. QED
  BY <1>3, <1>4, <1>5
-----------------------------------------------------------------------------
(* The other steps *)

\* The loads stay as they are.
SameLoads ==
    /\ IsABag(inflight') /\ \A c \in InFlight(inflight') : IsACommand(c)
    /\ Loads' = Loads
    /\ \A c \in Loads : inflight'[c] = inflight[c]

LEMMA PassesSame ==
  ASSUME Types, NEW o, Beside(o), Passes(o)
  PROVE  SameLoads
<1>1. CASE inflight' = o
  BY <1>1 DEF Beside, SameLoads, Types, Loads
<1>2. ASSUME NEW cs, Others(cs), Start(cs, o)
      PROVE  SameLoads
  <2>1. \A c \in cs : IsACommand(c)
    BY <1>2 DEF Others
  <2>2. /\ IsABag(inflight') /\ \A c \in InFlight(inflight') : IsACommand(c)
        /\ Loads' = Loads \cup {c \in cs : c.op = "posts"}
        /\ \A c \in InFlight(o) : c \notin cs => inflight'[c] = o[c]
    BY <1>2, <2>1, StartIs
  <2>3. Loads' = Loads
    BY <1>2, <2>2 DEF Others
  <2>4. \A c \in Loads : c \in InFlight(o) /\ c \notin cs
    BY <1>2 DEF Beside, LoadsIn, Others
  <2>5. QED
    BY <2>2, <2>3, <2>4 DEF SameLoads, Beside
<1>3. QED
  BY <1>1, <1>2 DEF Passes

LEMMA PassesKeeps ==
  ASSUME Types, Backed, ListInv, Rest, NEW o, Beside(o), Passes(o)
  PROVE  Types' /\ Backed' /\ ListInv'
<1>1. SameLoads
  BY PassesSame
<1>2. UNCHANGED <<view, offset, hasMore, loadingMore, list, loading, raced>>
  BY DEF Passes
<1>3. Types'
  BY <1>1, <1>2 DEF Types, Rest, SameLoads
<1>4. Backed'
  BY <1>1, <1>2 DEF Backed, SameLoads, Takes
<1>5. ListInv'
  <2>1. Whole' = Whole /\ \A c : Completes(c)' = Completes(c)
    BY <1>2 DEF Whole, Completes, Pages
  <2>2. QED
    BY <1>1, <1>2, <2>1 DEF ListInv, SameLoads
<1>6. QED
  BY <1>3, <1>4, <1>5

LEMMA ScrollsKeeps ==
  ASSUME Types, Backed, ListInv, Rest, Scrolls
  PROVE  Types' /\ Backed' /\ ListInv'
<1>0. PICK l : l = Posts(view, offset + 1)
  OBVIOUS
<1>1. offset + 1 \in 0 .. MaxPages /\ view \in View
  BY ReaderListAssumption DEF Types, Scrolls
<1>2. /\ l.op = "posts" /\ l.q = Question(view) /\ l.off = offset + 1
      /\ IsACommand(l) /\ Paged(l)
  BY <1>0, <1>1, PostsIs DEF Scrolls
<1>3. Start({l}, inflight) /\ Beside(inflight)
  BY <1>0, BesideIs DEF Scrolls
<1>4. \A c \in {l} : IsACommand(c)
  BY <1>2
<1>5. /\ IsABag(inflight') /\ \A c \in InFlight(inflight') : IsACommand(c)
      /\ Loads' = Loads \cup {c \in {l} : c.op = "posts"}
      /\ \A c \in {l} : c \notin InFlight(inflight) => inflight'[c] = 1
  BY <1>3, <1>4, StartIs
<1>6. Loads' = Loads \cup {l} /\ (Loads = {} => inflight'[l] = 1)
  BY <1>2, <1>5 DEF Loads, LoadsIn
<1>7. offset' = l.off /\ UNCHANGED <<view, hasMore, list, loading>>
      /\ loadingMore' = TRUE /\ raced' = (raced \/ Loads # {})
  BY <1>2 DEF Scrolls
<1>8. Types'
  BY <1>1, <1>2, <1>5, <1>7 DEF Types, Rest
<1>9. Backed'
  BY <1>2, <1>6, <1>7 DEF Backed, Takes
<1>10. ListInv'
  <2>1. ~raced' => Loads' = {l} /\ inflight'[l] = 1 /\ Whole
    BY <1>6, <1>7 DEF ListInv
  <2>2. Whole => Len(list) = offset + 1
    BY DEF Whole, Types
  <2>3. Whole => Completes(l)'
    BY <1>1, <1>2, <1>7, <2>2 DEF Whole, Completes, Paged, Pages, Types
  <2>4. QED
    BY <2>1, <2>3 DEF ListInv
<1>11. QED
  BY <1>8, <1>9, <1>10

LEMMA CompletesTakes ==
  ASSUME NEW c, Completes(c)
  PROVE  Takes(c)
  BY DEF Completes, Takes

LEMMA Removed ==
  ASSUME Types, NEW c \in InFlight(inflight), inflight' = Without(c)
  PROVE  /\ IsABag(inflight') /\ \A d \in InFlight(inflight') : IsACommand(d)
         /\ Loads' \subseteq Loads /\ Loads \ {c} \subseteq Loads'
         /\ inflight[c] = 1 => c \notin Loads'
         /\ c.op # "posts" => SameLoads
<1>1. /\ IsABag(inflight') /\ InFlight(inflight') \subseteq InFlight(inflight)
      /\ InFlight(inflight) \ {c} \subseteq InFlight(inflight')
      /\ inflight[c] = 1 => c \notin InFlight(inflight')
  BY BagLoses DEF Types, Without, InFlight
<1>2. \A d \in InFlight(inflight') : IsACommand(d)
  BY <1>1 DEF Types
<1>3. /\ Loads' \subseteq Loads /\ Loads \ {c} \subseteq Loads'
      /\ inflight[c] = 1 => c \notin Loads'
  BY <1>1 DEF Loads, LoadsIn
<1>4. c.op # "posts" => SameLoads
  BY <1>1, <1>2, BesideIs DEF Beside, SameLoads, Loads
<1>5. QED
  BY <1>1, <1>2, <1>3, <1>4

LEMMA DroppedKeeps ==
  ASSUME Types, Backed, ListInv, Rest, NEW c, PostsDropped(c)
  PROVE  Types' /\ Backed' /\ ListInv'
<1>1. /\ c \in InFlight(inflight) /\ inflight' = Without(c) /\ ~Takes(c) /\ c \in Loads
      /\ UNCHANGED <<view, offset, hasMore, loadingMore, loading, list, raced>>
  BY DEF PostsDropped, Handled, flags, Loads, LoadsIn
<1>2. Types'
  BY <1>1, Removed DEF Types, Rest
<1>3. Backed'
  <2>1. Loads \ {c} \subseteq Loads'
    BY <1>1, Removed
  <2>2. \A d \in Loads : Takes(d) => d \in Loads' /\ Takes(d)'
    BY <1>1, <2>1 DEF Takes
  <2>3. \A d \in Loads : Paged(d) /\ d.off = offset => d \in Loads'
    BY <1>1, <2>2 DEF Takes
  <2>4. QED
    BY <1>1, <2>2, <2>3 DEF Backed
<1>4. raced
  BY <1>1, CompletesTakes DEF ListInv
<1>5. ListInv'
  BY <1>1, <1>4 DEF ListInv
<1>6. QED
  BY <1>2, <1>3, <1>5

LEMMA FailedKeeps ==
  ASSUME Types, Backed, ListInv, Rest, NEW c, Failed(c)
  PROVE  Types' /\ Backed' /\ ListInv'
<1>1. /\ c \in InFlight(inflight) /\ inflight' = Without(c)
      /\ loadingMore' = FALSE /\ loading' = FALSE
      /\ raced' = (raced \/ c.op = "posts")
      /\ UNCHANGED <<view, offset, hasMore, list>>
  BY DEF Failed, Handled
<1>2. Types'
  BY <1>1, Removed DEF Types, Rest
<1>3. Backed'
  BY <1>1 DEF Backed
<1>4. ListInv'
  <2>1. ~raced' => ~raced /\ SameLoads
    BY <1>1, Removed
  <2>2. Whole' = Whole /\ \A d : Completes(d)' = Completes(d)
    BY <1>1 DEF Whole, Completes, Pages
  <2>3. QED
    BY <2>1, <2>2 DEF ListInv, SameLoads
<1>5. QED
  BY <1>2, <1>3, <1>4

LEMMA TakenKeeps ==
  ASSUME Types, Backed, ListInv, Rest, NEW c, NEW full \in BOOLEAN, PostsTaken(c, full)
  PROVE  Types' /\ Backed' /\ ListInv'
<1> DEFINE page == [q |-> c.q, off |-> c.off, full |-> full]
<1>1. /\ c \in InFlight(inflight) /\ inflight' = Without(c) /\ Takes(c) /\ c \in Loads
      /\ loading' = FALSE /\ loadingMore' = FALSE /\ hasMore' = (Paged(c) /\ full)
      /\ UNCHANGED <<view, raced>>
  BY DEF PostsTaken, Handled, Loads, LoadsIn
<1>2. /\ Paged(c) /\ c.off > 0 => list' = Append(list, page) /\ offset' = offset
      /\ ~(Paged(c) /\ c.off > 0) => list' = <<page>> /\ offset' = 0
  BY DEF PostsTaken
<1>3. c.q \in Questions /\ c.off \in 0 .. MaxPages
  BY <1>1 DEF Types, IsACommand, Loads, LoadsIn
<1>4. page \in Page /\ page.q = c.q /\ page.off = c.off /\ page.full = full
  BY <1>3 DEF Page
<1> HIDE DEF page
<1>5. list' \in Seq(Page) /\ offset' \in 0 .. MaxPages
  <2>1. list \in Seq(Page) /\ offset \in 0 .. MaxPages /\ 0 \in 0 .. MaxPages
    BY ReaderListAssumption DEF Types
  <2>2. Append(list, page) \in Seq(Page) /\ <<page>> \in Seq(Page)
    BY <1>4, <2>1
  <2>3. QED
    BY <1>2, <2>1, <2>2
<1>6. Types'
  BY <1>1, <1>5, Removed DEF Types, Rest
<1>7. Backed'
  BY <1>1 DEF Backed
<1>8. ListInv'
  <2>1. SUFFICES ASSUME ~raced
                 PROVE  Loads' = {} /\ Whole'
    BY <1>1 DEF ListInv
  <2>2. Loads = {c} /\ inflight[c] = 1 /\ Completes(c)
    BY <1>1, <2>1 DEF ListInv
  <2>3. Loads' = {}
    BY <1>1, <2>2, Removed
  <2>4. c.q = Question(view) /\ (Paged(c) <=> ~Derived(view))
    BY <2>2, QuestionIs DEF Completes, Paged, Types
  <2>5. CASE Paged(c) /\ c.off > 0
    <3>1. Len(list) = offset /\ c.off = offset /\ Pages
      BY <2>2, <2>5, <1>3 DEF Completes
    <3>2. list' = Append(list, page) /\ offset' = offset /\ list \in Seq(Page)
      BY <1>2, <2>5 DEF Types
    <3>3. Len(list') = offset + 1 /\ list'[Len(list')] = page /\ list' # << >>
      BY <3>1, <3>2, <1>3
    <3>4. Pages'
      BY <1>1, <1>4, <2>4, <3>1, <3>2 DEF Pages
    <3>5. hasMore' = (~Derived(view) /\ list'[Len(list')].full)
      BY <1>1, <1>4, <2>4, <3>3
    <3>6. QED
      BY <1>1, <1>3, <2>3, <3>1, <3>2, <3>3, <3>4, <3>5 DEF Whole
  <2>6. CASE ~(Paged(c) /\ c.off > 0)
    <3>1. list' = <<page>> /\ offset' = 0
      BY <1>2, <2>6
    <3>2. c.off = 0
      BY <1>3, <2>2, <2>6 DEF Completes
    <3>3. Len(list') = 1 /\ list'[1] = page /\ list' # << >> /\ DOMAIN list' = {1}
      BY <3>1
    <3>4. Pages'
      BY <1>1, <1>4, <2>4, <3>2, <3>3 DEF Pages
    <3>5. hasMore' = (~Derived(view) /\ list'[Len(list')].full)
      BY <1>1, <1>4, <2>4, <3>3
    <3>6. QED
      BY <1>1, <2>3, <3>1, <3>3, <3>4, <3>5 DEF Whole
  <2>7. QED
    BY <2>5, <2>6
<1>9. QED
  BY <1>6, <1>7, <1>8
-----------------------------------------------------------------------------
(* The theorems *)

ListGood == Types /\ Backed /\ Fetches /\ ListInv

LEMMA ListStart == Init => ListGood
<1> SUFFICES ASSUME Init
             PROVE  ListGood
  OBVIOUS
<1>1. IsAView(view) /\ view \in View /\ ~Derived(view) /\ 0 \in 0 .. MaxPages
  BY ReaderListAssumption DEF Init, IsAView, Derived
<1>2. PICK l : l = Posts(view, 0)
  OBVIOUS
<1>3. l.op = "posts" /\ l.q = Question(view) /\ l.off = 0 /\ IsACommand(l) /\ Paged(l)
  BY <1>1, <1>2, PostsIs
<1>4. IsACommand(Plain("feeds")) /\ Plain("feeds").op = "feeds"
  BY PlainIs DEF Ops
<1>5. /\ IsABag(inflight) /\ InFlight(inflight) = {l, Plain("feeds")}
      /\ inflight[l] = 1
  BY <1>2, NewBag DEF Init, InFlight
<1>6. Loads = {l}
  BY <1>3, <1>4, <1>5 DEF Loads, LoadsIn
<1>7. Types
  <2>1. \A c \in InFlight(inflight) : IsACommand(c)
    BY <1>3, <1>4, <1>5
  <2>2. list \in Seq(Page) /\ keys \in 0 .. MaxKeys /\ offset \in 0 .. MaxPages
    BY ReaderListAssumption DEF Init
  <2>3. QED
    BY <1>1, <1>5, <2>1, <2>2 DEF Init, Types, IsAView
<1>8. Backed /\ Fetches
  BY <1>3, <1>6 DEF Init, Backed, Takes, Fetches
<1>9. ListInv
  BY <1>3, <1>5, <1>6 DEF Init, ListInv, Completes
<1>10. QED
  BY <1>7, <1>8, <1>9 DEF ListGood

LEMMA ListNext == ListGood /\ [Next]_vars => ListGood'
<1>1. ASSUME ListGood, Press
      PROVE  ListGood'
  <2>1. Types /\ Backed /\ Fetches /\ ListInv /\ Beside(inflight)
    BY <1>1, BesideIs DEF ListGood
  <2>2. Fetches' /\ Rest
    BY <1>1, <2>1, PressIs
  <2>3. CASE \E l : Afresh(l)
    BY <2>1, <2>2, <2>3, AfreshKeeps DEF ListGood
  <2>4. CASE Scrolls
    BY <2>1, <2>2, <2>4, ScrollsKeeps DEF ListGood
  <2>5. CASE Passes(inflight)
    BY <2>1, <2>2, <2>5, PassesKeeps DEF ListGood
  <2>6. QED
    BY <1>1, <2>1, <2>3, <2>4, <2>5, PressIs, RestartsAfresh, SearchesAfresh
<1>2. ASSUME ListGood, Answer
      PROVE  ListGood'
  <2>1. Types /\ Backed /\ Fetches /\ ListInv
    BY <1>2 DEF ListGood
  <2>2. PICK c \in InFlight(inflight) : AnswerStep(c) /\ Fetches' /\ Rest
    BY <1>2, <2>1, AnswerIs
  <2>3. CASE c.op # "posts" /\ Lists(Without(c))
    <3>1. Beside(Without(c))
      BY <2>1, <2>3, BesideIs
    <3>2. CASE \E l : Afresh(l)
      BY <2>1, <2>2, <3>2, AfreshKeeps DEF ListGood
    <3>3. CASE Passes(Without(c))
      BY <2>1, <2>2, <3>1, <3>3, PassesKeeps DEF ListGood
    <3>4. QED
      BY <2>1, <2>3, <3>1, <3>2, <3>3, RestartsAfresh, RereadsAfresh DEF Lists
  <2>4. CASE PostsDropped(c)
    BY <2>1, <2>2, <2>4, DroppedKeeps DEF ListGood
  <2>5. ASSUME NEW full \in BOOLEAN, PostsTaken(c, full)
        PROVE  ListGood'
    BY <2>1, <2>2, <2>5, TakenKeeps DEF ListGood
  <2>6. CASE Failed(c)
    BY <2>1, <2>2, <2>6, FailedKeeps DEF ListGood
  <2>7. QED
    BY <2>2, <2>3, <2>4, <2>5, <2>6 DEF AnswerStep
<1>3. ASSUME ListGood, UNCHANGED vars
      PROVE  ListGood'
  <2>1. UNCHANGED <<view, offset, hasMore, loadingMore, loading, fetching, list,
                    inflight, follows, keys, raced>>
    BY <1>3 DEF vars, flags
  <2>2. Types' /\ Fetches'
    BY <1>3, <2>1 DEF ListGood, Types, Fetches
  <2>3. Loads' = Loads /\ Backed'
    BY <1>3, <2>1 DEF ListGood, Loads, Backed, Takes
  <2>4. Whole' = Whole /\ \A c : Completes(c)' = Completes(c)
    BY <2>1 DEF Whole, Completes, Pages
  <2>5. ListInv'
    BY <1>3, <2>1, <2>3, <2>4 DEF ListGood, ListInv
  <2>6. QED
    BY <2>2, <2>3, <2>5 DEF ListGood
<1>4. QED
  BY <1>1, <1>2, <1>3 DEF Next

(* Every reachable state of the list is well typed, and its offset and its *)
(* pages within the bound, however keys and answers come.                  *)
THEOREM TypeCorrect == Spec => []TypeOK
<1>1. ListGood => TypeOK
  <2>1. SUFFICES ASSUME Types
                 PROVE  TypeOK
    BY DEF ListGood
  <2>2. \A i \in DOMAIN list : list[i] \in Page
    BY <2>1 DEF Types
  <2>3. \A i \in DOMAIN list : /\ DOMAIN list[i] = {"q", "off", "full"}
                               /\ list[i].off \in 0 .. MaxPages
                               /\ list[i].full \in BOOLEAN
    BY <2>2 DEF Page
  <2>4. \A c \in InFlight(inflight) : c.op \in Ops
    BY <2>1 DEF Types, IsACommand
  <2>5. QED
    BY <2>1, <2>3, <2>4 DEF TypeOK, Types, flags, Ops
<1>2. QED
  BY <1>1, ListStart, ListNext, PTL DEF Spec

(* A spinner turns only while what it stands for is under way: every       *)
(* reload, of whatever list, starts a load whose answer will be taken.     *)
THEOREM SpinnersAreBacked == Spec => []FlagsAreBacked
<1>1. ListGood => FlagsAreBacked
  BY FlagsAre DEF ListGood
<1>2. QED
  BY <1>1, ListStart, ListNext, PTL DEF Spec

(* Once its loads are in, the list is the one asked for last, whole and in *)
(* order, for any number of pages: a load that was alone brings either the *)
(* first page or the page after those in the list.                         *)
THEOREM ListIsTheLastAsked == Spec => []ListIsTheOneAskedFor
<1>1. ListGood => ListIsTheOneAskedFor
  BY DEF ListGood, ListInv, Whole, Pages, Loads, ListIsTheOneAskedFor
<1>2. QED
  BY <1>1, ListStart, ListNext, PTL DEF Spec

=============================================================================
