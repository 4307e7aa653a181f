-------------------------- MODULE ReaderPaneProofs --------------------------
(***************************************************************************)
(* Theorems about the feed pane, for any feeds and folders, any number of  *)
(* keys and any number of commands in flight.                              *)
(*                                                                         *)
(* What the pane shows is right, or something under way will put it right: *)
(* a load, or the answer to a change, which starts one.  A load says what  *)
(* was followed when the store answered it; a change made after that has   *)
(* an answer of its own, and as long as no two loads are in flight         *)
(* together the load it starts is the last to be heard.                    *)
(***************************************************************************)
EXTENDS ReaderPane, FiniteSetTheorems, TLAPS

Questions == {"move", "unfollow"}

IsACommand(c) ==
    /\ c.op \in {"load", "move", "unfollow", "add", "addmany"}
    /\ c.feeds \subseteq Feeds /\ c.folder \in Categories
    /\ c.op = "load" => c = Load

Types ==
    /\ follows \in Follows /\ feeds \in Follows
    /\ picked \subseteq Feeds /\ offered \subseteq Feeds
    /\ IsABag(asked) /\ IsABag(answers)
    /\ \A c \in BagToSet(asked) : IsACommand(c)
    /\ \A a \in BagToSet(answers) :
          /\ IsACommand(a.cmd) /\ a.follows \in Follows
          /\ a.ok \/ lost

RowsInv ==
    \A i \in DOMAIN rows : rows[i].row = "feed" => rows[i].of \in DOMAIN feeds

Loads == {a \in BagToSet(answers) : a.cmd = Load}

\* A load that was not started beside another one is the only one.
OneLoad ==
    /\ BagIn(Load, asked) => asked[Load] = 1 /\ Loads = {}
    /\ \A a, b \in Loads : a = b /\ answers[a] = 1

\* A change the reader has not heard of yet: hearing of it, it loads.
Changing == \E a \in BagToSet(answers) : a.cmd # Load

PaneInv ==
    /\ ~raced => OneLoad
    /\ ~raced /\ ~lost =>
          \/ Changing
          \/ /\ LoadInFlight \/ (feeds = follows /\ rows = Rows(feeds, expanded))
             /\ \A a \in Loads : a.follows = follows

-----------------------------------------------------------------------------
(* The rows *)

LEMMA FollowsIs ==
  ASSUME NEW fs \in Follows
  PROVE  /\ DOMAIN fs \subseteq Feeds /\ IsFiniteSet(DOMAIN fs)
         /\ \A f \in DOMAIN fs : fs[f] \in Categories
<1>1. PICK D \in SUBSET Feeds : fs \in [D -> Categories]
  BY DEF Follows
<1>2. IsFiniteSet(D)
  BY FS_Subset, ReaderPaneAssumption
<1>3. QED
  BY <1>1, <1>2

LEMMA RowIs ==
  ASSUME NEW fs \in Follows, NEW open, NEW r \in RowSet(fs, open)
  PROVE  \/ r.row = "view" /\ r.of \in Nat /\ r = ViewRow(r.of)
         \/ r.row = "folder" /\ r.of \in Categories /\ r = FolderRow(r.of)
         \/ r.row = "feed" /\ r.of \in DOMAIN fs /\ r.of \in Nat /\ r = FeedRow(r.of)
            /\ fs[r.of] \in Categories
<1>1. CASE \E n \in 1 .. 2 : r = ViewRow(n)
  BY <1>1 DEF ViewRow
<1>2. CASE \E f \in DOMAIN fs : r = FolderRow(fs[f])
  BY <1>2, FollowsIs DEF FolderRow
<1>3. CASE \E f \in DOMAIN fs : r = FeedRow(f)
  <2>1. PICK f \in DOMAIN fs : r = FeedRow(f)
    BY <1>3
  <2>2. f \in Nat /\ fs[f] \in Categories
    BY FollowsIs, ReaderPaneAssumption
  <2>3. QED
    BY <2>1, <2>2 DEF FeedRow
<1>4. QED
  BY <1>1, <1>2, <1>3 DEF RowSet

\* The folder a row is in, or is.
In(fs, r) == IF r.row = "feed" THEN fs[r.of] ELSE r.of

LEMMA AboveIs ==
  ASSUME NEW fs, NEW r, NEW q
  PROVE  Above(fs, r, q) <=>
            \/ r.row = "view" /\ (q.row = "view" => r.of < q.of)
            \/ /\ r.row # "view" /\ q.row # "view"
               /\ \/ In(fs, r) # Root /\ (In(fs, q) = Root \/ In(fs, r) < In(fs, q))
                  \/ In(fs, r) = In(fs, q) /\ q.row = "feed"
                     /\ (r.row = "feed" => r.of < q.of)
  BY DEF Above, In

\* No two rows have the same place, and none is above itself.
LEMMA AboveOrders ==
  ASSUME NEW fs \in Follows, NEW open,
         NEW r \in RowSet(fs, open), NEW q \in RowSet(fs, open)
  PROVE  /\ ~Above(fs, r, r)
         /\ r # q => Above(fs, r, q) \/ Above(fs, q, r)
         /\ \A s \in RowSet(fs, open) :
               Above(fs, r, q) /\ Above(fs, q, s) => Above(fs, r, s)
<1> DEFINE Place(x, i) ==
         \/ x.row = "view" /\ x.of \in Nat
         \/ x.row = "folder" /\ x.of = i /\ i \in Categories
         \/ x.row = "feed" /\ x.of \in Nat /\ i \in Categories
<1>1. \A x \in RowSet(fs, open) : Place(x, In(fs, x))
  BY RowIs DEF In
<1>2. \A x, y \in RowSet(fs, open) : x.row = y.row /\ x.of = y.of => x = y
  BY RowIs DEF ViewRow, FolderRow, FeedRow
<1>3. \A i \in Categories : i # Root => i \in Nat
  BY ReaderPaneAssumption DEF Categories
<1>4. ~Above(fs, r, r)
  BY <1>1, <1>3, AboveIs
<1>5. r # q => Above(fs, r, q) \/ Above(fs, q, r)
  BY <1>1, <1>2, <1>3, AboveIs
<1>6. ASSUME NEW s \in RowSet(fs, open), Above(fs, r, q), Above(fs, q, s)
      PROVE  Above(fs, r, s)
  <2>1. CASE r.row = "view"
    BY <1>1, <1>6, <2>1, AboveIs
  <2>2. CASE r.row # "view"
    BY <1>1, <1>3, <1>6, <2>2, AboveIs
  <2>3. QED
    BY <2>1, <2>2
<1>7. QED
  BY <1>4, <1>5, <1>6

LEMMA RowSetIsFinite ==
  ASSUME NEW fs \in Follows, NEW open
  PROVE  IsFiniteSet(RowSet(fs, open))
<1> DEFINE views == {ViewRow(n) : n \in 1 .. 2}
           inFolders == {g \in DOMAIN fs : HasFolders(fs)}
           folders == {FolderRow(fs[f]) : f \in inFolders}
           unfolded == {g \in DOMAIN fs : HasFolders(fs) => fs[g] \in open}
           listed == {FeedRow(f) : f \in unfolded}
<1>1. IsFiniteSet(views)
  <2>1. [n \in 1 .. 2 |-> ViewRow(n)] \in Surjection(1 .. 2, views)
    BY DEF Surjection
  <2>2. IsFiniteSet(1 .. 2)
    <3>1. \A a, b \in Nat : IsFiniteSet(a .. b)
      BY FS_Interval
    <3>2. QED
      BY <3>1
  <2> HIDE DEF views
  <2>3. QED
    BY <2>1, <2>2, FS_Surjection
<1>2. IsFiniteSet(folders)
  <2>1. [f \in inFolders |-> FolderRow(fs[f])] \in Surjection(inFolders, folders)
    BY DEF Surjection
  <2>2. IsFiniteSet(inFolders)
    BY FS_Subset, FollowsIs
  <2>3. QED
    BY <2>1, <2>2, FS_Surjection
<1>3. IsFiniteSet(listed)
  <2>1. [f \in unfolded |-> FeedRow(f)] \in Surjection(unfolded, listed)
    BY DEF Surjection
  <2>2. IsFiniteSet(unfolded)
    BY FS_Subset, FollowsIs
  <2>3. QED
    BY <2>1, <2>2, FS_Surjection
<1> HIDE DEF views, folders, listed
<1>4. IsFiniteSet(views \cup folders \cup listed)
  BY <1>1, <1>2, <1>3, FS_Union
<1>5. QED
  BY <1>4 DEF views, folders, listed, RowSet
\* The pane shows nothing but the rows it should: their places are 1 to how
\* many they are, so every place is taken by one of them.
LEMMA RowsAreListed ==
  ASSUME NEW fs \in Follows, NEW open, NEW i \in DOMAIN Rows(fs, open)
  PROVE  Rows(fs, open)[i] \in RowSet(fs, open)
<1> DEFINE all == RowSet(fs, open)
           n == Cardinality(all)
           above(r) == {q \in all : Above(fs, q, r)}
           place == [r \in all |-> Cardinality(above(r)) + 1]
<1>1. IsFiniteSet(all) /\ n \in Nat
  BY RowSetIsFinite, FS_CardinalityType
<1>2. \A r \in all : IsFiniteSet(above(r)) /\ Cardinality(above(r)) \in Nat
  BY <1>1, FS_Subset, FS_CardinalityType
<1> HIDE DEF all, n, above
<1>3. \A r \in all : place[r] \in 1 .. n
  <2> TAKE r \in all
  <2>1. above(r) \in SUBSET (all \ {r})
    BY AboveOrders DEF above, all
  <2>2. IsFiniteSet(all \ {r}) /\ Cardinality(all \ {r}) = n - 1
    BY <1>1, FS_RemoveElement DEF n
  <2>3. Cardinality(above(r)) <= n - 1
    BY <2>1, <2>2, FS_Subset
  <2>4. QED
    BY <1>1, <1>2, <2>3
<1>4. \A r, q \in all : Above(fs, r, q) => place[r] < place[q]
  <2> SUFFICES ASSUME NEW r \in all, NEW q \in all, Above(fs, r, q)
               PROVE  place[r] < place[q]
    OBVIOUS
  <2>1. above(r) \cup {r} \in SUBSET above(q) /\ r \notin above(r)
    BY AboveOrders DEF above, all
  <2>2. Cardinality(above(r) \cup {r}) = Cardinality(above(r)) + 1
    BY <1>2, <2>1, FS_AddElement
  <2>3. Cardinality(above(r) \cup {r}) <= Cardinality(above(q))
    BY <1>2, <2>1, FS_Subset
  <2>4. QED
    BY <1>2, <2>2, <2>3
<1>5. place \in Injection(all, 1 .. n)
  <2>1. place \in [all -> 1 .. n]
    BY <1>3
  <2>2. \A r, q \in all : place[r] = place[q] => r = q
    <3> SUFFICES ASSUME NEW r \in all, NEW q \in all, r # q
                 PROVE  place[r] # place[q]
      OBVIOUS
    <3>1. Above(fs, r, q) \/ Above(fs, q, r)
      BY AboveOrders DEF all
    <3>2. place[r] < place[q] \/ place[q] < place[r]
      BY <1>4, <3>1
    <3>3. place[r] \in Nat /\ place[q] \in Nat
      BY <1>2
    <3> HIDE DEF place
    <3>4. QED
      BY <3>2, <3>3
  <2> HIDE DEF place
  <2>3. QED
    BY <2>1, <2>2 DEF Injection, IsInjective
<1>6. IsFiniteSet(1 .. n) /\ Cardinality(1 .. n) = n
  BY <1>1, FS_Interval
<1>7. place \in Surjection(all, 1 .. n)
  <2> HIDE DEF place
  <2>1. Cardinality(all) = n
    BY DEF n
  <2>2. QED
    BY <1>5, <1>6, <2>1, FS_Injection
<1>8. i \in 1 .. n
  BY DEF Rows, n, all
<1>9. \E r \in all : place[r] = i
  <2> HIDE DEF place
  <2>1. QED
    BY <1>7, <1>8 DEF Surjection
<1>10. \E r \in all : Cardinality(above(r)) + 1 = i
  BY <1>9
<1>11. Rows(fs, open)[i] = CHOOSE r \in all : Cardinality(above(r)) + 1 = i
  BY <1>8 DEF Rows, n, all, above
<1>12. Rows(fs, open)[i] \in all
  BY <1>10, <1>11
<1>13. QED
  BY <1>12 DEF all

LEMMA FeedRowsAreFollowed ==
  ASSUME NEW fs \in Follows, NEW open, NEW i \in DOMAIN Rows(fs, open),
         Rows(fs, open)[i].row = "feed"
  PROVE  Rows(fs, open)[i].of \in DOMAIN fs
<1>1. Rows(fs, open)[i] \in RowSet(fs, open)
  BY RowsAreListed
<1>2. QED
  BY <1>1, RowIs
LEMMA RebuiltRows ==
  ASSUME NEW fs \in Follows, NEW open, feeds' = fs, rows' = Rows(fs, open)
  PROVE  RowsInv'
  BY FeedRowsAreFollowed DEF RowsInv

-----------------------------------------------------------------------------
(* Bags *)

LEMMA BagGains ==
  ASSUME NEW B, IsABag(B), NEW e
  PROVE  /\ IsABag(B (+) SetToBag({e}))
         /\ BagToSet(B (+) SetToBag({e})) = BagToSet(B) \cup {e}
         /\ \A x \in BagToSet(B) : x # e => (B (+) SetToBag({e}))[x] = B[x]
         /\ e \notin BagToSet(B) => (B (+) SetToBag({e}))[e] = 1
  BY DEF IsABag, BagToSet, SetToBag, (+)

LEMMA BagLoses ==
  ASSUME NEW B, IsABag(B), NEW e
  PROVE  /\ IsABag(B (-) SetToBag({e}))
         /\ BagToSet(B (-) SetToBag({e})) \subseteq BagToSet(B)
         /\ BagToSet(B) \ {e} \subseteq BagToSet(B (-) SetToBag({e}))
         /\ \A x \in BagToSet(B) : x # e => (B (-) SetToBag({e}))[x] = B[x]
         /\ e \in BagToSet(B) /\ B[e] = 1 => e \notin BagToSet(B (-) SetToBag({e}))
  BY DEF IsABag, BagToSet, SetToBag, (-)

LEMMA OneOfEach ==
  /\ IsABag(EmptyBag) /\ BagToSet(EmptyBag) = {}
  /\ \A e : IsABag(SetToBag({e})) /\ BagToSet(SetToBag({e})) = {e}
            /\ SetToBag({e})[e] = 1
  BY DEF IsABag, BagToSet, SetToBag, EmptyBag

-----------------------------------------------------------------------------
(* What a key does, as far as the feeds and the commands go. *)

KeepsRows ==
    \/ UNCHANGED <<rows, expanded>>
    \/ rows' = Rows(feeds, expanded')

AsksNothing == UNCHANGED asked

AsksFor(c) == Ask(c) /\ IsACommand(c) /\ c # Load

KeyStep ==
    /\ UNCHANGED <<follows, feeds, loaded, answers, raced, lost>>
    /\ AsksNothing \/ \E c : AsksFor(c)
    /\ KeepsRows
    /\ filter' \in {filter, SelectedFeed}
    /\ picked' \subseteq Feeds /\ offered' \subseteq Feeds

LEMMA SelectedFeedIs ==
  ASSUME Types, RowsInv
  PROVE  /\ Selected.row = "feed" => Selected.of \in DOMAIN feeds
         /\ SelectedFeed \in DOMAIN feeds \cup {AnyFeed}
         /\ DOMAIN feeds \subseteq Feeds
<1>1. Selected.row = "feed" => cursor \in DOMAIN rows /\ Selected = rows[cursor]
  BY DEF Selected
<1>2. Selected.row = "feed" => Selected.of \in DOMAIN feeds
  BY <1>1 DEF RowsInv
<1>3. QED
  BY <1>2, FollowsIs DEF SelectedFeed, Types

LEMMA CommandIs ==
  ASSUME NEW op \in {"move", "unfollow", "add", "addmany"}, NEW fs \in SUBSET Feeds,
         NEW n \in Categories, Ask(Command(op, fs, n))
  PROVE  \E c : AsksFor(c)
<1>1. IsACommand(Command(op, fs, n)) /\ Command(op, fs, n) # Load
  BY DEF IsACommand, Command, Load
<1>2. QED
  BY <1>1 DEF AsksFor

LEMMA PressIs ==
  ASSUME Types, RowsInv, Press
  PROVE  KeyStep
<1>1. picked \subseteq Feeds /\ offered \subseteq Feeds
  BY DEF Types
<1>2. ASSUME ToggleFolder \/ (\E i : Move(i) \/ OpenFolder(i))
             \/ (\E b : RefoldAll(b) \/ StepFolder(b)) \/ SelectFeed
      PROVE  KeyStep
  BY <1>1, <1>2 DEF KeyStep, ToggleFolder, Move, OpenFolder, RefoldAll, StepFolder,
     SelectFeed, Key, Stay, Refold, KeepsRows, AsksNothing
<1>3. ASSUME Catalog \/ (\E question : AskAbout(question) \/ Cancel(question))
             \/ (\E fs : Pick(fs))
      PROVE  KeyStep
  BY <1>1, <1>3 DEF KeyStep, Catalog, OpenCatalog, AskAbout, Cancel, Pick, Key, Stay,
     KeepsRows, AsksNothing
<1>4. ASSUME NEW question \in Questions, NEW n \in Categories, Confirm(question, n)
      PROVE  KeyStep
  <2>1. AsksNothing \/ \E c : AsksFor(c)
    <3>1. CASE Selected.row = "feed"
      <4>1. {Selected.of} \in SUBSET Feeds
        BY <3>1, SelectedFeedIs
      <4>2. Ask(Command(question, {Selected.of}, n))
        BY <1>4, <3>1 DEF Confirm
      <4>3. QED
        BY <4>1, <4>2, CommandIs DEF Questions
    <3>2. CASE Selected.row # "feed"
      BY <1>4, <3>2 DEF Confirm, AsksNothing
    <3>3. QED
      BY <3>1, <3>2
  <2>2. QED
    BY <1>1, <1>4, <2>1 DEF KeyStep, Confirm, Key, KeepsRows
<1>5. ASSUME ConfirmCatalog
      PROVE  KeyStep
  <2>1. \E c : AsksFor(c)
    BY <1>1, <1>5, CommandIs DEF ConfirmCatalog, Categories
  <2>2. QED
    BY <1>1, <1>5, <2>1 DEF KeyStep, ConfirmCatalog, Key, KeepsRows
<1>6. ASSUME NEW f \in Feeds, AddFeed(f)
      PROVE  KeyStep
  <2>1. \E c : AsksFor(c)
    BY <1>6, CommandIs DEF AddFeed, Categories
  <2>2. QED
    BY <1>1, <1>6, <2>1 DEF KeyStep, AddFeed, Key, KeepsRows
<1>7. QED
  BY <1>2, <1>3, <1>4, <1>5, <1>6 DEF Press, Questions, Categories
-----------------------------------------------------------------------------
(* What the store does *)

\* The command becomes its answer; a load says what is followed now.
ServeStep(c, a) ==
    /\ c \in BagToSet(asked) /\ a.cmd = c /\ Leave(c, a)
    /\ a.follows \in Follows /\ follows' \in Follows
    /\ a.ok \/ lost'
    /\ lost => lost'
    /\ c = Load /\ ~lost' => a.follows = follows /\ follows' = follows

LEMMA NothingIsFollowed ==
  << >> \in Follows
<1>1. << >> \in [{} -> Categories]
  OBVIOUS
<1>2. {} \in SUBSET Feeds
  OBVIOUS
<1>3. QED
  BY <1>1, <1>2 DEF Follows

LEMMA AddingFollows ==
  ASSUME follows \in Follows, NEW fs \in SUBSET Feeds, NEW filed \in SUBSET fs
  PROVE  Adding(fs, filed) \in Follows
<1>1. PICK D \in SUBSET Feeds : follows \in [D -> Categories]
  BY DEF Follows
<1>2. \A f \in filed : CategoryOf[f] \in Categories
  BY ReaderPaneAssumption DEF Categories
<1>3. Adding(fs, filed) \in [D \cup fs -> Categories]
  BY <1>1, <1>2 DEF Adding, Categories
<1>4. D \cup fs \in SUBSET Feeds
  OBVIOUS
<1> HIDE DEF Adding
<1>5. QED
  BY <1>3, <1>4 DEF Follows

\* Whatever a command does, the store is left with feeds in folders.
LEMMA OutcomesAreFollows ==
  ASSUME Types, NEW c, IsACommand(c), NEW fs \in Outcomes(c)
  PROVE  fs \in Follows /\ (c = Load => fs = follows)
<1>1. c.feeds \subseteq Feeds /\ c.folder \in Categories /\ follows \in Follows
  BY DEF Types, IsACommand
<1>2. PICK D \in SUBSET Feeds : follows \in [D -> Categories]
  BY <1>1 DEF Follows
<1>3. \A E \in SUBSET Feeds : [E -> Categories] \subseteq Follows
  BY DEF Follows
<1>4. c = Load => c.op = "load"
  BY DEF Load
<1>5. CASE c.op = "load"
  BY <1>1, <1>5 DEF Outcomes
<1>6. CASE c.op = "unfollow"
  <2>1. fs = [f \in D \ c.feeds |-> follows[f]]
    BY <1>2, <1>6 DEF Outcomes
  <2>2. fs \in [D \ c.feeds -> Categories] /\ D \ c.feeds \in SUBSET Feeds
    BY <1>2, <2>1
  <2>3. QED
    BY <1>3, <1>4, <1>6, <2>2
<1>7. CASE c.op = "move"
  <2>1. PICK f \in D : fs = [follows EXCEPT ![f] = c.folder]
    BY <1>2, <1>7 DEF Outcomes
  <2>2. fs \in [D -> Categories]
    BY <1>1, <1>2, <2>1
  <2>3. QED
    BY <1>3, <1>4, <1>7, <2>2
<1>8. CASE c.op = "add"
  <2>1. fs = Adding(c.feeds, {})
    BY <1>8 DEF Outcomes
  <2>2. QED
    BY <1>1, <1>4, <1>8, <2>1, AddingFollows
<1>9. CASE c.op = "addmany"
  <2>1. PICK some \in SUBSET c.feeds : \E filed \in SUBSET some : fs = Adding(some, filed)
    BY <1>9 DEF Outcomes
  <2>2. PICK filed \in SUBSET some : fs = Adding(some, filed)
    BY <2>1
  <2>3. some \in SUBSET Feeds
    BY <1>1
  <2>4. QED
    BY <1>1, <1>4, <1>9, <2>2, <2>3, AddingFollows
<1>10. QED
  BY <1>5, <1>6, <1>7, <1>8, <1>9 DEF IsACommand

LEMMA ServeIs ==
  ASSUME Types, Serve
  PROVE  \E c, a : ServeStep(c, a)
<1>1. PICK c \in BagToSet(asked) : Carry(c) \/ Fail(c)
  BY DEF Serve
<1>2. IsACommand(c) /\ follows \in Follows
  BY DEF Types
<1>3. CASE Fail(c)
  <2> DEFINE a == Answered(c, FALSE, << >>)
  <2>1. a.cmd = c /\ a.follows \in Follows
    BY NothingIsFollowed DEF Answered
  <2>2. Leave(c, a) /\ follows' \in Follows /\ lost' = TRUE
    BY <1>2, <1>3, OutcomesAreFollows DEF Fail
  <2> HIDE DEF a
  <2>3. ServeStep(c, a)
    BY <1>1, <2>1, <2>2 DEF ServeStep
  <2>4. QED
    BY <2>3
<1>4. CASE Carry(c)
  <2> DEFINE a == Answered(c, TRUE, IF c.op = "load" THEN follows ELSE << >>)
  <2>1. a.cmd = c /\ a.ok /\ a.follows \in Follows
    BY <1>2, NothingIsFollowed DEF Answered
  <2>2. c = Load => a.follows = follows
    BY DEF Answered, Load
  <2>3. Leave(c, a) /\ lost' = lost
    BY <1>4 DEF Carry
  <2>4. follows' \in Follows /\ (c = Load => follows' = follows)
    BY <1>2, <1>4, OutcomesAreFollows DEF Carry
  <2> HIDE DEF a
  <2>5. ServeStep(c, a)
    BY <1>1, <2>1, <2>2, <2>3, <2>4 DEF ServeStep
  <2>6. QED
    BY <2>5
<1>5. QED
  BY <1>1, <1>3, <1>4

-----------------------------------------------------------------------------
(* What an answer does *)

\* The reader hears of a change, and loads.
ChangeHeard(a) ==
    /\ Handled(a) /\ a.cmd # Load
    /\ Reload
    /\ UNCHANGED <<feeds, loaded, rows, picked, offered>>
    /\ filter' \in {filter, AnyFeed}

LoadHeard(a) ==
    /\ Handled(a) /\ a.cmd = Load
    /\ feeds' = a.follows
    /\ UNCHANGED <<expanded, asked, raced>>
    /\ rows' = Rows(feeds', expanded')
    /\ filter' = IF filter \in DOMAIN feeds' THEN filter ELSE AnyFeed
    /\ picked' \subseteq Feeds /\ offered' \subseteq Feeds

FailureHeard(a) ==
    /\ Handled(a) /\ ~a.ok
    /\ UNCHANGED <<pane, picked, offered, asked, raced>>

LEMMA AnswerIs ==
  ASSUME Types, Answer
  PROVE  \E a : ChangeHeard(a) \/ LoadHeard(a) \/ FailureHeard(a)
<1>1. PICK a \in BagToSet(answers) :
          FeedsLoaded(a) \/ Unfollowed(a) \/ Moved(a) \/ Added(a) \/ Failed(a)
  BY DEF Answer
<1>2. a.cmd.op = "load" <=> a.cmd = Load
  <2>1. IsACommand(a.cmd)
    BY DEF Types
  <2>2. Load.op = "load"
    BY DEF Load
  <2>3. QED
    BY <2>1, <2>2 DEF IsACommand
<1>3. CASE FeedsLoaded(a)
  <2>1. picked' \subseteq Feeds /\ offered' \subseteq Feeds
    BY <1>3 DEF FeedsLoaded, OpenCatalog, Types
  <2>2. LoadHeard(a)
    BY <1>2, <1>3, <2>1 DEF FeedsLoaded, LoadHeard, SelectStoredFeed
  <2>3. QED
    BY <2>2
<1>4. CASE Unfollowed(a)
  BY <1>2, <1>4 DEF Unfollowed, ChangeHeard
<1>5. CASE Moved(a)
  BY <1>2, <1>5 DEF Moved, ChangeHeard
<1>6. CASE Added(a)
  BY <1>2, <1>6 DEF Added, ChangeHeard, pane
<1>7. CASE Failed(a)
  BY <1>7 DEF Failed, FailureHeard
<1>8. QED
  BY <1>1, <1>3, <1>4, <1>5, <1>6, <1>7

-----------------------------------------------------------------------------
(* Types, and the rows of feeds *)

Good == Types /\ RowsInv /\ FilterIsInThePane

LEMMA GoodInit ==
  ASSUME Init
  PROVE  Good
<1>1. Types
  <2>1. IsACommand(Load)
    BY DEF IsACommand, Load, Categories
  <2>2. QED
    BY <2>1, OneOfEach, NothingIsFollowed DEF Init, Types
<1>2. RowsInv
  <2>1. feeds \in Follows /\ rows = Rows(feeds, {})
    BY NothingIsFollowed DEF Init
  <2>2. QED
    BY <2>1, FeedRowsAreFollowed DEF RowsInv
<1>3. FilterIsInThePane
  BY DEF Init, FilterIsInThePane
<1>4. QED
  BY <1>1, <1>2, <1>3 DEF Good

LEMMA AskAdds ==
  ASSUME Types, NEW c, Ask(c), IsACommand(c)
  PROVE  /\ IsABag(asked') /\ BagToSet(asked') = BagToSet(asked) \cup {c}
         /\ \A d \in BagToSet(asked') : IsACommand(d)
<1>1. IsABag(asked') /\ BagToSet(asked') = BagToSet(asked) \cup {c}
  BY BagGains DEF Types, Ask
<1>2. \A d \in BagToSet(asked) : IsACommand(d)
  BY DEF Types
<1>3. QED
  BY <1>1, <1>2

LEMMA HandledTakes ==
  ASSUME Types, NEW a, Handled(a)
  PROVE  /\ a \in BagToSet(answers) /\ IsABag(answers')
         /\ BagToSet(answers') \subseteq BagToSet(answers)
         /\ BagToSet(answers) \ {a} \subseteq BagToSet(answers')
  BY BagLoses DEF Types, Handled

LEMMA GoodPress ==
  ASSUME Good, KeyStep
  PROVE  Good'
<1>1. Types /\ RowsInv /\ FilterIsInThePane
  BY DEF Good
<1>2. Types'
  <2>1. IsABag(asked') /\ \A c \in BagToSet(asked') : IsACommand(c)
    <3>1. CASE AsksNothing
      BY <1>1, <3>1 DEF AsksNothing, Types
    <3>2. CASE \E c : AsksFor(c)
      BY <1>1, <3>2, AskAdds DEF AsksFor
    <3>3. QED
      BY <3>1, <3>2 DEF KeyStep
  <2>2. QED
    BY <1>1, <2>1 DEF KeyStep, Types
<1>3. RowsInv'
  <2>1. feeds' = feeds /\ feeds \in Follows
    BY <1>1 DEF KeyStep, Types
  <2>2. CASE UNCHANGED <<rows, expanded>>
    BY <1>1, <2>1, <2>2 DEF RowsInv
  <2>3. CASE rows' = Rows(feeds, expanded')
    BY <2>1, <2>3, RebuiltRows
  <2>4. QED
    BY <2>2, <2>3 DEF KeyStep, KeepsRows
<1>4. FilterIsInThePane'
  BY <1>1, SelectedFeedIs DEF KeyStep, FilterIsInThePane
<1>5. QED
  BY <1>2, <1>3, <1>4 DEF Good

LEMMA GoodServe ==
  ASSUME Good, NEW c, NEW a, ServeStep(c, a)
  PROVE  Good'
<1>1. Types /\ RowsInv /\ FilterIsInThePane
  BY DEF Good
<1>2. /\ IsABag(asked') /\ BagToSet(asked') \subseteq BagToSet(asked)
      /\ IsABag(answers') /\ BagToSet(answers') = BagToSet(answers) \cup {a}
  BY <1>1, BagGains, BagLoses DEF Types, ServeStep, Leave
<1>3. Types'
  BY <1>1, <1>2 DEF Types, ServeStep, Leave, pane, screen
<1>4. RowsInv' /\ FilterIsInThePane'
  BY <1>1 DEF RowsInv, FilterIsInThePane, ServeStep, Leave, pane
<1>5. QED
  BY <1>3, <1>4 DEF Good

LEMMA GoodAnswer ==
  ASSUME Good, NEW a, ChangeHeard(a) \/ LoadHeard(a) \/ FailureHeard(a)
  PROVE  Good'
<1>1. Types /\ RowsInv /\ FilterIsInThePane
  BY DEF Good
<1>2. /\ a \in BagToSet(answers) /\ IsABag(answers')
      /\ BagToSet(answers') \subseteq BagToSet(answers)
      /\ UNCHANGED <<follows, lost>>
  BY <1>1, HandledTakes DEF ChangeHeard, LoadHeard, FailureHeard, Handled
<1>3. CASE ChangeHeard(a)
  <2>1. IsACommand(Load) /\ Ask(Load)
    BY <1>3 DEF IsACommand, Load, Categories, ChangeHeard, Reload
  <2>2. IsABag(asked') /\ \A d \in BagToSet(asked') : IsACommand(d)
    BY <1>1, <2>1, AskAdds
  <2>3. Types'
    BY <1>1, <1>2, <1>3, <2>2 DEF Types, ChangeHeard
  <2>4. RowsInv' /\ FilterIsInThePane'
    BY <1>1, <1>3 DEF RowsInv, FilterIsInThePane, ChangeHeard
  <2>5. QED
    BY <2>3, <2>4 DEF Good
<1>4. CASE LoadHeard(a)
  <2>1. a.follows \in Follows
    BY <1>1, <1>2 DEF Types
  <2>2. Types'
    BY <1>1, <1>2, <1>4, <2>1 DEF Types, LoadHeard
  <2>3. RowsInv'
    BY <1>4, <2>1, RebuiltRows DEF LoadHeard
  <2>4. FilterIsInThePane'
    BY <1>4 DEF FilterIsInThePane, LoadHeard
  <2>5. QED
    BY <2>2, <2>3, <2>4 DEF Good
<1>5. CASE FailureHeard(a)
  <2>1. Types'
    BY <1>1, <1>2, <1>5 DEF Types, FailureHeard, pane
  <2>2. RowsInv' /\ FilterIsInThePane'
    BY <1>1, <1>5 DEF RowsInv, FilterIsInThePane, FailureHeard, pane
  <2>3. QED
    BY <2>1, <2>2 DEF Good
<1>6. QED
  BY <1>3, <1>4, <1>5
-----------------------------------------------------------------------------
(* The pane follows the store *)

\* The pane is right, or what will put it right is under way.
Mended ==
    \/ Changing
    \/ /\ LoadInFlight \/ (feeds = follows /\ rows = Rows(feeds, expanded))
       /\ \A a \in Loads : a.follows = follows

LEMMA PaneInvIs ==
  PaneInv <=> (~raced => OneLoad) /\ (~raced /\ ~lost => Mended)
  BY DEF PaneInv, Mended

LEMMA LoadInFlightIs ==
  LoadInFlight <=> Load \in BagToSet(asked) \/ Loads # {}
  BY DEF LoadInFlight, Loads, BagIn

LEMMA PaneInit ==
  ASSUME Init
  PROVE  PaneInv
<1>1. BagToSet(asked) = {Load} /\ asked[Load] = 1 /\ BagToSet(answers) = {}
  BY OneOfEach DEF Init
<1>2. Loads = {}
  BY <1>1 DEF Loads
<1>3. OneLoad
  BY <1>1, <1>2 DEF OneLoad
<1>4. Mended
  BY <1>1, <1>2, LoadInFlightIs DEF Mended
<1>5. QED
  BY <1>3, <1>4, PaneInvIs

LEMMA PanePress ==
  ASSUME Types, PaneInv, KeyStep
  PROVE  PaneInv'
<1>1. /\ Load \in BagToSet(asked') <=> Load \in BagToSet(asked)
      /\ Load \in BagToSet(asked) => asked'[Load] = asked[Load]
  <2>1. CASE AsksNothing
    BY <2>1 DEF AsksNothing
  <2>2. CASE \E c : AsksFor(c)
    <3>1. PICK c : AsksFor(c)
      BY <2>2
    <3>2. asked' = asked (+) SetToBag({c}) /\ c # Load /\ IsABag(asked)
      BY <3>1 DEF AsksFor, Ask, Types
    <3>3. BagToSet(asked') = BagToSet(asked) \cup {c}
      BY <3>2, BagGains
    <3>4. Load \in BagToSet(asked) => asked'[Load] = asked[Load]
      BY <3>2, BagGains
    <3>5. QED
      BY <3>2, <3>3, <3>4
  <2>3. QED
    BY <2>1, <2>2 DEF KeyStep
<1>2. UNCHANGED <<follows, feeds, answers, raced, lost>>
  BY DEF KeyStep
<1>3. Loads' = Loads /\ (LoadInFlight' <=> LoadInFlight) /\ (Changing' <=> Changing)
  BY <1>1, <1>2 DEF Loads, LoadInFlight, BagIn, Changing
<1>4. OneLoad => OneLoad'
  BY <1>1, <1>2, <1>3 DEF OneLoad, BagIn
<1>5. Mended => Mended'
  <2>1. rows = Rows(feeds, expanded) => rows' = Rows(feeds', expanded')
    BY <1>2 DEF KeyStep, KeepsRows
  <2>2. QED
    BY <1>2, <1>3, <2>1 DEF Mended
<1>6. QED
  BY <1>2, <1>4, <1>5, PaneInvIs, PaneInvIs' DEF PaneInv, Mended

LEMMA PaneServe ==
  ASSUME Types, PaneInv, NEW c, NEW a, ServeStep(c, a)
  PROVE  PaneInv'
<1>1. /\ c \in BagToSet(asked) /\ a.cmd = c
      /\ asked' = asked (-) SetToBag({c}) /\ answers' = answers (+) SetToBag({a})
      /\ UNCHANGED <<feeds, rows, expanded, raced>>
      /\ IsABag(asked) /\ IsABag(answers)
  BY DEF ServeStep, Leave, pane, Types
<1>2. /\ BagToSet(answers') = BagToSet(answers) \cup {a}
      /\ \A b \in BagToSet(answers) : b # a => answers'[b] = answers[b]
      /\ a \notin BagToSet(answers) => answers'[a] = 1
  BY <1>1, BagGains
<1>3. CASE c = Load
  <2>1. Loads' = Loads \cup {a}
    BY <1>1, <1>2, <1>3 DEF Loads
  <2>2. OneLoad => OneLoad' /\ Loads' = {a}
    <3>1. SUFFICES ASSUME OneLoad
                   PROVE  OneLoad' /\ Loads' = {a}
      OBVIOUS
    <3>2. asked[Load] = 1 /\ Loads = {}
      BY <1>1, <1>3, <3>1 DEF OneLoad, BagIn
    <3>3. Load \notin BagToSet(asked')
      BY <1>1, <1>3, <3>2, BagLoses
    <3>4. a \notin BagToSet(answers)
      BY <1>1, <1>3, <3>2 DEF Loads
    <3>5. QED
      BY <1>2, <2>1, <3>2, <3>3, <3>4 DEF OneLoad, BagIn
  <2>3. ~lost' => ~lost /\ a.follows = follows'
    BY <1>3 DEF ServeStep
  <2>4. OneLoad /\ ~lost' => Mended'
    <3>1. Loads' = {a} => LoadInFlight'
      BY <1>2, <2>1 DEF LoadInFlight, Loads
    <3>2. QED
      BY <2>2, <2>3, <3>1 DEF Mended
  <2>5. QED
    BY <1>1, <2>2, <2>4, PaneInvIs DEF PaneInv, Mended
<1>4. CASE c # Load
  <2>1. Loads' = Loads
    BY <1>1, <1>2, <1>4 DEF Loads
  <2>2. /\ Load \in BagToSet(asked') <=> Load \in BagToSet(asked)
        /\ Load \in BagToSet(asked) => asked'[Load] = asked[Load]
    BY <1>1, <1>4, BagLoses
  <2>3. \A b \in Loads : b # a
    BY <1>1, <1>4 DEF Loads
  <2>4. OneLoad => OneLoad'
    BY <1>2, <2>1, <2>2, <2>3 DEF OneLoad, BagIn, Loads
  <2>5. Changing'
    BY <1>1, <1>2, <1>4 DEF Changing
  <2>6. QED
    BY <1>1, <2>4, <2>5 DEF PaneInv
<1>5. QED
  BY <1>3, <1>4

LEMMA PaneAnswer ==
  ASSUME Types, PaneInv, NEW a, ChangeHeard(a) \/ LoadHeard(a) \/ FailureHeard(a)
  PROVE  PaneInv'
<1>1. /\ a \in BagToSet(answers) /\ answers' = answers (-) SetToBag({a})
      /\ UNCHANGED <<follows, lost>>
      /\ IsABag(asked) /\ IsABag(answers)
  BY DEF ChangeHeard, LoadHeard, FailureHeard, Handled, Types
<1>2. /\ BagToSet(answers') \subseteq BagToSet(answers)
      /\ BagToSet(answers) \ {a} \subseteq BagToSet(answers')
      /\ \A b \in BagToSet(answers) : b # a => answers'[b] = answers[b]
      /\ answers[a] = 1 => a \notin BagToSet(answers')
  BY <1>1, BagLoses
<1>3. Loads' \subseteq Loads
  BY <1>2 DEF Loads
<1>4. \A b \in Loads : answers[b] = 1 => b \notin Loads' \/ answers'[b] = 1
  BY <1>2 DEF Loads
<1>5. ASSUME asked' = asked
      PROVE  OneLoad => OneLoad'
  <2>1. \A b \in Loads' : b \in Loads
    BY <1>3
  <2>2. OneLoad => Loads' = {} \/ ~BagIn(Load, asked)
    BY <1>3 DEF OneLoad
  <2>3. QED
    BY <1>4, <1>5, <2>1, <2>2 DEF OneLoad, BagIn
<1>6. CASE ChangeHeard(a)
  <2>1. asked' = asked (+) SetToBag({Load}) /\ (~raced' => ~raced /\ ~LoadInFlight)
    BY <1>6 DEF ChangeHeard, Reload, Ask
  <2>2. ~raced' => Loads = {} /\ Load \notin BagToSet(asked)
    BY <2>1, LoadInFlightIs
  <2>3. Load \in BagToSet(asked') /\ (Load \notin BagToSet(asked) => asked'[Load] = 1)
    BY <1>1, <2>1, BagGains
  <2>4. ~raced' => OneLoad' /\ Loads' = {}
    BY <1>3, <2>2, <2>3 DEF OneLoad
  <2>5. ~raced' => Mended'
    BY <2>3, <2>4 DEF Mended, LoadInFlight, BagIn
  <2>6. QED
    BY <2>4, <2>5 DEF PaneInv, Mended
<1>7. CASE LoadHeard(a)
  <2>1. a \in Loads /\ UNCHANGED <<asked, raced>>
    BY <1>1, <1>7 DEF LoadHeard, Loads
  <2>2. OneLoad => Loads' = {}
    <3>1. OneLoad => answers[a] = 1 /\ \A b \in Loads : b = a
      BY <2>1 DEF OneLoad
    <3>2. answers[a] = 1 => a \notin Loads'
      BY <1>2 DEF Loads
    <3>3. QED
      BY <1>3, <3>1, <3>2
  <2>3. Changing => Changing'
    BY <1>2, <2>1 DEF Changing, Loads
  <2>4. ~Changing /\ Mended /\ OneLoad => Mended'
    <3>1. ~Changing /\ Mended => feeds' = follows' /\ rows' = Rows(feeds', expanded')
      BY <1>1, <1>7, <2>1 DEF Mended, LoadHeard
    <3>2. QED
      BY <2>2, <3>1 DEF Mended
  <2>5. Mended /\ OneLoad => Mended'
    BY <2>3, <2>4 DEF Mended
  <2>6. QED
    BY <1>1, <1>5, <2>1, <2>5, PaneInvIs DEF PaneInv, Mended
<1>8. CASE FailureHeard(a)
  <2>1. lost
    BY <1>1, <1>8 DEF FailureHeard, Types
  <2>2. UNCHANGED <<asked, raced>>
    BY <1>8 DEF FailureHeard
  <2>3. QED
    BY <1>1, <1>5, <2>1, <2>2 DEF PaneInv
<1>9. QED
  BY <1>6, <1>7, <1>8
-----------------------------------------------------------------------------
(* The theorems *)

LEMMA StepIs ==
  ASSUME Good, Next
  PROVE  \/ Press /\ KeyStep
         \/ \E c, a : ServeStep(c, a)
         \/ \E a : ChangeHeard(a) \/ LoadHeard(a) \/ FailureHeard(a)
  BY PressIs, ServeIs, AnswerIs DEF Good, Next

LEMMA Unmoved ==
  ASSUME UNCHANGED vars
  PROVE  /\ Good => Good'
         /\ PaneInv => PaneInv'
         /\ QuestionOutlivesLoads => QuestionOutlivesLoads'
<1>1. UNCHANGED <<follows, feeds, loaded, expanded, rows, cursor, filter, mode, about,
                  picked, offered, asked, answers, raced, lost>>
  BY DEF vars, pane, screen, history
<1>2. Good => Good'
  BY <1>1 DEF Good, Types, RowsInv, FilterIsInThePane
<1>3. PaneInv => PaneInv'
  BY <1>1 DEF PaneInv, OneLoad, Changing, Loads, LoadInFlight, BagIn
<1>4. QuestionOutlivesLoads => QuestionOutlivesLoads'
  BY <1>1 DEF QuestionOutlivesLoads, SelectedFeed, Selected
<1>5. QED
  BY <1>2, <1>3, <1>4

LEMMA GoodStep == Good /\ [Next]_vars => Good'
<1>1. ASSUME Good, Next
      PROVE  Good'
  BY <1>1, StepIs, GoodPress, GoodServe, GoodAnswer
<1>2. QED
  BY <1>1, Unmoved

LEMMA PaneStep == Good /\ PaneInv /\ [Next]_vars => PaneInv'
<1>1. ASSUME Good, PaneInv, Next
      PROVE  PaneInv'
  BY <1>1, StepIs, PanePress, PaneServe, PaneAnswer DEF Good
<1>2. QED
  BY <1>1, Unmoved

(* Wherever a key has put it, the filter is on a feed of the pane: the     *)
(* rows of feeds are those of the feeds loaded last, and a load that drops *)
(* the feed of the filter drops the filter.                                *)
THEOREM TheFilterCanBeLeft == Spec => []FilterIsInThePane
<1>1. Good => FilterIsInThePane
  BY DEF Good
<1>2. QED
  BY <1>1, GoodInit, GoodStep, PTL DEF Spec

(* Once everything is answered the pane shows what the store has: until    *)
(* then a load is under way, or the answer to a change that starts one.    *)
THEOREM PaneFollowsTheStore == Spec => []PaneAgrees
<1>1. PaneInv => PaneAgrees
  <2>1. SUFFICES ASSUME PaneInv, asked = EmptyBag, answers = EmptyBag, ~raced, ~lost
                 PROVE  feeds = follows /\ rows = Rows(feeds, expanded)
    BY DEF PaneAgrees
  <2>2. BagToSet(asked) = {} /\ BagToSet(answers) = {}
    BY <2>1, OneOfEach
  <2>3. Loads = {} /\ ~Changing
    BY <2>2 DEF Loads, Changing
  <2>4. ~LoadInFlight
    BY <2>2, <2>3, LoadInFlightIs
  <2>5. QED
    BY <2>1, <2>3, <2>4 DEF PaneInv
<1>2. QED
  BY <1>1, GoodInit, GoodStep, PaneInit, PaneStep, PTL DEF Spec

-----------------------------------------------------------------------------
(* Questions *)

\* The place of a row is where it is.
LEMMA IndexIs ==
  ASSUME NEW rs, NEW row, row \in ToSet(rs)
  PROVE  IndexOf(rs, row) \in DOMAIN rs /\ rs[IndexOf(rs, row)] = row
<1>1. \E i \in DOMAIN rs : rs[i] = row
  BY DEF ToSet
<1>2. QED
  BY <1>1 DEF IndexOf

LEMMA QuestionInit == Init => QuestionOutlivesLoads
  BY DEF Init, QuestionOutlivesLoads

LEMMA QuestionPress ==
  ASSUME QuestionOutlivesLoads, Press
  PROVE  QuestionOutlivesLoads'
<1>1. CASE ToggleFolder \/ SelectFeed \/ (\E i : Move(i) \/ OpenFolder(i))
           \/ \E b : RefoldAll(b) \/ StepFolder(b)
  <2>1. mode' = "pane"
    BY <1>1 DEF ToggleFolder, SelectFeed, Move, OpenFolder, RefoldAll, StepFolder,
       Key, Refold
  <2>2. QED
    BY <2>1 DEF QuestionOutlivesLoads
<1>2. CASE Catalog \/ (\E question : Cancel(question)) \/ (\E fs : Pick(fs))
           \/ (\E question, n : Confirm(question, n))
           \/ ConfirmCatalog \/ \E f : AddFeed(f)
  <2>1. mode' \in {"pane", "catalog"}
    BY <1>2 DEF Catalog, OpenCatalog, Cancel, Pick, Confirm, ConfirmCatalog, AddFeed, Key
  <2>2. QED
    BY <2>1 DEF QuestionOutlivesLoads
<1>3. CASE \E question : AskAbout(question)
  BY <1>3 DEF AskAbout, QuestionOutlivesLoads, SelectedFeed, Selected
<1>4. QED
  BY <1>1, <1>2, <1>3 DEF Press

\* A load puts the cursor on the feed of the filter, where it has a row.
LEMMA QuestionLoad ==
  ASSUME NEW a, FeedsLoaded(a), filter' # AnyFeed, FeedRow(filter') \in ToSet(rows')
  PROVE  SelectedFeed' = filter'
<1>1. filter' = filter /\ cursor' = IndexOf(rows', FeedRow(filter))
  BY DEF FeedsLoaded, SelectStoredFeed
<1>2. cursor' \in DOMAIN rows' /\ rows'[cursor'] = FeedRow(filter)
  BY <1>1, IndexIs
<1>3. Selected' = FeedRow(filter)
  BY <1>2 DEF Selected
<1>4. QED
  BY <1>1, <1>3 DEF SelectedFeed, FeedRow

\* No row is that of no feed.
RowsAreOfFeeds == FeedRow(AnyFeed) \notin ToSet(rows)

LEMMA GoodRows == Good => RowsAreOfFeeds
<1>1. SUFFICES ASSUME Types, RowsInv, NEW i \in DOMAIN rows, rows[i] = FeedRow(AnyFeed)
               PROVE  FALSE
  BY DEF Good, RowsAreOfFeeds, ToSet
<1>2. rows[i].row = "feed" /\ rows[i].of = AnyFeed
  BY <1>1 DEF FeedRow
<1>3. AnyFeed \in DOMAIN feeds
  BY <1>1, <1>2 DEF RowsInv
<1>4. QED
  BY <1>1, <1>3, FollowsIs, ReaderPaneAssumption DEF Types

LEMMA QuestionAnswer ==
  ASSUME RowsAreOfFeeds', QuestionOutlivesLoads, Answer
  PROVE  QuestionOutlivesLoads'
<1>1. PICK a :
          FeedsLoaded(a) \/ Unfollowed(a) \/ Moved(a) \/ Added(a) \/ Failed(a)
  BY DEF Answer
<1>2. about' = about
  BY <1>1 DEF FeedsLoaded, Unfollowed, Moved, Added, Failed, Handled
<1>3. SUFFICES ASSUME filter' = about', FeedRow(about') \in ToSet(rows'),
                      QuestionOutlivesLoads, mode' \in {"move", "unfollow"}
               PROVE  SelectedFeed' = about'
  BY DEF QuestionOutlivesLoads
<1>4. filter' # AnyFeed
  BY <1>3 DEF RowsAreOfFeeds
<1>5. CASE FeedsLoaded(a)
  <2>1. FeedRow(filter') \in ToSet(rows')
    BY <1>3
  <2>2. QED
    BY <1>3, <1>4, <1>5, <2>1, QuestionLoad
<1>6. CASE UNCHANGED <<rows, cursor, filter, mode>>
  BY <1>2, <1>3, <1>6 DEF QuestionOutlivesLoads, SelectedFeed, Selected
<1>7. CASE Unfollowed(a) \/ Moved(a) \/ Added(a) \/ Failed(a)
  BY <1>4, <1>6, <1>7 DEF Unfollowed, Moved, Added, Failed, pane
<1>8. QED
  BY <1>1, <1>5, <1>7

LEMMA QuestionStep ==
  Good /\ QuestionOutlivesLoads /\ [Next]_vars => QuestionOutlivesLoads'
<1>1. ASSUME QuestionOutlivesLoads, Serve
      PROVE  QuestionOutlivesLoads'
  <2>1. UNCHANGED <<rows, cursor, filter, mode, about>>
    BY <1>1 DEF Serve, Carry, Fail, Leave, pane, screen
  <2>2. QED
    BY <1>1, <2>1 DEF QuestionOutlivesLoads, SelectedFeed, Selected
<1>2. ASSUME Good, QuestionOutlivesLoads, Answer
      PROVE  QuestionOutlivesLoads'
  <2>1. Good'
    BY <1>2, GoodStep DEF Next
  <2>2. RowsAreOfFeeds'
    BY <2>1, GoodRows, PTL
  <2>3. QED
    BY <1>2, <2>2, QuestionAnswer
<1>3. QED
  BY <1>1, <1>2, QuestionPress, Unmoved DEF Next

(* A question about the feed whose posts are shown stays about it: a load, *)
(* which rebuilds the rows, puts the cursor back on the row of that feed,  *)
(* and nothing else that is heard moves the cursor and keeps the filter.   *)
THEOREM QuestionsOutliveLoads == Spec => []QuestionOutlivesLoads
  BY QuestionInit, QuestionStep, GoodInit, GoodStep, PTL DEF Spec

=============================================================================
