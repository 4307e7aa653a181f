---------------------------- MODULE StoreProofs ----------------------------
(***************************************************************************)
(* Theorems about the local store (Library) and about what the offline     *)
(* store caches of it (OfflineCache), for any accounts, feeds, posts,      *)
(* calls, queries and changes.                                             *)
(***************************************************************************)
EXTENDS Library, OfflineCache, FiniteSetTheorems, SequenceTheorems, TLAPS

-----------------------------------------------------------------------------
(* The library *)

Filing ==
    [op : {"file", "filemany"}, user : Users, feed : Feeds, folder : Folders,
     stage : {"create", "follow", "check", "set", "ok"}, crossed : BOOLEAN]
Texting == [op : {"text"}, user : Users, post : AllPosts, stage : {"put"}]

Follows(fs) == UNION {[gs -> Folders] : gs \in SUBSET fs}

(* What a call is owed by the time it has come to its stage: once created  *)
(* the feed is there, an add that files it afterwards was given a folder,  *)
(* and from the check on the feed is followed, unless the account did      *)
(* something else to it.                                                   *)
OnItsWay(k) ==
    /\ k.stage \in {"follow", "check", "set", "ok"} => k.feed \in listed
    /\ k.stage \in {"create", "follow"} /\ k.op = "file" => k.folder # NoFolder
    /\ k.stage = "set" /\ ~k.crossed => k.feed \in DOMAIN subs[k.user]
    /\ k.stage = "ok" /\ ~k.crossed
          => /\ k.feed \in DOMAIN subs[k.user]
             /\ k.op = "file" => subs[k.user][k.feed] = k.folder

Inv == TypeOK /\ \A c \in Calls : OnItsWay(call[c])

-----------------------------------------------------------------------------
LEMMA Kinds ==
  ASSUME NEW k \in Call \cup {Idle}
  PROVE  /\ k.stage \in {"create", "follow", "check", "set", "ok"} <=> k \in Filing
         /\ k.stage = "put" <=> k \in Texting
         /\ k \in Filing => k.op # "none" /\ k.op # "text"
         /\ k \in Texting => k.op = "text"
         /\ k = Idle <=> k.op = "none"
<1>1. k \in Filing \/ k \in Texting \/ k = Idle
  BY DEF Call, Filing, Texting
<1>2. CASE k \in Filing
  BY <1>2 DEF Filing, Texting, Idle
<1>3. CASE k \in Texting
  BY <1>3 DEF Filing, Texting, Idle
<1>4. CASE k = Idle
  BY <1>4 DEF Filing, Texting, Idle
<1>5. QED
  BY <1>1, <1>2, <1>3, <1>4

LEMMA FollowsAre ==
  ASSUME NEW fs, NEW s
  PROVE  s \in Follows(fs) <=> /\ DOMAIN s \subseteq fs
                               /\ s = [g \in DOMAIN s |-> s[g]]
                               /\ \A g \in DOMAIN s : s[g] \in Folders
<1>1. ASSUME s \in Follows(fs)
      PROVE  /\ DOMAIN s \subseteq fs
             /\ s = [g \in DOMAIN s |-> s[g]]
             /\ \A g \in DOMAIN s : s[g] \in Folders
  <2>1. PICK gs \in SUBSET fs : s \in [gs -> Folders]
    BY <1>1 DEF Follows
  <2>2. QED
    BY <2>1
<1>2. ASSUME DOMAIN s \subseteq fs, s = [g \in DOMAIN s |-> s[g]],
             \A g \in DOMAIN s : s[g] \in Folders
      PROVE  s \in Follows(fs)
  <2>1. s \in [DOMAIN s -> Folders]
    BY <1>2
  <2>2. DOMAIN s \in SUBSET fs
    BY <1>2
  <2>3. QED
    BY <2>1, <2>2 DEF Follows
<1>3. QED
  BY <1>1, <1>2

LEMMA TypeParts ==
  TypeOK <=> /\ listed \subseteq Feeds
             /\ subs \in [Users -> Follows(listed)]
             /\ posts \subseteq AllPosts
             /\ text \subseteq posts
             /\ read \in [Users -> SUBSET posts]
             /\ saved \in [Users -> SUBSET posts]
             /\ call \in [Calls -> Call \cup {Idle}]
             /\ actor \in Users \cup {Server}
  BY DEF TypeOK, Follows

LEMMA CrossKeeps ==
  ASSUME TypeOK, NEW me, NEW u, NEW f
  PROVE  /\ Crossed(me, u, f) \in [Calls -> Call \cup {Idle}]
         /\ \A d \in Calls :
               LET k == call[d]
                   j == Crossed(me, u, f)[d]
               IN /\ k \notin Filing => j = k
                  /\ k \in Filing =>
                        /\ j \in Filing
                        /\ j.op = k.op /\ j.user = k.user /\ j.feed = k.feed
                        /\ j.folder = k.folder /\ j.stage = k.stage
                        /\ k.crossed => j.crossed
                        /\ d # me /\ k.user = u /\ k.feed = f => j.crossed
         /\ me \in Calls => Crossed(me, u, f)[me] = call[me]
<1>1. ASSUME NEW d \in Calls
      PROVE  /\ call[d] \notin Filing => Crossed(me, u, f)[d] = call[d]
             /\ call[d] \in Filing =>
                   \/ /\ Crossed(me, u, f)[d] = call[d]
                      /\ ~(d # me /\ call[d].user = u /\ call[d].feed = f)
                   \/ Crossed(me, u, f)[d] = [call[d] EXCEPT !.crossed = TRUE]
  <2>1. call[d] \in Call \cup {Idle}
    BY DEF TypeOK
  <2>2. call[d] \notin Filing => call[d].op \in {"none", "text"}
    BY <2>1, Kinds DEF Call, Filing, Texting, Idle
  <2>3. QED
    BY <2>1, <2>2, Kinds DEF Crossed
<1>2. ASSUME NEW d \in Calls, call[d] \in Filing
      PROVE  LET k == call[d]
                 j == [k EXCEPT !.crossed = TRUE]
             IN /\ j \in Filing
                /\ j.op = k.op /\ j.user = k.user /\ j.feed = k.feed
                /\ j.folder = k.folder /\ j.stage = k.stage /\ j.crossed
  BY <1>2 DEF Filing
<1>3. \A d \in Calls : Crossed(me, u, f)[d] \in Call \cup {Idle}
  <2>1. \A d \in Calls : call[d] \in Call \cup {Idle}
    BY DEF TypeOK
  <2>2. Filing \subseteq Call
    BY DEF Filing, Call
  <2>3. QED
    BY <1>1, <1>2, <2>1, <2>2
<1>4. Crossed(me, u, f) \in [Calls -> Call \cup {Idle}]
  BY <1>3 DEF Crossed
<1>5. me \in Calls => Crossed(me, u, f)[me] = call[me]
  BY DEF Crossed
<1>6. QED
  BY <1>1, <1>2, <1>4, <1>5

(* A step of one call that leaves the follows alone. *)
LEMMA CallStep ==
  ASSUME Inv, NEW c \in Calls, NEW k \in Call \cup {Idle}, OnItsWay(k),
         call' = [call EXCEPT ![c] = k], subs' = subs,
         listed \subseteq listed'
  PROVE  /\ call' \in [Calls -> Call \cup {Idle}]
         /\ \A d \in Calls : OnItsWay(call[d])'
<1>1. call \in [Calls -> Call \cup {Idle}]
  BY DEF Inv, TypeOK
<1>2. ASSUME NEW d \in Calls
      PROVE  OnItsWay(call[d])'
  <2>1. OnItsWay(call'[d])
    BY <1>1 DEF Inv
  <2>2. QED
    BY <2>1 DEF OnItsWay
<1>3. QED
  BY <1>1, <1>2

(* A step of one call to another stage, which its owner has a right to.    *)
LEMMA StageStep ==
  ASSUME Inv, NEW c \in Calls, call[c] \in Filing,
         NEW s \in {"create", "follow", "check", "set", "ok"},
         OnItsWay([call[c] EXCEPT !.stage = s]), To(c, s), subs' = subs,
         listed \subseteq listed'
  PROVE  /\ call' \in [Calls -> Call \cup {Idle}]
         /\ \A d \in Calls : OnItsWay(call[d])'
<1>1. [call[c] EXCEPT !.stage = s] \in Call
  BY DEF Filing, Call
<1>2. QED
  BY <1>1, CallStep DEF To

LEMMA EndStep ==
  ASSUME Inv, NEW c \in Calls, End(c), subs' = subs, listed' = listed
  PROVE  /\ call' \in [Calls -> Call \cup {Idle}]
         /\ \A d \in Calls : OnItsWay(call[d])'
<1>1. OnItsWay(Idle)
  BY DEF OnItsWay, Idle
<1>2. QED
  BY <1>1, CallStep DEF End

LEMMA IdleStep ==
  ASSUME Inv, call' = call, subs' = subs, listed' = listed
  PROVE  /\ call' \in [Calls -> Call \cup {Idle}]
         /\ \A d \in Calls : OnItsWay(call[d])'
  BY DEF Inv, TypeOK, OnItsWay

-----------------------------------------------------------------------------
(* Each operation keeps the tables well typed, and every call what it is   *)
(* owed.  What nobody's follows are touched by leaves the calls alone.     *)
Tables ==
    /\ listed \subseteq Feeds
    /\ subs \in [Users -> Follows(listed)]
    /\ posts \subseteq AllPosts
    /\ text \subseteq posts
    /\ read \in [Users -> SUBSET posts]
    /\ saved \in [Users -> SUBSET posts]

LEMMA InvParts ==
  Inv <=> /\ Tables
          /\ call \in [Calls -> Call \cup {Idle}]
          /\ actor \in Users \cup {Server}
          /\ \A c \in Calls : OnItsWay(call[c])
  BY TypeParts DEF Inv, Tables

LEMMA MarksKeep ==
  ASSUME Inv, NEW u \in Users,
         \/ \E p \in AllPosts : MarkPostRead(u, p)
         \/ \E p \in AllPosts : MarkPostUnread(u, p)
         \/ \E p \in AllPosts : CreateBookmark(u, p)
         \/ \E p \in AllPosts : DeleteBookmark(u, p)
         \/ \E ps \in SUBSET AllPosts : MarkPostsRead(u, ps)
  PROVE  Tables' /\ call' = call /\ subs' = subs /\ listed' = listed
<1> USE InvParts DEF Tables, Within
<1>1. CASE \E p \in AllPosts : MarkPostRead(u, p)
  BY <1>1 DEF MarkPostRead
<1>2. CASE \E p \in AllPosts : MarkPostUnread(u, p)
  BY <1>2 DEF MarkPostUnread
<1>3. CASE \E p \in AllPosts : CreateBookmark(u, p)
  BY <1>3 DEF CreateBookmark
<1>4. CASE \E p \in AllPosts : DeleteBookmark(u, p)
  BY <1>4 DEF DeleteBookmark
<1>5. CASE \E ps \in SUBSET AllPosts : MarkPostsRead(u, ps)
  BY <1>5 DEF MarkPostsRead
<1>6. QED
  BY <1>1, <1>2, <1>3, <1>4, <1>5

LEMMA ServerKeeps ==
  ASSUME Inv, \/ \E p \in AllPosts : CreatePost(p)
              \/ \E ps \in SUBSET AllPosts : PrunePosts(ps)
  PROVE  Tables' /\ call' = call /\ subs' = subs /\ listed' = listed
<1> USE InvParts DEF Tables
<1>1. CASE \E p \in AllPosts : CreatePost(p)
  BY <1>1 DEF CreatePost
<1>2. CASE \E ps \in SUBSET AllPosts : PrunePosts(ps)
  BY <1>2 DEF PrunePosts
<1>3. QED
  BY <1>1, <1>2

(* What one account does to its follow of one feed: the promises about any *)
(* other follow stand, and the calls about that one are crossed.           *)
LEMMA OthersStand ==
  ASSUME Inv, NEW me, NEW u \in Users, NEW f, NEW d \in Calls, d # me,
         \A v \in Users, g \in Feeds :
            v # u \/ g # f =>
               /\ g \in DOMAIN subs[v] => g \in DOMAIN subs'[v]
               /\ g \in DOMAIN subs[v] => subs'[v][g] = subs[v][g],
         call'[d] = Crossed(me, u, f)[d], listed \subseteq listed'
  PROVE  OnItsWay(call[d])'
<1>1. OnItsWay(call[d]) /\ call[d] \in Call \cup {Idle}
  BY InvParts
<1>2. CASE call[d] \notin Filing
  <2>1. call'[d] = call[d]
    BY <1>2, CrossKeeps DEF Inv
  <2>2. QED
    BY <1>1, <1>2, <2>1, Kinds DEF OnItsWay
<1>3. CASE call[d] \in Filing
  <2> DEFINE k == call[d]
             j == call'[d]
  <2>1. /\ j \in Filing
        /\ j.op = k.op /\ j.user = k.user /\ j.feed = k.feed
        /\ j.folder = k.folder /\ j.stage = k.stage
        /\ k.crossed => j.crossed
        /\ k.user = u /\ k.feed = f => j.crossed
    BY <1>3, CrossKeeps DEF Inv
  <2>2. k.user \in Users /\ k.feed \in Feeds
    BY <1>3 DEF Filing
  <2>3. ~j.crossed /\ k.feed \in DOMAIN subs[k.user]
        => /\ k.feed \in DOMAIN subs'[k.user]
           /\ subs'[k.user][k.feed] = subs[k.user][k.feed]
    BY <2>1, <2>2
  <2>4. OnItsWay(k)
    BY <1>1
  <2> HIDE DEF k, j
  <2>5. /\ j.stage \in {"follow", "check", "set", "ok"} => j.feed \in listed'
        /\ j.stage \in {"create", "follow"} /\ j.op = "file"
           => j.folder # NoFolder
        /\ j.stage = "set" /\ ~j.crossed => j.feed \in DOMAIN subs'[j.user]
        /\ j.stage = "ok" /\ ~j.crossed
              => /\ j.feed \in DOMAIN subs'[j.user]
                 /\ j.op = "file" => subs'[j.user][j.feed] = j.folder
    BY <2>1, <2>3, <2>4 DEF OnItsWay
  <2>6. QED
    BY <2>5 DEF OnItsWay, j
<1>4. QED
  BY <1>2, <1>3

LEMMA UnfollowKeeps ==
  ASSUME Inv, NEW u \in Users, NEW f \in Feeds, DeleteFeedFollow(u, f)
  PROVE  /\ Tables'
         /\ call' \in [Calls -> Call \cup {Idle}]
         /\ \A d \in Calls : OnItsWay(call[d])'
<1> DEFINE t == [g \in DOMAIN subs[u] \ {f} |-> subs[u][g]]
<1>1. subs \in [Users -> Follows(listed)]
  BY InvParts DEF Tables
<1>2. subs' = [subs EXCEPT ![u] = t]
  BY DEF DeleteFeedFollow
<1>3. t \in Follows(listed)
  <2>1. subs[u] \in Follows(listed)
    BY <1>1
  <2>2. QED
    BY <2>1, FollowsAre
<1>4. Tables'
  <2>1. subs' \in [Users -> Follows(listed)]
    BY <1>1, <1>2, <1>3
  <2>2. QED
    BY <2>1, InvParts DEF Tables, DeleteFeedFollow
<1>5. /\ call' = Crossed(Server, u, f)
      /\ call' \in [Calls -> Call \cup {Idle}]
  BY CrossKeeps DEF DeleteFeedFollow, Inv
<1>6. \A v \in Users, g \in Feeds :
         v # u \/ g # f =>
            /\ g \in DOMAIN subs[v] => g \in DOMAIN subs'[v]
            /\ g \in DOMAIN subs[v] => subs'[v][g] = subs[v][g]
  BY <1>1, <1>2
<1>7. \A d \in Calls : OnItsWay(call[d])'
  BY <1>5, <1>6, OthersStand, LibraryAssumption DEF DeleteFeedFollow
<1>8. QED
  BY <1>4, <1>5, <1>7

-----------------------------------------------------------------------------
(* The operations of several statements *)

LEMMA BeginKeeps ==
  ASSUME Inv, NEW c \in Calls, NEW u \in Users,
         \/ \E f \in Feeds, folder \in Folders :
               AddFeed(c, u, f, folder) \/ Categorize(c, u, f, folder)
         \/ \E f \in Feeds : FollowURL(c, u, f)
         \/ \E p \in AllPosts : FullText(c, u, p)
  PROVE  /\ Tables'
         /\ call' \in [Calls -> Call \cup {Idle}]
         /\ \A d \in Calls : OnItsWay(call[d])'
<1>1. ASSUME NEW k \in Call, OnItsWay(k), Begin(c, k)
      PROVE  /\ Tables'
             /\ call' \in [Calls -> Call \cup {Idle}]
             /\ \A d \in Calls : OnItsWay(call[d])'
  <2>1. UNCHANGED tables /\ call' = [call EXCEPT ![c] = k]
    BY <1>1 DEF Begin
  <2>2. QED
    BY <1>1, <2>1, CallStep, InvParts DEF tables, Tables
<1>2. ASSUME NEW f \in Feeds, NEW folder \in Folders,
             AddFeed(c, u, f, folder)
      PROVE  /\ Tables'
             /\ call' \in [Calls -> Call \cup {Idle}]
             /\ \A d \in Calls : OnItsWay(call[d])'
  <2>1. PICK op \in IF folder = NoFolder THEN {"filemany"} ELSE {"file", "filemany"} :
           Begin(c, [op |-> op, user |-> u, feed |-> f, folder |-> folder,
                     stage |-> "create", crossed |-> FALSE])
    BY <1>2 DEF AddFeed
  <2> DEFINE k == [op |-> op, user |-> u, feed |-> f, folder |-> folder,
                   stage |-> "create", crossed |-> FALSE]
  <2>2. k \in Call
    BY DEF Call
  <2>3. OnItsWay(k)
    BY <2>1 DEF OnItsWay
  <2>4. QED
    BY <1>1, <2>1, <2>2, <2>3
<1>3. ASSUME NEW f \in Feeds, NEW folder \in Folders,
             Categorize(c, u, f, folder)
      PROVE  /\ Tables'
             /\ call' \in [Calls -> Call \cup {Idle}]
             /\ \A d \in Calls : OnItsWay(call[d])'
  <2> DEFINE k == [op |-> "file", user |-> u, feed |-> f,
                   folder |-> folder, stage |-> "check", crossed |-> FALSE]
  <2>1. f \in listed /\ Begin(c, k)
    BY <1>3 DEF Categorize
  <2>2. k \in Call /\ OnItsWay(k)
    BY <2>1 DEF Call, OnItsWay
  <2>3. QED
    BY <1>1, <2>1, <2>2
<1>4. ASSUME NEW f \in Feeds,
             FollowURL(c, u, f)
      PROVE  /\ Tables'
             /\ call' \in [Calls -> Call \cup {Idle}]
             /\ \A d \in Calls : OnItsWay(call[d])'
  <2> DEFINE k == [op |-> "filemany", user |-> u, feed |-> f, folder |-> NoFolder,
                   stage |-> "follow", crossed |-> FALSE]
  <2>1. f \in listed /\ Begin(c, k)
    BY <1>4 DEF FollowURL
  <2>2. k \in Call /\ OnItsWay(k)
    BY <2>1, QueriesAssumption DEF Call, OnItsWay
  <2>3. QED
    BY <1>1, <2>1, <2>2
<1>5. ASSUME NEW p \in AllPosts,
             FullText(c, u, p)
      PROVE  /\ Tables'
             /\ call' \in [Calls -> Call \cup {Idle}]
             /\ \A d \in Calls : OnItsWay(call[d])'
  <2> DEFINE k == [op |-> "text", user |-> u, post |-> p, stage |-> "put"]
  <2>1. k \in Call /\ OnItsWay(k)
    BY DEF Call, OnItsWay
  <2>2. QED
    BY <1>1, <1>5, <2>1 DEF FullText
<1>6. QED
  BY <1>2, <1>3, <1>4, <1>5

LEMMA CreateFeedKeeps ==
  ASSUME Inv, NEW c \in Calls, CreateFeed(c)
  PROVE  /\ Tables'
         /\ call' \in [Calls -> Call \cup {Idle}]
         /\ \A d \in Calls : OnItsWay(call[d])'
<1> DEFINE k == call[c]
           j == [k EXCEPT !.stage = "follow"]
<1>1. k \in Filing /\ OnItsWay(k) /\ k.stage = "create"
  BY InvParts, Kinds DEF CreateFeed
<1>2. /\ j \in Filing /\ j.stage = "follow"
      /\ j.op = k.op /\ j.folder = k.folder /\ j.feed = k.feed
  BY <1>1 DEF Filing
<1>3. listed \subseteq listed' /\ k.feed \in listed' /\ k.feed \in Feeds
  BY <1>1 DEF CreateFeed, Filing
<1>4. Tables'
  <2>1. Follows(listed) \subseteq Follows(listed')
    BY <1>3 DEF Follows
  <2>2. subs' \in [Users -> Follows(listed')]
    BY <2>1, InvParts DEF CreateFeed, Tables
  <2>3. QED
    BY <1>3, <2>2, InvParts DEF Tables, CreateFeed
<1>5. /\ call' = [call EXCEPT ![c] = j]
      /\ subs' = subs
  BY DEF CreateFeed, To
<1>6. ASSUME NEW d \in Calls
      PROVE  OnItsWay(call[d])'
  <2>1. CASE d = c
    <3>1. call'[d] = j
      BY <1>5, <2>1, InvParts
    <3>2. OnItsWay(k)
      BY <1>1
    <3> HIDE DEF j, k
    <3>3. /\ j.stage \in {"follow", "check", "set", "ok"} => j.feed \in listed'
          /\ j.stage = "follow"
          /\ j.op = "file" => j.folder # NoFolder
      BY <1>1, <1>2, <1>3, <3>2 DEF OnItsWay
    <3>4. QED
      BY <3>1, <3>3 DEF OnItsWay
  <2>2. CASE d # c
    <3>1. call'[d] = call[d] /\ OnItsWay(call[d])
      BY <1>5, <2>2, InvParts
    <3>2. QED
      BY <1>3, <1>5, <3>1 DEF OnItsWay
  <2>3. QED
    BY <2>1, <2>2
<1>7. call' \in [Calls -> Call \cup {Idle}]
  BY <1>2, <1>5, InvParts DEF Call, Filing
<1>8. QED
  BY <1>4, <1>6, <1>7

(* The insert does nothing to a follow that is there already.              *)
LEMMA FollowKeeps ==
  ASSUME Inv, NEW c \in Calls, CreateFeedFollow(c)
  PROVE  /\ Tables'
         /\ call' \in [Calls -> Call \cup {Idle}]
         /\ \A d \in Calls : OnItsWay(call[d])'
<1> DEFINE k == call[c]
           j == [k EXCEPT !.stage = AfterFollow(k)]
           t == [g \in DOMAIN subs[k.user] \cup {k.feed} |->
                    IF g \in DOMAIN subs[k.user] THEN subs[k.user][g] ELSE NoFolder]
<1>1. k \in Filing /\ OnItsWay(k) /\ k.stage = "follow"
  BY InvParts, Kinds DEF CreateFeedFollow
<1>2. k.user \in Users /\ k.feed \in Feeds /\ k.feed \in listed
  BY <1>1 DEF Filing, OnItsWay
<1>3. subs \in [Users -> Follows(listed)]
  BY InvParts DEF Tables
<1>4. subs' = [subs EXCEPT ![k.user] = t] /\ listed' = listed
  BY DEF CreateFeedFollow
<1>5. t \in Follows(listed)
  <2>1. subs[k.user] \in Follows(listed)
    BY <1>2, <1>3
  <2>2. QED
    BY <1>2, <2>1, FollowsAre, QueriesAssumption
<1>6. Tables'
  <2>1. subs' \in [Users -> Follows(listed)]
    BY <1>3, <1>4, <1>5
  <2>2. QED
    BY <2>1, InvParts DEF Tables, CreateFeedFollow
<1>7. /\ AfterFollow(k) \in {"check", "set", "ok"}
      /\ AfterFollow(k) = "ok" => k.folder = NoFolder
  BY DEF AfterFollow
<1>8. /\ j \in Filing /\ j.stage = AfterFollow(k)
      /\ j.op = k.op /\ j.folder = k.folder /\ j.feed = k.feed
      /\ j.user = k.user
  BY <1>1, <1>7 DEF Filing
<1>9. call' = [call EXCEPT ![c] = j]
  BY DEF CreateFeedFollow, To
<1>10. \A v \in Users, g \in Feeds :
          g \in DOMAIN subs[v] => /\ g \in DOMAIN subs'[v]
                                  /\ subs'[v][g] = subs[v][g]
  BY <1>2, <1>3, <1>4
<1>11. k.feed \in DOMAIN subs'[k.user]
  BY <1>2, <1>3, <1>4
<1>12. ASSUME NEW d \in Calls
       PROVE  OnItsWay(call[d])'
  <2>1. CASE d = c
    <3>1. call'[d] = j
      BY <1>9, <2>1, InvParts
    <3>2. OnItsWay(k)
      BY <1>1
    <3> HIDE DEF j, k
    <3>3. /\ j.stage \in {"check", "set", "ok"}
          /\ j.feed \in listed' /\ j.feed \in DOMAIN subs'[j.user]
          /\ j.stage = "ok" => j.op # "file"
      BY <1>1, <1>2, <1>4, <1>7, <1>8, <1>11, <3>2 DEF OnItsWay
    <3>4. QED
      BY <3>1, <3>3 DEF OnItsWay
  <2>2. CASE d # c
    <3>1. call'[d] = call[d] /\ OnItsWay(call[d])
      BY <1>9, <2>2, InvParts
    <3>2. call[d] \in Filing => call[d].user \in Users /\ call[d].feed \in Feeds
      BY DEF Filing
    <3>3. call[d].stage \in {"create", "follow", "check", "set", "ok"}
          => call[d] \in Filing
      BY InvParts, Kinds
    <3>4. QED
      BY <1>4, <1>10, <3>1, <3>2, <3>3 DEF OnItsWay
  <2>3. QED
    BY <2>1, <2>2
<1>13. call' \in [Calls -> Call \cup {Idle}]
  BY <1>8, <1>9, InvParts DEF Call, Filing
<1>14. QED
  BY <1>6, <1>12, <1>13

(* An account that files a feed crosses its other calls about it.          *)
LEMMA FileKeeps ==
  ASSUME Inv, NEW c \in Calls, SetFeedFollowCategory(c)
  PROVE  /\ Tables'
         /\ call' \in [Calls -> Call \cup {Idle}]
         /\ \A d \in Calls : OnItsWay(call[d])'
<1> DEFINE k == call[c]
           j == [k EXCEPT !.stage = "ok"]
           s == subs[k.user]
           t == [g \in DOMAIN s |-> IF g = k.feed THEN k.folder ELSE s[g]]
<1>1. k \in Filing /\ OnItsWay(k) /\ k.stage = "set"
  BY InvParts, Kinds DEF SetFeedFollowCategory
<1>2. k.user \in Users /\ k.feed \in Feeds /\ k.folder \in Folders
  BY <1>1 DEF Filing
<1>3. subs \in [Users -> Follows(listed)]
  BY InvParts DEF Tables
<1>4. subs' = [subs EXCEPT ![k.user] = t] /\ listed' = listed
  BY DEF SetFeedFollowCategory
<1>5. t \in Follows(listed)
  <2>1. s \in Follows(listed)
    BY <1>2, <1>3
  <2>2. QED
    BY <1>2, <2>1, FollowsAre
<1>6. Tables'
  <2>1. subs' \in [Users -> Follows(listed)]
    BY <1>3, <1>4, <1>5
  <2>2. QED
    BY <2>1, InvParts DEF Tables, SetFeedFollowCategory
<1>7. /\ j \in Filing /\ j.stage = "ok" /\ j.crossed = k.crossed
      /\ j.op = k.op /\ j.folder = k.folder /\ j.feed = k.feed
      /\ j.user = k.user
  BY <1>1 DEF Filing
<1>8. /\ Crossed(c, k.user, k.feed) \in [Calls -> Call \cup {Idle}]
      /\ Crossed(c, k.user, k.feed)[c] = k
  BY CrossKeeps DEF Inv
<1>9. call' = [Crossed(c, k.user, k.feed) EXCEPT ![c] = j]
  BY <1>8 DEF SetFeedFollowCategory
<1>10. \A v \in Users, g \in Feeds :
          v # k.user \/ g # k.feed =>
             /\ g \in DOMAIN subs[v] => g \in DOMAIN subs'[v]
             /\ g \in DOMAIN subs[v] => subs'[v][g] = subs[v][g]
  BY <1>2, <1>3, <1>4
<1>11. ASSUME NEW d \in Calls
       PROVE  OnItsWay(call[d])'
  <2>1. CASE d = c
    <3>1. call'[d] = j
      BY <1>8, <1>9, <2>1
    <3>2. OnItsWay(k)
      BY <1>1
    <3>3. k.feed \in DOMAIN s => /\ k.feed \in DOMAIN subs'[k.user]
                                 /\ subs'[k.user][k.feed] = k.folder
      BY <1>2, <1>3, <1>4
    <3> HIDE DEF j, k
    <3>4. /\ j.stage = "ok" /\ j.feed \in listed'
          /\ ~j.crossed => /\ j.feed \in DOMAIN subs'[j.user]
                           /\ subs'[j.user][j.feed] = j.folder
      BY <1>1, <1>4, <1>7, <3>2, <3>3 DEF OnItsWay
    <3>5. QED
      BY <3>1, <3>4 DEF OnItsWay
  <2>2. CASE d # c
    <3>1. call'[d] = Crossed(c, k.user, k.feed)[d]
      BY <1>8, <1>9, <2>2
    <3>2. QED
      BY <1>2, <1>4, <1>10, <2>2, <3>1, OthersStand
  <2>3. QED
    BY <2>1, <2>2
<1>12. call' \in [Calls -> Call \cup {Idle}]
  BY <1>7, <1>8, <1>9 DEF Call, Filing
<1>13. QED
  BY <1>6, <1>11, <1>12

(* The steps that change no follow.                                        *)
LEMMA OtherStagesKeep ==
  ASSUME Inv, NEW c \in Calls,
         \/ CheckFollows(c) \/ StatementFails(c)
         \/ SetPostFullText(c) \/ Answer(c)
  PROVE  /\ Tables'
         /\ call' \in [Calls -> Call \cup {Idle}]
         /\ \A d \in Calls : OnItsWay(call[d])'
<1>1. OnItsWay(call[c])
  BY InvParts
<1>2. CASE CheckFollows(c)
  <2>1. call[c] \in Filing /\ call[c].stage = "check"
    BY <1>2, InvParts, Kinds DEF CheckFollows
  <2>2. call[c].feed \in DOMAIN subs[call[c].user]
        => OnItsWay([call[c] EXCEPT !.stage = "set"])
    BY <1>1, <2>1 DEF OnItsWay, Filing
  <2>3. UNCHANGED tables
    BY <1>2 DEF CheckFollows
  <2>4. Tables'
    BY <2>3, InvParts DEF Tables, tables
  <2>5. CASE call[c].feed \in DOMAIN subs[call[c].user]
    <3>1. To(c, "set")
      BY <1>2, <2>5 DEF CheckFollows
    <3>2. QED
      BY <2>1, <2>2, <2>3, <2>4, <2>5, <3>1, StageStep DEF tables
  <2>6. CASE call[c].feed \notin DOMAIN subs[call[c].user]
    <3>1. End(c)
      BY <1>2, <2>6 DEF CheckFollows
    <3>2. QED
      BY <2>3, <2>4, <3>1, EndStep DEF tables
  <2>7. QED
    BY <2>5, <2>6
<1>3. CASE StatementFails(c)
  <2>1. call[c] \in Filing
    BY <1>3, InvParts, Kinds DEF StatementFails
  <2>2. UNCHANGED tables
    BY <1>3 DEF StatementFails
  <2>3. Tables'
    BY <2>2, InvParts DEF Tables, tables
  <2>4. CASE call[c].op = "filemany" /\ call[c].stage = "set"
    <3>1. To(c, "ok")
      BY <1>3, <2>4 DEF StatementFails
    <3>2. OnItsWay([call[c] EXCEPT !.stage = "ok"])
      BY <1>1, <2>1, <2>4 DEF OnItsWay, Filing
    <3>3. QED
      BY <2>1, <2>2, <2>3, <3>1, <3>2, StageStep DEF tables
  <2>5. CASE ~(call[c].op = "filemany" /\ call[c].stage = "set")
    <3>1. End(c)
      BY <1>3, <2>5 DEF StatementFails
    <3>2. QED
      BY <2>2, <2>3, <3>1, EndStep DEF tables
  <2>6. QED
    BY <2>4, <2>5
<1>4. CASE SetPostFullText(c)
  <2>1. Tables' /\ subs' = subs /\ listed' = listed
    BY <1>4, InvParts DEF Tables, SetPostFullText
  <2>2. QED
    BY <1>4, <2>1, EndStep DEF SetPostFullText
<1>5. CASE Answer(c)
  <2>1. Tables' /\ subs' = subs /\ listed' = listed
    BY <1>5, InvParts DEF Tables, Answer, tables
  <2>2. QED
    BY <1>5, <2>1, EndStep DEF Answer
<1>6. QED
  BY <1>2, <1>3, <1>4, <1>5

-----------------------------------------------------------------------------
(* Inv is inductive. *)

LEMMA InvInit == Init => Inv
<1> SUFFICES ASSUME Init PROVE Inv
  OBVIOUS
<1>1. \A c \in Calls : OnItsWay(call[c])
  BY DEF Init, Idle, OnItsWay
<1>2. <<>> \in Follows(listed)
  <2>1. DOMAIN <<>> = {} /\ <<>> = [g \in {} |-> <<>>[g]]
    OBVIOUS
  <2>2. QED
    BY <2>1, FollowsAre
<1>3. Tables
  BY <1>2 DEF Init, Tables
<1>4. QED
  BY <1>1, <1>3, InvParts DEF Init

LEMMA InvNext == Inv /\ [Next]_vars => Inv'
<1> SUFFICES ASSUME Inv, [Next]_vars PROVE Inv'
  OBVIOUS
<1>1. CASE UNCHANGED vars
  BY <1>1, InvParts DEF vars, tables, Inv, TypeOK, OnItsWay
<1>2. ASSUME Tables', actor' \in Users \cup {Server},
             call' \in [Calls -> Call \cup {Idle}],
             \A d \in Calls : OnItsWay(call[d])'
      PROVE  Inv'
  <2>1. TypeOK'
    BY <1>2 DEF TypeOK, Tables, Follows
  <2>2. QED
    BY <1>2, <2>1 DEF Inv
<1>3. ASSUME NEW u \in Users, Request(u), actor' = u
      PROVE  Inv'
  <2>1. CASE \/ \E p \in AllPosts : MarkPostRead(u, p)
             \/ \E p \in AllPosts : MarkPostUnread(u, p)
             \/ \E p \in AllPosts : CreateBookmark(u, p)
             \/ \E p \in AllPosts : DeleteBookmark(u, p)
             \/ \E ps \in SUBSET AllPosts : MarkPostsRead(u, ps)
    BY <1>2, <1>3, <2>1, MarksKeep, IdleStep
  <2>2. CASE \E f \in Feeds : DeleteFeedFollow(u, f)
    BY <1>2, <1>3, <2>2, UnfollowKeeps
  <2>3. CASE \E c \in Calls :
                \/ \E f \in Feeds, folder \in Folders :
                      AddFeed(c, u, f, folder) \/ Categorize(c, u, f, folder)
                \/ \E f \in Feeds : FollowURL(c, u, f)
                \/ \E p \in AllPosts : FullText(c, u, p)
    BY <1>2, <1>3, <2>3, BeginKeeps
  <2>4. CASE \E c \in Calls : Continue(c)
    <3>1. PICK c \in Calls : Continue(c)
      BY <2>4
    <3>2. /\ Tables'
          /\ call' \in [Calls -> Call \cup {Idle}]
          /\ \A d \in Calls : OnItsWay(call[d])'
      BY <3>1, CreateFeedKeeps, FollowKeeps, FileKeeps, OtherStagesKeep
         DEF Continue
    <3>3. QED
      BY <1>2, <1>3, <3>2
  <2>5. QED
    BY <1>3, <2>1, <2>2, <2>3, <2>4 DEF Request
<1>4. CASE /\ \/ \E p \in AllPosts : CreatePost(p)
              \/ \E ps \in SUBSET AllPosts : PrunePosts(ps)
           /\ actor' = Server
  BY <1>2, <1>4, ServerKeeps, IdleStep
<1>5. QED
  BY <1>1, <1>3, <1>4 DEF Next

LEMMA InvHolds == Spec => []Inv
  BY InvInit, InvNext, PTL DEF Spec

-----------------------------------------------------------------------------
(* The tables are well typed, and nothing is marked that is not stored:    *)
(* the statements keep it so, and the rows that go with a post.            *)
THEOREM TypeCorrect == Spec => []TypeOK
<1>1. Inv => TypeOK
  BY DEF Inv
<1>2. QED
  BY <1>1, InvHolds, PTL

(* What was added with success is followed, under its folder.              *)
THEOREM AddsAreFollowed == Spec => []AddedIsFollowed
<1>1. Inv => AddedIsFollowed
  BY DEF Inv, OnItsWay, AddedIsFollowed
<1>2. QED
  BY <1>1, InvHolds, PTL

-----------------------------------------------------------------------------
(* The library implements the shelves: an operation of one statement is    *)
(* the operation of the fake, and of one of several at most one statement  *)
(* is, the others being of no concern to the account.                      *)

LEMMA MarkIsAct ==
  ASSUME Inv, NEW u \in Users, actor' = u,
         \/ \E p \in AllPosts : MarkPostRead(u, p)
         \/ \E p \in AllPosts : MarkPostUnread(u, p)
         \/ \E p \in AllPosts : CreateBookmark(u, p)
         \/ \E p \in AllPosts : DeleteBookmark(u, p)
         \/ \E ps \in SUBSET AllPosts : MarkPostsRead(u, ps)
  PROVE  Promise!Act(u)
<1>1. /\ read \in [Users -> SUBSET posts]
      /\ saved \in [Users -> SUBSET posts]
      /\ Within(u) \subseteq AllPosts
  BY InvParts DEF Tables, Within
<1>2. CASE \E p \in AllPosts : MarkPostRead(u, p)
  <2>1. PICK p \in AllPosts : MarkPostRead(u, p)
    BY <1>2
  <2>2. CASE p \in Within(u)
    <3>1. {p} \cap Within(u) = {p}
      BY <2>2
    <3>2. Promise!SetRead(u, p)
      BY <2>1, <3>1 DEF MarkPostRead, Promise!SetRead
    <3>3. QED
      BY <3>2 DEF Promise!Act
  <2>3. CASE p \notin Within(u)
    <3>1. Promise!Ask
      BY <1>1, <2>1, <2>3 DEF MarkPostRead, Promise!Ask
    <3>2. QED
      BY <3>1 DEF Promise!Act
  <2>4. QED
    BY <2>2, <2>3
<1>3. CASE \E p \in AllPosts : MarkPostUnread(u, p)
  <2>1. PICK p \in AllPosts : MarkPostUnread(u, p)
    BY <1>3
  <2>2. Promise!SetRead(u, p)
    BY <2>1 DEF MarkPostUnread, Promise!SetRead
  <2>3. QED
    BY <2>2 DEF Promise!Act
<1>4. CASE \E p \in AllPosts : CreateBookmark(u, p)
  <2>1. PICK p \in AllPosts : CreateBookmark(u, p)
    BY <1>4
  <2>2. CASE p \in Within(u)
    <3>1. {p} \cap Within(u) = {p}
      BY <2>2
    <3>2. Promise!Bookmark(u, p)
      BY <2>1, <3>1 DEF CreateBookmark, Promise!Bookmark
    <3>3. QED
      BY <3>2 DEF Promise!Act
  <2>3. CASE p \notin Within(u)
    <3>1. Promise!Ask
      BY <1>1, <2>1, <2>3 DEF CreateBookmark, Promise!Ask
    <3>2. QED
      BY <3>1 DEF Promise!Act
  <2>4. QED
    BY <2>2, <2>3
<1>5. CASE \E p \in AllPosts : DeleteBookmark(u, p)
  <2>1. PICK p \in AllPosts : DeleteBookmark(u, p)
    BY <1>5
  <2>2. Promise!Unbookmark(u, p)
    BY <2>1 DEF DeleteBookmark, Promise!Unbookmark
  <2>3. QED
    BY <2>2 DEF Promise!Act
<1>6. CASE \E ps \in SUBSET AllPosts : MarkPostsRead(u, ps)
  <2>1. PICK ps \in SUBSET AllPosts : MarkPostsRead(u, ps)
    BY <1>6
  <2>2. ps \cap Within(u) \in SUBSET AllPosts
    OBVIOUS
  <2>3. Promise!SetAllRead(u, ps \cap Within(u))
    BY <2>1 DEF MarkPostsRead, Promise!SetAllRead
  <2>4. QED
    BY <2>2, <2>3 DEF Promise!Act
<1>7. QED
  BY <1>2, <1>3, <1>4, <1>5, <1>6

LEMMA FollowIsAct ==
  ASSUME Inv, NEW c \in Calls, CreateFeedFollow(c), actor' = call[c].user
  PROVE  Promise!Act(call[c].user)
<1> DEFINE k == call[c]
<1>1. k \in Filing
  BY InvParts, Kinds DEF CreateFeedFollow
<1>2. k.user \in Users /\ k.feed \in Feeds
  BY <1>1 DEF Filing
<1>3. subs \in [Users -> Follows(listed)]
  BY InvParts DEF Tables
<1>4. subs[k.user] = [g \in DOMAIN subs[k.user] |-> subs[k.user][g]]
  BY <1>2, <1>3, FollowsAre
<1>5. CASE k.feed \in DOMAIN subs[k.user]
  <2>1. DOMAIN subs[k.user] \cup {k.feed} = DOMAIN subs[k.user]
    BY <1>5
  <2>2. subs' = [subs EXCEPT ![k.user] = subs[k.user]]
    BY <1>4, <2>1 DEF CreateFeedFollow
  <2>3. Promise!Ask
    BY <1>3, <2>2 DEF CreateFeedFollow, Promise!Ask
  <2>4. QED
    BY <2>3 DEF Promise!Act
<1>6. CASE k.feed \notin DOMAIN subs[k.user]
  <2>1. [g \in DOMAIN subs[k.user] \cup {k.feed} |->
            IF g \in DOMAIN subs[k.user] THEN subs[k.user][g] ELSE NoFolder]
        = [g \in DOMAIN subs[k.user] \cup {k.feed} |->
            IF g = k.feed THEN NoFolder ELSE subs[k.user][g]]
    BY <1>6
  <2>2. Promise!AddFeed(k.user, k.feed)
    BY <1>6, <2>1 DEF CreateFeedFollow, Promise!AddFeed, Promise!File
  <2>3. QED
    BY <1>2, <2>2 DEF Promise!Act
<1>7. QED
  BY <1>5, <1>6

LEMMA FileIsAct ==
  ASSUME Inv, NEW c \in Calls, SetFeedFollowCategory(c), actor' = call[c].user
  PROVE  Promise!Act(call[c].user)
<1> DEFINE k == call[c]
<1>1. k \in Filing
  BY InvParts, Kinds DEF SetFeedFollowCategory
<1>2. k.user \in Users /\ k.feed \in Feeds /\ k.folder \in Folders
  BY <1>1 DEF Filing
<1>3. subs \in [Users -> Follows(listed)]
  BY InvParts DEF Tables
<1>4. subs[k.user] = [g \in DOMAIN subs[k.user] |-> subs[k.user][g]]
  BY <1>2, <1>3, FollowsAre
<1>5. CASE k.feed \in DOMAIN subs[k.user]
  <2>1. DOMAIN subs[k.user] \cup {k.feed} = DOMAIN subs[k.user]
    BY <1>5
  <2>2. Promise!Categorize(k.user, k.feed, k.folder)
    BY <1>5, <2>1 DEF SetFeedFollowCategory, Promise!Categorize, Promise!File
  <2>3. QED
    BY <1>2, <2>2 DEF Promise!Act
<1>6. CASE k.feed \notin DOMAIN subs[k.user]
  <2>1. [g \in DOMAIN subs[k.user] |->
            IF g = k.feed THEN k.folder ELSE subs[k.user][g]] = subs[k.user]
    BY <1>4, <1>6
  <2>2. subs' = [subs EXCEPT ![k.user] = subs[k.user]]
    BY <2>1 DEF SetFeedFollowCategory
  <2>3. Promise!Ask
    BY <1>3, <2>2 DEF SetFeedFollowCategory, Promise!Ask
  <2>4. QED
    BY <2>3 DEF Promise!Act
<1>7. QED
  BY <1>5, <1>6

LEMMA RequestIsAct ==
  ASSUME Inv, NEW u \in Users, Request(u), actor' = u
  PROVE  Promise!Act(u)
<1>1. CASE \/ \E p \in AllPosts : MarkPostRead(u, p)
           \/ \E p \in AllPosts : MarkPostUnread(u, p)
           \/ \E p \in AllPosts : CreateBookmark(u, p)
           \/ \E p \in AllPosts : DeleteBookmark(u, p)
           \/ \E ps \in SUBSET AllPosts : MarkPostsRead(u, ps)
  BY <1>1, MarkIsAct
<1>2. CASE \E f \in Feeds : DeleteFeedFollow(u, f)
  <2>1. PICK f \in Feeds : DeleteFeedFollow(u, f)
    BY <1>2
  <2>2. Promise!Unfollow(u, f)
    BY <2>1 DEF DeleteFeedFollow, Promise!Unfollow
  <2>3. QED
    BY <2>2 DEF Promise!Act
<1>3. ASSUME UNCHANGED <<subs, read, saved>>
      PROVE  Promise!Act(u)
  BY <1>3 DEF Promise!Act, Promise!Ask
<1>4. CASE \E c \in Calls :
              \/ \E f \in Feeds, folder \in Folders :
                    AddFeed(c, u, f, folder) \/ Categorize(c, u, f, folder)
              \/ \E f \in Feeds : FollowURL(c, u, f)
              \/ \E p \in AllPosts : FullText(c, u, p)
  BY <1>3, <1>4 DEF AddFeed, Categorize, FollowURL, FullText, Begin, tables
<1>5. CASE \E c \in Calls : call[c].user = u /\ Continue(c)
  <2>1. PICK c \in Calls : call[c].user = u /\ Continue(c)
    BY <1>5
  <2>2. CASE CreateFeedFollow(c)
    BY <2>1, <2>2, FollowIsAct
  <2>3. CASE SetFeedFollowCategory(c)
    BY <2>1, <2>3, FileIsAct
  <2>4. CASE \/ CreateFeed(c) \/ CheckFollows(c) \/ StatementFails(c)
             \/ SetPostFullText(c) \/ Answer(c)
    BY <1>3, <2>4
       DEF CreateFeed, CheckFollows, StatementFails, SetPostFullText, Answer,
           tables
  <2>5. QED
    BY <2>1, <2>2, <2>3, <2>4 DEF Continue
<1>6. QED
  BY <1>1, <1>2, <1>4, <1>5 DEF Request

LEMMA ServerForgets ==
  ASSUME Inv, actor' = Server,
         \/ \E p \in AllPosts : CreatePost(p)
         \/ \E ps \in SUBSET AllPosts : PrunePosts(ps)
  PROVE  Promise!Forget
<1>1. CASE \E p \in AllPosts : CreatePost(p)
  <2>1. read' = [u \in Users |-> read[u] \ {}] /\ UNCHANGED <<subs, saved>>
    BY <1>1, InvParts DEF CreatePost, Tables
  <2>2. QED
    BY <2>1 DEF Promise!Forget
<1>2. CASE \E ps \in SUBSET AllPosts : PrunePosts(ps)
  BY <1>2 DEF PrunePosts, Promise!Forget
<1>3. QED
  BY <1>1, <1>2

(* Each account sees a store of its own, whatever the others do.           *)
THEOREM EachAccountHasItsShelf == Spec => ImplementsShelves
<1>1. Init => Promise!Init
  BY DEF Init, Promise!Init
<1>2. Inv /\ [Next]_vars => [Promise!Next]_Promise!vars
  <2> SUFFICES ASSUME Inv, [Next]_vars
               PROVE  [Promise!Next]_Promise!vars
    OBVIOUS
  <2>1. CASE UNCHANGED vars
    BY <2>1 DEF vars, tables, Promise!vars
  <2>2. CASE Next
    BY <2>2, RequestIsAct, ServerForgets DEF Next, Promise!Next
  <2>3. QED
    BY <2>1, <2>2
<1>3. QED
  BY <1>1, <1>2, InvHolds, PTL DEF Spec, ImplementsShelves, Promise!Spec

-----------------------------------------------------------------------------
(* Least and greatest elements *)

LEMMA LeastElement ==
  ASSUME NEW S \in SUBSET Nat, S # {}
  PROVE  \E m \in S : \A k \in S : m <= k
<1>1. PICK m \in S : \A k \in S : ~(<<k, m>> \in OpToRel(<, Nat))
  BY NatLessThanWellFounded, WFMin
<1>2. \A k \in S : ~(k < m)
  BY <1>1 DEF OpToRel
<1>3. QED
  BY <1>2

\* What holds of k and passes from one number to the next holds up to n.
LEMMA Upward ==
  ASSUME NEW n \in Nat, NEW k \in 0..n, NEW good, k \in good,
         \A i \in k..(n - 1) : i \in good => i + 1 \in good
  PROVE  \A i \in k..n : i \in good
<1> DEFINE bad == {i \in k..n : i \notin good}
<1>1. ASSUME bad # {}
      PROVE  FALSE
  <2>1. PICK m \in bad : \A i \in bad : m <= i
    <3>1. bad \in SUBSET Nat
      OBVIOUS
    <3> HIDE DEF bad
    <3>2. QED
      BY <1>1, <3>1, LeastElement
  <2>2. m - 1 \in k..(n - 1) /\ ~(m <= m - 1)
    OBVIOUS
  <2>3. m - 1 \in good
    BY <2>1, <2>2
  <2>4. QED
    BY <2>2, <2>3
<1>2. QED
  BY <1>1

LEMMA OfTwo ==
  ASSUME NEW a \in Int, NEW b \in Int
  PROVE  /\ Max({a, b}) = IF a >= b THEN a ELSE b
         /\ Min({a, b}) = IF a <= b THEN a ELSE b
<1> DEFINE g == IF a >= b THEN a ELSE b
           l == IF a <= b THEN a ELSE b
<1>1. g \in {a, b} /\ \A y \in {a, b} : g >= y
  OBVIOUS
<1>2. l \in {a, b} /\ \A y \in {a, b} : l <= y
  OBVIOUS
<1>3. Max({a, b}) \in {a, b} /\ \A y \in {a, b} : Max({a, b}) >= y
  BY <1>1 DEF Max
<1>4. Min({a, b}) \in {a, b} /\ \A y \in {a, b} : Min({a, b}) <= y
  BY <1>2 DEF Min
<1>5. QED
  BY <1>3, <1>4

-----------------------------------------------------------------------------
(* Names and words *)

LEMMA Letters == Percent # Underscore /\ Percent # Backslash /\ Underscore # Backslash
  BY DEF Percent, Underscore, Backslash

\* A pattern without a backslash escapes nothing.
LEMMA NothingEscaped ==
  ASSUME NEW n \in Nat, NEW pattern, \A i \in 1..n : pattern[i] # Backslash,
         NEW i \in 1..n
  PROVE  ~Escaped(pattern, i)
<1> SUFFICES ASSUME NEW k \in 0..(i - 1), (i - 1 - k) % 2 = 1,
                    \A j \in (k + 1)..(i - 1) : pattern[j] = Backslash
             PROVE  FALSE
  BY DEF Escaped
<1>1. k # i - 1
  OBVIOUS
<1>2. i - 1 \in (k + 1)..(i - 1) /\ i - 1 \in 1..n
  BY <1>1
<1>3. QED
  BY <1>2

LEMMA PatternIs ==
  ASSUME NEW word \in Text
  PROVE  LET n == Len(word)
             pattern == <<Percent>> \o word \o <<Percent>>
         IN /\ n \in Nat /\ Len(pattern) = n + 2 /\ DOMAIN pattern = 1..(n + 2)
            /\ DOMAIN word = 1..n
            /\ pattern[1] = Percent /\ pattern[n + 2] = Percent
            /\ \A i \in 1..n : pattern[1 + i] = word[i]
            /\ \A i \in 1..(n + 2) : i = 1 \/ i = n + 2 \/ \E j \in 1..n : i = 1 + j
<1> DEFINE n == Len(word)
           head == <<Percent>> \o word
           pattern == head \o <<Percent>>
<1> DEFINE Letter == STRING \cup {Percent}
<1>1. n \in Nat /\ DOMAIN word = 1..n /\ word \in Seq(Letter)
  BY DEF Text
<1>2. <<Percent>> \in Seq(Letter) /\ Len(<<Percent>>) = 1 /\ <<Percent>>[1] = Percent
  OBVIOUS
<1> HIDE DEF Letter
<1>3. /\ head \in Seq(Letter) /\ Len(head) = n + 1 /\ head[1] = Percent
      /\ \A i \in 1..n : head[1 + i] = word[i]
  BY <1>1, <1>2
<1> HIDE DEF head
<1>4. /\ pattern \in Seq(Letter) /\ Len(pattern) = n + 2
      /\ pattern[n + 2] = Percent /\ \A i \in 1..(n + 1) : pattern[i] = head[i]
  BY <1>1, <1>2, <1>3
<1> HIDE DEF n
<1>5. DOMAIN pattern = 1..(n + 2)
  BY <1>1, <1>4
<1>6. pattern[1] = Percent /\ \A i \in 1..n : pattern[1 + i] = word[i]
  BY <1>1, <1>3, <1>4
<1>7. \A i \in 1..(n + 2) : i = 1 \/ i = n + 2 \/ \E j \in 1..n : i = 1 + j
  <2> TAKE i \in 1..(n + 2)
  <2>1. i = 1 \/ i = n + 2 \/ (i - 1 \in 1..n /\ i = 1 + (i - 1))
    BY <1>1
  <2>2. QED
    BY <2>1
<1>8. QED
  BY <1>1, <1>4, <1>5, <1>6, <1>7 DEF n, head

\* A pattern in which nothing is escaped.
LEMMA LikeIs ==
  ASSUME NEW n \in Nat, NEW m, NEW title, Len(title) = m,
         NEW pattern, Len(pattern) = n, DOMAIN pattern = 1..n,
         \A i \in 1..n : ~Escaped(pattern, i)
  PROVE  Like(title, pattern) <=>
            \E at \in [0..n -> 0..m] :
                /\ at[0] = 0
                /\ at[n] = m
                /\ \A i \in 1..n : Matched(title, at, pattern[i], i)
<1> DEFINE letter(i) == IF Escaped(pattern, i) THEN "" ELSE pattern[i]
<1>1. Like(title, pattern) <=>
         \E at \in [0..n -> 0..m] :
             at[0] = 0 /\ at[n] = m /\ \A i \in 1..n : Matched(title, at, letter(i), i)
  BY DEF Like
<1>2. \A i \in 1..n : letter(i) = pattern[i]
  OBVIOUS
<1> HIDE DEF letter
<1>3. QED
  BY <1>1, <1>2

\* What strings.Contains finds ILIKE finds too, unless the word escapes.
LEMMA FindsMore ==
  ASSUME NEW title \in Text, NEW word \in Text, NoEscape(word), Holds(title, word)
  PROVE  ILike(title, word)
<1> DEFINE n == Len(word)
           m == Len(title)
           pattern == <<Percent>> \o word \o <<Percent>>
<1>1. /\ n \in Nat /\ Len(pattern) = n + 2 /\ DOMAIN pattern = 1..(n + 2)
      /\ DOMAIN word = 1..n
      /\ pattern[1] = Percent /\ pattern[n + 2] = Percent
      /\ \A i \in 1..n : pattern[1 + i] = word[i]
      /\ \A i \in 1..(n + 2) : i = 1 \/ i = n + 2 \/ \E j \in 1..n : i = 1 + j
  BY PatternIs
<1>2. m \in Nat
  BY DEF Text
<1>3. PICK k \in 0..(m - n) : \A i \in 1..n : title[k + i] = word[i]
  BY <1>1 DEF Holds
<1>4. ILike(title, word) = Like(title, pattern)
  BY DEF ILike
<1> HIDE DEF n, m, pattern
<1>5. \A i \in 1..(n + 2) : ~Escaped(pattern, i)
  <2>1. \A i \in 1..(n + 2) : pattern[i] # Backslash
    <3>1. \A j \in 1..n : pattern[1 + j] # Backslash
      BY <1>1 DEF NoEscape
    <3>2. QED
      BY <1>1, <3>1, Letters
  <2>2. n + 2 \in Nat
    BY <1>1
  <2>3. QED
    BY <2>1, <2>2, NothingEscaped
<1> DEFINE at == [i \in 0..(n + 2) |->
                     IF i = 0 THEN 0 ELSE IF i = n + 2 THEN m ELSE k + i - 1]
<1>6. at \in [0..(n + 2) -> 0..m]
  <2>1. \A i \in 0..(n + 2) :
           (IF i = 0 THEN 0 ELSE IF i = n + 2 THEN m ELSE k + i - 1) \in 0..m
    BY <1>1, <1>2, <1>3
  <2>2. QED
    BY <2>1
<1>7. /\ at[0] = 0 /\ at[n + 2] = m /\ at[1] = k /\ at[n + 1] = k + n
      /\ \A i \in 1..n : at[1 + i] = k + i /\ at[1 + i - 1] = k + i - 1
  <2>1. 0 \in 0..(n + 2) /\ 1 \in 0..(n + 2) /\ n + 1 \in 0..(n + 2) /\ n + 2 \in 0..(n + 2)
        /\ 1 # 0 /\ 1 # n + 2 /\ n + 1 # 0 /\ n + 1 # n + 2 /\ n + 2 # 0
    BY <1>1
  <2>2. \A i \in 1..n : /\ 1 + i \in 0..(n + 2) /\ 1 + i # 0 /\ 1 + i # n + 2
                        /\ 1 + i - 1 \in 0..(n + 2) /\ 1 + i - 1 # 0 /\ 1 + i - 1 # n + 2
    BY <1>1
  <2>3. at[1] = k + 1 - 1 /\ at[n + 1] = k + (n + 1) - 1
    BY <2>1
  <2>4. \A i \in 1..n : at[1 + i] = k + (1 + i) - 1 /\ at[1 + i - 1] = k + (1 + i - 1) - 1
    BY <2>2
  <2>5. at[0] = 0 /\ at[n + 2] = m
    BY <2>1
  <2> HIDE DEF at
  <2>6. QED
    BY <1>1, <1>3, <2>3, <2>4, <2>5
<1> HIDE DEF at
<1>8. \A i \in 1..(n + 2) : Matched(title, at, pattern[i], i)
  <2> TAKE i \in 1..(n + 2)
  <2>1. CASE i = 1
    <3>1. i - 1 = 0 /\ at[i] >= at[i - 1]
      BY <1>3, <1>7, <2>1
    <3>2. pattern[i] = Percent
      BY <1>1, <2>1
    <3>3. QED
      BY <3>1, <3>2, Letters DEF Matched
  <2>2. CASE i = n + 2
    <3>1. at[i] >= at[i - 1]
      BY <1>1, <1>2, <1>3, <1>7, <2>2
    <3>2. pattern[i] = Percent
      BY <1>1, <2>2
    <3>3. QED
      BY <3>1, <3>2, Letters DEF Matched
  <2>3. ASSUME NEW j \in 1..n, i = 1 + j
        PROVE  Matched(title, at, pattern[i], i)
    <3>1. at[i] = k + j /\ at[i - 1] = k + j - 1
      BY <1>7, <2>3
    <3>2. at[i] = at[i - 1] + 1 /\ at[i] >= at[i - 1]
      BY <1>1, <1>3, <3>1
    <3>3. title[at[i]] = pattern[i] /\ pattern[i] # Backslash
      BY <1>1, <1>3, <2>3, <3>1 DEF NoEscape
    <3>4. QED
      BY <3>2, <3>3, Letters DEF Matched
  <2>4. QED
    BY <1>1, <2>1, <2>2, <2>3
<1>9. Like(title, pattern)
  <2> DEFINE l == n + 2
  <2>1. Len(title) = m /\ l \in Nat
    BY <1>1 DEF m
  <2> HIDE DEF l
  <2>2. /\ Len(pattern) = l /\ DOMAIN pattern = 1..l
        /\ \A i \in 1..l : ~Escaped(pattern, i)
        /\ at \in [0..l -> 0..m] /\ at[0] = 0 /\ at[l] = m
        /\ \A i \in 1..l : Matched(title, at, pattern[i], i)
    BY <1>1, <1>5, <1>6, <1>7, <1>8 DEF l
  <2>3. QED
    BY <2>1, <2>2, LikeIs
<1>10. QED
  BY <1>4, <1>9

\* Of a word that is no pattern both find the same.
LEMMA PlainFinds ==
  ASSUME NEW title \in Text, NEW word \in Text, Plain(word)
  PROVE  ILike(title, word) <=> Holds(title, word)
<1> DEFINE n == Len(word)
           m == Len(title)
           pattern == <<Percent>> \o word \o <<Percent>>
<1>1. /\ n \in Nat /\ Len(pattern) = n + 2 /\ DOMAIN pattern = 1..(n + 2)
      /\ DOMAIN word = 1..n
      /\ pattern[1] = Percent /\ pattern[n + 2] = Percent
      /\ \A i \in 1..n : pattern[1 + i] = word[i]
      /\ \A i \in 1..(n + 2) : i = 1 \/ i = n + 2 \/ \E j \in 1..n : i = 1 + j
  BY PatternIs
<1>2. m \in Nat
  BY DEF Text
<1>3. Holds(title, word) => ILike(title, word)
  <2>1. NoEscape(word)
    BY DEF Plain, NoEscape
  <2>2. QED
    BY <2>1, FindsMore
<1>4. ASSUME Like(title, pattern)
      PROVE  Holds(title, word)
  <2> HIDE DEF n, m, pattern
  <2>1. \A i \in 1..(n + 2) : ~Escaped(pattern, i)
    <3>1. \A i \in 1..(n + 2) : pattern[i] # Backslash
      <4>1. \A j \in 1..n : pattern[1 + j] # Backslash
        BY <1>1 DEF Plain
      <4>2. QED
        BY <1>1, <4>1, Letters
    <3>2. n + 2 \in Nat
      BY <1>1
    <3>3. QED
      BY <3>1, <3>2, NothingEscaped
  <2> DEFINE l == n + 2
  <2>2. Len(title) = m /\ l \in Nat
    BY <1>1 DEF m
  <2> HIDE DEF l
  <2>3. /\ Len(pattern) = l /\ DOMAIN pattern = 1..l
        /\ \A i \in 1..l : ~Escaped(pattern, i)
    BY <1>1, <2>1 DEF l
  <2>4. PICK at \in [0..(n + 2) -> 0..m] :
           /\ at[n + 2] = m
           /\ \A i \in 1..(n + 2) : Matched(title, at, pattern[i], i)
    <3>1. PICK at \in [0..l -> 0..m] :
             /\ at[0] = 0
             /\ at[l] = m
             /\ \A i \in 1..l : Matched(title, at, pattern[i], i)
      BY <1>4, <2>2, <2>3, LikeIs
    <3>2. QED
      BY <3>1 DEF l
  <2>5. \A i \in 0..(n + 2) : at[i] \in 0..m
    BY <2>4
  <2>6. \A i \in 1..n : at[1 + i] = at[i] + 1 /\ title[at[1 + i]] = word[i]
    <3> TAKE i \in 1..n
    <3>1. 1 + i \in 1..(n + 2) /\ 1 + i - 1 = i
      BY <1>1
    <3>2. pattern[1 + i] = word[i] /\ word[i] \notin {Percent, Underscore, Backslash}
      BY <1>1 DEF Plain
    <3>3. at[1 + i] = at[1 + i - 1] + 1 /\ title[at[1 + i]] = pattern[1 + i]
      BY <2>4, <3>1, <3>2 DEF Matched
    <3>4. QED
      BY <3>1, <3>2, <3>3
  <2> DEFINE good == {i \in 1..(n + 1) : at[i] = at[1] + i - 1}
  <2>7. \A i \in 1..(n + 1) : i \in good
    <3>1. n \in Nat /\ n + 1 \in Nat /\ 1 \in 0..(n + 1) /\ at[1] \in 0..m
      BY <1>1, <2>5
    <3>2. 1 \in good
      BY <3>1
    <3>3. \A i \in 1..(n + 1 - 1) : i \in good => i + 1 \in good
      <4> SUFFICES ASSUME NEW i \in 1..n, at[i] = at[1] + i - 1
                   PROVE  i + 1 \in 1..(n + 1) /\ at[i + 1] = at[1] + (i + 1) - 1
        BY <1>1
      <4>1. at[1 + i] = at[i] + 1 /\ 1 + i = i + 1
        BY <2>6
      <4>2. QED
        BY <1>1, <3>1, <4>1
    <3> DEFINE last == n + 1
    <3> HIDE DEF good, last
    <3>4. last \in Nat /\ 1 \in 0..last /\ \A i \in 1..(last - 1) : i \in good => i + 1 \in good
      BY <3>1, <3>3 DEF last
    <3>5. QED
      <4>1. \A i \in 1..last : i \in good
        BY <3>2, <3>4, Upward
      <4>2. QED
        BY <4>1 DEF last
  <2> DEFINE k == at[1]
  <2>8. k \in 0..m /\ at[n + 1] = k + n
    <3>1. n + 1 \in 1..(n + 1) /\ 1 \in 0..(n + 2)
      BY <1>1
    <3>2. at[n + 1] = at[1] + (n + 1) - 1
      BY <2>7, <3>1
    <3>3. QED
      BY <1>1, <2>5, <3>1, <3>2
  <2>9. k + n <= m
    <3>1. n + 2 \in 1..(n + 2) /\ n + 2 - 1 = n + 1
      BY <1>1
    <3>2. at[n + 2] >= at[n + 2 - 1]
      BY <1>1, <2>4, <3>1, Letters DEF Matched
    <3>3. QED
      BY <1>2, <2>4, <2>8, <3>1, <3>2
  <2>10. \A i \in 1..n : title[k + i] = word[i]
    <3> TAKE i \in 1..n
    <3>1. 1 + i \in 1..(n + 1)
      BY <1>1
    <3>2. at[1 + i] = at[1] + (1 + i) - 1
      BY <2>7, <3>1
    <3>3. at[1 + i] = k + i
      BY <2>8, <3>2
    <3>4. QED
      BY <2>6, <3>3
  <2> HIDE DEF k, good
  <2>11. k \in 0..(m - n)
    BY <1>1, <1>2, <2>8, <2>9
  <2>12. QED
    BY <1>1, <2>2, <2>10, <2>11 DEF Holds, n
<1>5. QED
  BY <1>3, <1>4 DEF ILike

-----------------------------------------------------------------------------
(* Lists in order *)

\* A list of s holds each member once, and none after one that comes before.
LEMMA ListingIs ==
  ASSUME NEW s, IsFiniteSet(s), NEW order, NEW l \in Listings(s, order)
  PROVE  LET n == Cardinality(s)
         IN /\ n \in Nat /\ l \in [1..n -> s] /\ l \in Seq(s) /\ Len(l) = n
            /\ \A x \in s : \E i \in 1..n : l[i] = x
            /\ ToSet(l) = s
            /\ \A i, j \in 1..n : i < j => l[i] # l[j] /\ <<l[j], l[i]>> \notin order
<1> DEFINE n == Cardinality(s)
<1>1. n \in Nat /\ IsFiniteSet(1..n) /\ Cardinality(1..n) = n
  BY FS_CardinalityType, FS_Interval
<1>2. /\ l \in [1..n -> s]
      /\ \A i, j \in 1..n : i < j => l[i] # l[j] /\ <<l[j], l[i]>> \notin order
  BY DEF Listings
<1>3. l \in Injection(1..n, s)
  <2>1. \A i, j \in 1..n : l[i] = l[j] => i = j
    <3> SUFFICES ASSUME NEW i \in 1..n, NEW j \in 1..n, l[i] = l[j]
                 PROVE  i = j
      OBVIOUS
    <3>1. ~(i < j) /\ ~(j < i)
      BY <1>2
    <3>2. QED
      BY <3>1
  <2> HIDE DEF n
  <2>2. QED
    BY <1>2, <2>1 DEF Injection, IsInjective
<1>4. \A x \in s : \E i \in 1..n : l[i] = x
  <2>1. l \in Surjection(1..n, s)
    BY <1>1, <1>3, FS_Injection
  <2>2. QED
    BY <2>1 DEF Surjection
<1> HIDE DEF n
<1>5. l \in Seq(s) /\ Len(l) = n
  BY <1>1, <1>2
<1>6. ToSet(l) = s
  BY <1>2, <1>4 DEF ToSet
<1>7. QED
  BY <1>1, <1>2, <1>4, <1>5, <1>6 DEF n

LEMMA IsAListing ==
  ASSUME NEW s, NEW order, NEW n \in Nat, NEW l \in [1..n -> s],
         \A x \in s : \E i \in 1..n : l[i] = x,
         \A i, j \in 1..n : i < j => l[i] # l[j] /\ <<l[j], l[i]>> \notin order
  PROVE  l \in Listings(s, order)
<1>1. \A i, j \in 1..n : l[i] = l[j] => i = j
  <2> SUFFICES ASSUME NEW i \in 1..n, NEW j \in 1..n, l[i] = l[j]
               PROVE  i = j
    OBVIOUS
  <2>1. ~(i < j) /\ ~(j < i)
    OBVIOUS
  <2>2. QED
    BY <2>1
<1>2. l \in Bijection(1..n, s)
  BY <1>1 DEF Bijection, Injection, Surjection, IsInjective
<1>3. Cardinality(s) = n
  BY <1>2, FS_CountingElements DEF ExistsBijection
<1>4. DOMAIN l = 1..n
  OBVIOUS
<1>5. QED
  BY <1>3, <1>4 DEF Listings

\* Lists of an order are lists of every order that asks for less.
LEMMA ListedAlso ==
  ASSUME NEW s, NEW order, NEW l \in Listings(s, order), NEW less,
         \A x, y \in s : <<x, y>> \in less => <<x, y>> \in order
  PROVE  l \in Listings(s, less)
<1>1. \A i \in DOMAIN l : l[i] \in s
  BY DEF Listings
<1>2. \A i, j \in DOMAIN l : i < j => <<l[j], l[i]>> \notin less
  BY <1>1 DEF Listings
<1>3. QED
  BY <1>2 DEF Listings

-----------------------------------------------------------------------------
(* The digest *)

\* By two collations that put the feeds of found alike, where their newest
\* posts are of one time, found is ordered alike.
LEMMA OrderedAlike ==
  ASSUME NEW found \in SUBSET AllPosts,
         NEW one \in [Feeds -> Nat], NEW two \in [Feeds -> Nat],
         \A p, r \in found :
            Fresh(FeedOf[p], found) = Fresh(FeedOf[r], found)
            => (one[FeedOf[p]] < one[FeedOf[r]] <=> two[FeedOf[p]] < two[FeedOf[r]]),
         NEW p \in found, NEW r \in found
  PROVE  <<p, r>> \in ByFeed(found, one) <=> <<p, r>> \in ByFeed(found, two)
<1> DEFINE f == FeedOf[p]
           g == FeedOf[r]
           fresh == Fresh(f, found) = Fresh(g, found)
<1>1. f \in Feeds /\ g \in Feeds
  BY QueriesAssumption
<1>2. one[f] \in Nat /\ one[g] \in Nat /\ two[f] \in Nat /\ two[g] \in Nat
  BY <1>1
<1>3. fresh => /\ one[f] < one[g] <=> two[f] < two[g]
               /\ one[g] < one[f] <=> two[g] < two[f]
  OBVIOUS
<1>4. fresh => (one[f] = one[g] <=> two[f] = two[g])
  BY <1>2, <1>3
<1> HIDE DEF f, g, fresh
<1>5. \A place : <<p, r>> \in ByFeed(found, place) <=>
          \/ Fresh(f, found) > Fresh(g, found)
          \/ fresh /\ (place[f] < place[g] \/ (place[f] = place[g] /\ Newer(p, r)))
  BY DEF ByFeed, f, g, fresh
<1>6. QED
  BY <1>3, <1>4, <1>5

\* The first posts of each feed, taken from the sorted list, are those the
\* row numbers of SQL keep, and stand as SQL may list them.
LEMMA DigestIsTheServers ==
  ASSUME NEW found \in SUBSET AllPosts, NEW perFeed \in Nat, NEW place,
         NEW sorted \in Listings(found, ByFeed(found, place)),
         \A p, r \in found : <<p, r>> \in ByFeed(found, place)
                             <=> <<p, r>> \in ByFeed(found, Collated),
         NEW list \in Digest(sorted, perFeed)
  PROVE  /\ sorted \in Listings(found, PerFeed(found))
         /\ list \in Listings(Ranked(sorted, perFeed), ByFeed(found, Collated))
         /\ Ranked(sorted, perFeed) \in SUBSET found
<1> DEFINE n == Cardinality(found)
           seen(i) == {j \in 1..(i - 1) : FeedOf[sorted[j]] = FeedOf[sorted[i]]}
           rank(i) == Cardinality({j \in 1..i : FeedOf[sorted[j]] = FeedOf[sorted[i]]})
           first == Ranked(sorted, perFeed)
           kept == {i \in 1..n : Seen(sorted, i) < perFeed}
           lt == {pr \in kept \X kept : pr[1] < pr[2]}
           m == Cardinality(kept)
<1>1. IsFiniteSet(found) /\ \A p \in found : FeedOf[p] \in Feeds
  BY QueriesAssumption, FS_Subset
<1>2. /\ n \in Nat /\ sorted \in [1..n -> found] /\ Len(sorted) = n
      /\ \A x \in found : \E i \in 1..n : sorted[i] = x
      /\ \A i, j \in 1..n : i < j => /\ sorted[i] # sorted[j]
                                     /\ <<sorted[j], sorted[i]>> \notin ByFeed(found, place)
  BY <1>1, ListingIs
<1>3. sorted \in Listings(found, PerFeed(found))
  <2>1. \A p, r \in found : <<p, r>> \in PerFeed(found) => <<p, r>> \in ByFeed(found, place)
    BY DEF PerFeed, ByTime, InOrder, ByFeed
  <2>2. QED
    BY <2>1, ListedAlso
<1>4. DOMAIN sorted = 1..n
  BY <1>2
<1> HIDE DEF n
<1>5. \A i \in 1..n : rank(i) <= perFeed <=> Seen(sorted, i) < perFeed
  <2> TAKE i \in 1..n
  <2>1. i - 1 \in Int
    BY <1>2
  <2>2. seen(i) \in SUBSET (1..(i - 1)) /\ IsFiniteSet(1..(i - 1)) /\ i \notin seen(i)
    BY <2>1, FS_Interval
  <2>3. IsFiniteSet(seen(i)) /\ Cardinality(seen(i)) \in Nat
    BY <2>2, FS_Subset, FS_CardinalityType
  <2>4. {j \in 1..i : FeedOf[sorted[j]] = FeedOf[sorted[i]]} = seen(i) \cup {i}
    BY <1>2
  <2>5. Cardinality(seen(i) \cup {i}) = Cardinality(seen(i)) + 1
    BY <2>2, <2>3, FS_AddElement
  <2>6. rank(i) = Cardinality(seen(i)) + 1 /\ Seen(sorted, i) = Cardinality(seen(i))
    BY <2>4, <2>5 DEF Seen
  <2> HIDE DEF rank, seen
  <2>7. QED
    BY <2>3, <2>6
<1>6. first = {sorted[i] : i \in {k \in DOMAIN sorted : rank(k) <= perFeed}}
  BY DEF Ranked
<1> HIDE DEF first, rank, seen
<1>7. first = {sorted[i] : i \in kept}
  BY <1>4, <1>5, <1>6
<1>8. kept \in SUBSET (1..n) /\ IsFiniteSet(kept)
  <2>1. IsFiniteSet(1..n)
    BY <1>2, FS_Interval
  <2>2. QED
    BY <2>1, FS_Subset
<1>9. Digest(sorted, perFeed) = InTurn(sorted, kept)
  <2>1. {i \in DOMAIN sorted : Seen(sorted, i) < perFeed} = kept
    BY <1>4
  <2> HIDE DEF kept
  <2>2. QED
    BY <2>1 DEF Digest
<1> HIDE DEF kept
<1> HIDE DEF lt
<1>10. PICK turn \in Listings(kept, lt) : list = [k \in DOMAIN turn |-> sorted[turn[k]]]
  BY <1>9 DEF InTurn, lt
<1>11. /\ m \in Nat /\ turn \in [1..m -> kept]
       /\ \A i \in kept : \E k \in 1..m : turn[k] = i
       /\ \A j, k \in 1..m : j < k => turn[j] # turn[k] /\ <<turn[k], turn[j]>> \notin lt
  <2>1. turn \in Listings(kept, lt) /\ IsFiniteSet(kept)
    BY <1>8, <1>10
  <2>2. /\ m \in Nat /\ turn \in [1..m -> kept]
        /\ \A i \in kept : \E k \in 1..m : turn[k] = i
    BY <2>1, ListingIs
  <2>3. \A j, k \in 1..m : j < k => turn[j] # turn[k] /\ <<turn[k], turn[j]>> \notin lt
    BY <2>1, ListingIs
  <2>4. QED
    BY <2>2, <2>3
<1> HIDE DEF m
<1>12. \A j, k \in 1..m : j < k => turn[j] < turn[k]
  <2> SUFFICES ASSUME NEW j \in 1..m, NEW k \in 1..m, j < k
               PROVE  turn[j] < turn[k]
    OBVIOUS
  <2>1. turn[j] \in kept /\ turn[k] \in kept /\ turn[j] \in 1..n /\ turn[k] \in 1..n
    BY <1>8, <1>11
  <2>2. turn[j] # turn[k] /\ ~(turn[k] < turn[j])
    BY <1>11, <2>1 DEF lt
  <2>3. QED
    BY <2>1, <2>2
<1>13. list = [k \in 1..m |-> sorted[turn[k]]]
  BY <1>10, <1>11
<1>14. list \in [1..m -> first]
  BY <1>7, <1>11, <1>13
<1>15. \A x \in first : \E k \in 1..m : list[k] = x
  BY <1>7, <1>11, <1>13
<1>16. \A j, k \in 1..m : j < k => /\ list[j] # list[k]
                                  /\ <<list[k], list[j]>> \notin ByFeed(found, Collated)
  <2> SUFFICES ASSUME NEW j \in 1..m, NEW k \in 1..m, j < k
               PROVE  /\ list[j] # list[k]
                      /\ <<list[k], list[j]>> \notin ByFeed(found, Collated)
    OBVIOUS
  <2>1. turn[j] < turn[k] /\ turn[j] \in 1..n /\ turn[k] \in 1..n
    BY <1>8, <1>11, <1>12
  <2>2. list[j] = sorted[turn[j]] /\ list[k] = sorted[turn[k]]
    BY <1>13
  <2>3. /\ sorted[turn[j]] # sorted[turn[k]]
        /\ <<sorted[turn[k]], sorted[turn[j]]>> \notin ByFeed(found, place)
        /\ sorted[turn[j]] \in found /\ sorted[turn[k]] \in found
    BY <1>2, <2>1
  <2>4. QED
    BY <2>2, <2>3
<1>17. list \in Listings(first, ByFeed(found, Collated))
  BY <1>11, <1>14, <1>15, <1>16, IsAListing
<1>18. first \in SUBSET found
  BY <1>2, <1>7, <1>8
<1>19. QED
  BY <1>3, <1>17, <1>18 DEF first

-----------------------------------------------------------------------------
(* Every list *)

\* A snapshot that holds what the server holds finds the posts the server
\* finds, or some of them when ILIKE takes _ or % for a pattern.
LEMMA FoundAlike ==
  ASSUME NEW sn, NEW sh, sh.posts \in SUBSET AllPosts, Agrees(sn, sh),
         NEW q \in Asked,
         NEW there, there = IF q.word # <<>> THEN Searched(sh, q) ELSE Selected(sh, q)
  PROVE  /\ Found(sn, q) \in SUBSET AllPosts
         /\ \A p \in Found(sn, q) : FeedOf[p] \in DOMAIN sn.subs
         /\ Plain(q.name) /\ Plain(q.word) => Found(sn, q) = there
         /\ NoEscape(q.name) /\ NoEscape(q.word) => Found(sn, q) \subseteq there
<1> DEFINE found == Found(sn, q)
           name(p) == NameOf[FeedOf[p]]
<1>1. /\ q \in Query
      /\ q.word # <<>> => q = [Everything EXCEPT !.word = q.word, !.limit = q.limit]
  BY CacheAssumption
<1>2. q.name \in Text /\ q.word \in Text
  BY <1>1 DEF Query
<1>3. sn.posts = Followed(sh) /\ sn.read = sh.read /\ sn.subs = sh.subs
  BY DEF Agrees
<1>4. \A p \in Followed(sh) : FeedOf[p] \in DOMAIN sh.subs /\ p \in AllPosts
  BY DEF Followed
<1>5. \A p \in AllPosts : name(p) \in Text /\ TextsOf[p] \in SUBSET Text
  BY QueriesAssumption
<1>6. \A p \in AllPosts : TimeOf[p] >= 0
  BY QueriesAssumption
<1>7. found \in SUBSET AllPosts /\ \A p \in found : FeedOf[p] \in DOMAIN sn.subs
  BY <1>3, <1>4 DEF Found
<1>8. NoEscape(q.name) =>
         \A p \in AllPosts : Holds(name(p), q.name) => ILike(name(p), q.name)
  BY <1>2, <1>5, FindsMore
<1>9. NoEscape(q.word) =>
         \A p \in AllPosts : \A t \in TextsOf[p] : Holds(t, q.word) => ILike(t, q.word)
  BY <1>2, <1>5, FindsMore
<1>10. Plain(q.name) =>
          \A p \in AllPosts : Holds(name(p), q.name) <=> ILike(name(p), q.name)
  BY <1>2, <1>5, PlainFinds
<1>11. Plain(q.word) =>
          \A p \in AllPosts : \A t \in TextsOf[p] : Holds(t, q.word) <=> ILike(t, q.word)
  BY <1>2, <1>5, PlainFinds
<1>12. CASE q.word # <<>>
  <2>1. q.feed = 0 /\ q.name = <<>> /\ q.read = "all" /\ q.since = 0
    BY <1>1, <1>12 DEF Everything
  <2>2. \A p : p \in found <=> /\ p \in Followed(sh)
                               /\ \E t \in TextsOf[p] : Holds(t, q.word)
    BY <1>3, <1>4, <1>6, <1>12, <2>1 DEF Found
  <2>3. \A p : p \in there <=> /\ p \in Followed(sh)
                               /\ \E t \in TextsOf[p] : ILike(t, q.word)
    BY <1>12 DEF Searched
  <2> HIDE DEF found
  <2>4. Plain(q.word) => found = there
    BY <1>4, <1>11, <2>2, <2>3
  <2>5. NoEscape(q.word) => found \subseteq there
    BY <1>4, <1>9, <2>2, <2>3
  <2>6. QED
    BY <1>7, <2>4, <2>5 DEF found
<1>13. CASE ~(q.word # <<>>)
  <2> DEFINE other(p) == /\ q.feed # 0 => FeedOf[p] = q.feed
                         /\ q.read = "unread" => p \notin sh.read
                         /\ q.read = "read" => p \in sh.read
                         /\ TimeOf[p] >= q.since
  <2>1. \A p : p \in found <=> /\ p \in Followed(sh) /\ other(p)
                               /\ q.name # <<>> => Holds(name(p), q.name)
    BY <1>3, <1>4, <1>13 DEF Found
  <2>2. \A p : p \in there <=> /\ p \in Followed(sh) /\ other(p)
                               /\ q.name # <<>> => ILike(name(p), q.name)
    BY <1>13 DEF Selected
  <2> HIDE DEF found, other, name
  <2>3. Plain(q.name) => found = there
    BY <1>4, <1>10, <2>1, <2>2
  <2>4. NoEscape(q.name) => found \subseteq there
    BY <1>4, <1>8, <2>1, <2>2
  <2>5. QED
    BY <1>7, <2>3, <2>4 DEF found
<1>14. QED
  BY <1>12, <1>13

\* Cutting a page out of a list is the same for the snapshot as for SQL.
LEMMA Page ==
  ASSUME NEW list, Len(list) \in Nat, NEW q \in Query, q.limit > 0
  PROVE  (IF q.offset >= Len(list) THEN <<>>
          ELSE IF q.limit > 0 THEN Upto(list, q)
          ELSE SubSeq(list, q.offset + 1, Len(list))) = Upto(list, q)
<1>1. q.limit \in Nat /\ q.offset \in Nat
  BY DEF Query
<1>2. CASE q.offset >= Len(list)
  <2>1. Max({Len(list) - q.offset, 0}) = 0
    <3>1. Len(list) - q.offset \in Int /\ ~(Len(list) - q.offset > 0)
      BY <1>1, <1>2
    <3>2. QED
      BY <3>1, OfTwo
  <2>2. Min({q.limit, 0}) = 0
    <3>1. \A k \in Int : k > 0 => Min({k, 0}) = 0
      <4> TAKE k \in Int
      <4>1. 0 \in Int
        OBVIOUS
      <4>2. Min({k, 0}) = IF k <= 0 THEN k ELSE 0
        BY <4>1, OfTwo, Zenon
      <4>3. QED
        BY <4>2
    <3>2. q.limit \in Int
      BY <1>1
    <3>3. QED
      BY <3>1, <3>2
  <2>3. Upto(list, q) = [i \in 1..0 |-> list[q.offset + i]]
    BY <2>1, <2>2 DEF Upto
  <2>4. Upto(list, q) = <<>>
    BY <2>3
  <2>5. QED
    BY <1>2, <2>4
<1>3. CASE ~(q.offset >= Len(list))
  BY <1>3
<1>4. QED
  BY <1>2, <1>3

\* ... and lists them as the server may.
LEMMA SameLists ==
  ASSUME NEW sn, NEW sh, sh.posts \in SUBSET AllPosts, Agrees(sn, sh),
         NEW q \in Asked, Plain(q.name), Plain(q.word),
         q.perFeed > 0 => TiesAlike(Found(sn, q)),
         NEW answer \in SelectPosts(sn, q)
  PROVE  answer \in Posts(sh, q)
<1> DEFINE found == Found(sn, q)
           place == Placed(sn)
           lists == IF q.perFeed > 0
                    THEN UNION {Digest(sorted, q.perFeed) :
                                   sorted \in Listings(found, ByFeed(found, place))}
                    ELSE Listings(found, ByTime(q.dir, found))
           cut(list) == IF q.offset >= Len(list) THEN <<>>
                        ELSE IF q.limit > 0 THEN Upto(list, q)
                        ELSE SubSeq(list, q.offset + 1, Len(list))
<1>1. /\ q \in Query /\ q.limit > 0
      /\ q.word # <<>> => q = [Everything EXCEPT !.word = q.word, !.limit = q.limit]
  BY CacheAssumption
<1>2. q.limit \in Nat /\ q.offset \in Nat /\ q.perFeed \in Nat
  BY <1>1 DEF Query
<1>3. /\ found \in SUBSET AllPosts /\ \A p \in found : FeedOf[p] \in DOMAIN sn.subs
      /\ found = IF q.word # <<>> THEN Searched(sh, q) ELSE Selected(sh, q)
  BY FoundAlike
<1>4. IsFiniteSet(found)
  BY <1>3, QueriesAssumption, FS_Subset
<1>5. SelectPosts(sn, q) = {cut(list) : list \in lists}
  BY DEF SelectPosts
<1> HIDE DEF lists, found, cut
<1>6. PICK list \in lists : answer = cut(list)
  BY <1>5
<1>7. Len(list) \in Nat => answer = Upto(list, q)
  BY <1>1, <1>6, Page DEF cut
<1>8. CASE q.perFeed > 0
  <2>1. lists = UNION {Digest(s, q.perFeed) : s \in Listings(found, ByFeed(found, place))}
    BY <1>8 DEF lists
  <2>2. PICK sorted \in Listings(found, ByFeed(found, place)) : list \in Digest(sorted, q.perFeed)
    BY <1>6, <2>1
  <2>3. \A p, r \in found : <<p, r>> \in ByFeed(found, place)
                            <=> <<p, r>> \in ByFeed(found, Collated)
    <3>1. place \in [Feeds -> Nat] /\ Collated \in [Feeds -> Nat]
      BY QueriesAssumption DEF Placed
    <3>2. \A p \in found : FeedOf[p] \in Feeds /\ place[FeedOf[p]] = Lowered[FeedOf[p]]
      BY <1>3, QueriesAssumption DEF Placed
    <3>3. \A p, r \in found :
             Fresh(FeedOf[p], found) = Fresh(FeedOf[r], found)
             => (place[FeedOf[p]] < place[FeedOf[r]]
                 <=> Collated[FeedOf[p]] < Collated[FeedOf[r]])
      BY <1>8, <3>2 DEF TiesAlike, found
    <3> HIDE DEF place
    <3>4. QED
      BY <1>3, <3>1, <3>3, OrderedAlike
  <2> DEFINE first == Ranked(sorted, q.perFeed)
             order == ByFeed(found, Collated)
  <2>4. /\ sorted \in Listings(found, PerFeed(found))
        /\ list \in Listings(first, order) /\ first \in SUBSET found
    BY <1>2, <1>3, <2>2, <2>3, DigestIsTheServers
  <2> HIDE DEF first, order, place
  <2>5. Len(list) \in Nat
    BY <1>4, <2>4, ListingIs, FS_Subset
  <2>6. q.word = <<>>
    <3>1. ASSUME q.word # <<>>
          PROVE  q.perFeed = 0
      BY <1>1, <3>1 DEF Everything
    <3>2. QED
      BY <1>8, <3>1
  <2>7. found = Selected(sh, q)
    BY <1>3, <2>6
  <2>8. Posts(sh, q) = GetPostDigestForUser(sh, q)
    BY <1>8, <2>6 DEF Posts
  <2>9. Upto(list, q) \in {Upto(l, q) : l \in Listings(first, order)}
    BY <2>4
  <2>10. Upto(list, q) \in GetPostDigestForUser(sh, q)
    BY <2>4, <2>7, <2>9 DEF GetPostDigestForUser, first, order
  <2>11. QED
    BY <1>7, <2>5, <2>8, <2>10
<1>9. CASE ~(q.perFeed > 0)
  <2>1. list \in Listings(found, ByTime(q.dir, found))
    BY <1>6, <1>9 DEF lists
  <2>2. Len(list) \in Nat
    BY <1>4, <2>1, ListingIs
  <2>3. CASE q.word # <<>>
    <3>1. q.dir = "desc" /\ q.offset = 0
      BY <1>1, <2>3 DEF Everything
    <3>2. [q EXCEPT !.offset = 0] = q
      BY <1>1, <3>1 DEF Query
    <3>3. found = Searched(sh, q) /\ Posts(sh, q) = SearchPostsForUser(sh, q)
      BY <1>3, <2>3 DEF Posts
    <3>4. Upto(list, q) \in {Upto(l, q) : l \in Listings(found, ByTime("desc", found))}
      BY <2>1, <3>1
    <3>5. Upto(list, q) \in SearchPostsForUser(sh, q)
      BY <3>2, <3>3, <3>4 DEF SearchPostsForUser
    <3>6. QED
      BY <1>7, <2>2, <3>3, <3>5
  <2>4. CASE ~(q.word # <<>>)
    <3>1. found = Selected(sh, q) /\ Posts(sh, q) = GetPostsForUserFiltered(sh, q)
      BY <1>3, <1>9, <2>4 DEF Posts
    <3>2. Upto(list, q) \in {Upto(l, q) : l \in Listings(found, ByTime(q.dir, found))}
      BY <2>1
    <3>3. Upto(list, q) \in GetPostsForUserFiltered(sh, q)
      BY <3>1, <3>2 DEF GetPostsForUserFiltered
    <3>4. QED
      BY <1>7, <2>2, <3>1, <3>3
  <2>5. QED
    BY <2>3, <2>4
<1>10. QED
  BY <1>8, <1>9

-----------------------------------------------------------------------------
(* Replaying a queue *)

(* What the shelf is after each change of q. *)
IsRun(g, q, sh) ==
    g = [n \in 0..Len(q) |-> IF n = 0 THEN sh ELSE Carried(q[n], g[n - 1])]

LEMMA RunExists ==
  ASSUME NEW q, Len(q) \in Nat, NEW sh
  PROVE  \E g : IsRun(g, q, sh)
<1> DEFINE IsStart(g, m) ==
              g = [n \in 0..m |-> IF n = 0 THEN sh ELSE Carried(q[n], g[n - 1])]
           none == {m \in 0..Len(q) : ~\E g : IsStart(g, m)}
<1>1. SUFFICES none = {}
  <2>1. Len(q) \in 0..Len(q)
    OBVIOUS
  <2>2. QED
    BY <1>1, <2>1 DEF IsRun
<1>2. SUFFICES ASSUME none # {}
               PROVE  FALSE
  OBVIOUS
<1>3. PICK m \in none : \A k \in none : m <= k
  <2>1. none \in SUBSET Nat
    OBVIOUS
  <2> HIDE DEF none
  <2>2. QED
    BY <1>2, <2>1, LeastElement
<1>4. CASE m = 0
  <2>1. IsStart([n \in 0..0 |-> sh], 0)
    OBVIOUS
  <2>2. QED
    BY <1>4, <2>1
<1>5. CASE m # 0
  <2>1. m \in Nat /\ m - 1 \in 0..Len(q) /\ ~(m <= m - 1)
    BY <1>5
  <2>2. PICK g : IsStart(g, m - 1)
    BY <1>3, <2>1
  <2> DEFINE h == [n \in 0..m |-> IF n = m THEN Carried(q[m], g[m - 1]) ELSE g[n]]
  <2>3. \A n \in 0..m : h[n] = IF n = 0 THEN sh ELSE Carried(q[n], h[n - 1])
    <3> TAKE n \in 0..m
    <3>1. CASE n = m
      <4>1. h[n] = Carried(q[n], g[n - 1]) /\ h[n - 1] = g[n - 1]
        BY <2>1, <3>1, <1>5
      <4>2. QED
        BY <1>5, <3>1, <4>1
    <3>2. CASE n # m
      <4>1. n \in 0..(m - 1) /\ h[n] = g[n]
        BY <2>1, <3>2
      <4>2. g[n] = IF n = 0 THEN sh ELSE Carried(q[n], g[n - 1])
        BY <2>2, <4>1
      <4>3. n # 0 => h[n - 1] = g[n - 1]
        BY <2>1, <4>1
      <4>4. QED
        BY <4>1, <4>2, <4>3
    <3>3. QED
      BY <3>1, <3>2
  <2>4. IsStart(h, m)
    BY <2>3
  <2>5. QED
    BY <2>4
<1>6. QED
  BY <1>4, <1>5

LEMMA OneRun ==
  ASSUME NEW q, Len(q) \in Nat, NEW sh, NEW g, IsRun(g, q, sh), NEW h, IsRun(h, q, sh)
  PROVE  g = h
<1> DEFINE apart == {n \in 0..Len(q) : g[n] # h[n]}
<1>1. ASSUME apart # {}
      PROVE  FALSE
  <2>1. PICK m \in apart : \A k \in apart : m <= k
    <3>1. apart \in SUBSET Nat
      OBVIOUS
    <3> HIDE DEF apart
    <3>2. QED
      BY <1>1, <3>1, LeastElement
  <2>2. g[m] = (IF m = 0 THEN sh ELSE Carried(q[m], g[m - 1]))
    BY DEF IsRun
  <2>3. h[m] = (IF m = 0 THEN sh ELSE Carried(q[m], h[m - 1]))
    BY DEF IsRun
  <2>4. m # 0 => m - 1 \in 0..Len(q) /\ ~(m <= m - 1)
    OBVIOUS
  <2>5. m # 0 => g[m - 1] = h[m - 1]
    BY <2>1, <2>4
  <2>6. QED
    BY <2>2, <2>3, <2>5
<1>2. DOMAIN g = 0..Len(q) /\ DOMAIN h = 0..Len(q)
  BY DEF IsRun
<1>3. g = [n \in 0..Len(q) |-> g[n]] /\ h = [n \in 0..Len(q) |-> h[n]]
  BY DEF IsRun
<1>4. QED
  BY <1>1, <1>3

LEMMA ReplayIsRun ==
  ASSUME NEW q, Len(q) \in Nat, NEW sh, NEW g, IsRun(g, q, sh)
  PROVE  /\ Replay(q, sh) = g[Len(q)]
         /\ DOMAIN g = 0..Len(q)
         /\ g[0] = sh
         /\ \A n \in 1..Len(q) : g[n] = Carried(q[n], g[n - 1])
<1>1. Replay(q, sh) = (CHOOSE h : IsRun(h, q, sh))[Len(q)]
  BY DEF Replay, IsRun
<1>2. IsRun(CHOOSE h : IsRun(h, q, sh), q, sh)
  OBVIOUS
<1>3. (CHOOSE h : IsRun(h, q, sh)) = g
  BY <1>2, OneRun
<1>4. DOMAIN g = 0..Len(q) /\ g[0] = sh
  BY DEF IsRun
<1>5. \A n \in 1..Len(q) : g[n] = Carried(q[n], g[n - 1])
  <2> TAKE n \in 1..Len(q)
  <2>1. n \in 0..Len(q) /\ n # 0
    OBVIOUS
  <2>2. QED
    BY <2>1 DEF IsRun
<1>6. QED
  BY <1>1, <1>3, <1>4, <1>5

-----------------------------------------------------------------------------
(* What a change does to a shelf *)

Shelf == [posts : SUBSET AllPosts, subs : Follows(Feeds),
          read : SUBSET AllPosts, saved : SUBSET AllPosts,
          after : SUBSET (AllPosts \X AllPosts)]

LEMMA Filed ==
  ASSUME NEW s \in Follows(Feeds), NEW f, NEW folder \in Folders
  PROVE  /\ FileUnder(s, f, folder) \in Follows(Feeds)
         /\ DOMAIN FileUnder(s, f, folder) = DOMAIN s
         /\ \A g \in DOMAIN s :
               FileUnder(s, f, folder)[g] = IF g = f THEN folder ELSE s[g]
<1> DEFINE t == FileUnder(s, f, folder)
<1>1. /\ DOMAIN t = DOMAIN s
      /\ t = [g \in DOMAIN t |-> t[g]]
      /\ \A g \in DOMAIN s : t[g] = IF g = f THEN folder ELSE s[g]
  BY DEF FileUnder
<1>2. DOMAIN s \subseteq Feeds /\ \A g \in DOMAIN s : s[g] \in Folders
  BY FollowsAre
<1> HIDE DEF t
<1>3. t \in Follows(Feeds)
  BY <1>1, <1>2, FollowsAre
<1>4. QED
  BY <1>1, <1>3 DEF t

LEMMA CarriedIs ==
  ASSUME NEW c \in Change, NEW sh \in Shelf
  PROVE  LET t == Carried(c, sh)
         IN /\ t \in Shelf
            /\ t.posts = sh.posts
            /\ DOMAIN t.subs = DOMAIN sh.subs
            /\ Followed(t) = Followed(sh)
            /\ t.read = CASE c.op = "read" /\ c.value -> sh.read \cup ({c.post} \cap Followed(sh))
                          [] c.op = "read" /\ ~c.value -> sh.read \ {c.post}
                          [] c.op = "read_all" -> sh.read \cup (c.posts \cap Followed(sh))
                          [] OTHER -> sh.read
            /\ t.saved = CASE c.op = "bookmark" /\ c.value -> sh.saved \cup ({c.post} \cap Followed(sh))
                           [] c.op = "bookmark" /\ ~c.value -> sh.saved \ {c.post}
                           [] OTHER -> sh.saved
            /\ t.subs = IF c.op = "categorize" THEN FileUnder(sh.subs, c.feed, c.folder) ELSE sh.subs
            /\ t.after = CASE c.op = "bookmark" /\ c.value ->
                                 sh.after \cup ((({c.post} \cap Followed(sh)) \ sh.saved) \X sh.saved)
                           [] c.op = "bookmark" /\ ~c.value -> Leaving(sh.after, c.post)
                           [] OTHER -> sh.after
<1> DEFINE t == Carried(c, sh)
<1>1. Followed(sh) \subseteq AllPosts
  BY DEF Followed, Shelf
<1>2. \A s : s.posts = sh.posts /\ DOMAIN s.subs = DOMAIN sh.subs => Followed(s) = Followed(sh)
  BY DEF Followed
<1>3. CASE c.op = "read"
  <2>1. c.value \in BOOLEAN
    BY <1>3 DEF Change
  <2>2. t = [sh EXCEPT !.read = IF c.value THEN sh.read \cup ({c.post} \cap Followed(sh))
                                ELSE sh.read \ {c.post}]
    BY <1>3 DEF Carried, Without
  <2>3. QED
    BY <1>1, <1>2, <1>3, <2>1, <2>2 DEF Shelf
<1>4. CASE c.op = "read_all"
  <2>1. t = [sh EXCEPT !.read = sh.read \cup (c.posts \cap Followed(sh))]
    BY <1>4 DEF Carried
  <2>2. QED
    BY <1>1, <1>2, <1>4, <2>1 DEF Shelf
<1>5. CASE c.op = "bookmark"
  <2>1. c.value \in BOOLEAN
    BY <1>5 DEF Change
  <2> DEFINE new == ({c.post} \cap Followed(sh)) \ sh.saved
             old == Leaving(sh.after, c.post)
  <2>2. new \X sh.saved \in SUBSET (AllPosts \X AllPosts) /\ old \in SUBSET (AllPosts \X AllPosts)
    BY <1>1 DEF Shelf, Leaving
  <2>3. sh.saved \cup new = sh.saved \cup ({c.post} \cap Followed(sh))
    OBVIOUS
  <2>4. t = IF c.value
            THEN [sh EXCEPT !.saved = sh.saved \cup new, !.after = sh.after \cup (new \X sh.saved)]
            ELSE [sh EXCEPT !.saved = sh.saved \ {c.post}, !.after = old]
    BY <1>5 DEF Carried, Bookmarked, Unbookmarked, Without
  <2>5. new \in SUBSET AllPosts
    BY <1>1
  <2> DEFINE more == new \X sh.saved
  <2> HIDE DEF new, old, t, more
  <2>6. CASE c.value
    <3>1. t = [sh EXCEPT !.saved = sh.saved \cup new, !.after = sh.after \cup more]
      BY <2>4, <2>6 DEF more
    <3>2. /\ t \in Shelf /\ t.posts = sh.posts /\ t.subs = sh.subs /\ t.read = sh.read
          /\ t.saved = sh.saved \cup new /\ t.after = sh.after \cup more
      BY <2>2, <2>5, <3>1 DEF Shelf, more
    <3>3. QED
      BY <1>2, <1>5, <2>3, <2>6, <3>2 DEF t, new, more
  <2>7. CASE ~c.value
    <3>1. t = [sh EXCEPT !.saved = sh.saved \ {c.post}, !.after = old]
      BY <2>4, <2>7
    <3>2. /\ t \in Shelf /\ t.posts = sh.posts /\ t.subs = sh.subs /\ t.read = sh.read
          /\ t.saved = sh.saved \ {c.post} /\ t.after = old
      BY <2>2, <3>1 DEF Shelf
    <3>3. QED
      BY <1>2, <1>5, <2>7, <3>2 DEF t, old
  <2>8. QED
    BY <2>1, <2>6, <2>7
<1>6. CASE c.op = "categorize"
  <2>1. t = [sh EXCEPT !.subs = FileUnder(sh.subs, c.feed, c.folder)]
    BY <1>6 DEF Carried
  <2>2. c.folder \in Folders
    BY <1>6 DEF Change
  <2>3. sh.subs \in Follows(Feeds)
    BY DEF Shelf
  <2>4. /\ FileUnder(sh.subs, c.feed, c.folder) \in Follows(Feeds)
        /\ DOMAIN FileUnder(sh.subs, c.feed, c.folder) = DOMAIN sh.subs
    BY <2>2, <2>3, Filed
  <2>5. t \in Shelf /\ t.subs = FileUnder(sh.subs, c.feed, c.folder)
        /\ t.posts = sh.posts /\ t.read = sh.read /\ t.saved = sh.saved
        /\ t.after = sh.after
    BY <2>1, <2>4 DEF Shelf
  <2>6. QED
    BY <1>2, <1>6, <2>4, <2>5
<1>7. c.op \in {"read", "read_all", "bookmark", "categorize"}
  BY DEF Change
<1>8. QED
  BY <1>3, <1>4, <1>5, <1>6, <1>7

LEMMA RunKeeps ==
  ASSUME NEW q \in Seq(Change), NEW sh \in Shelf, NEW g, IsRun(g, q, sh)
  PROVE  \A n \in 0..Len(q) : /\ g[n] \in Shelf
                              /\ g[n].posts = sh.posts
                              /\ DOMAIN g[n].subs = DOMAIN sh.subs
                              /\ Followed(g[n]) = Followed(sh)
<1> DEFINE P(n) == /\ g[n] \in Shelf
                   /\ g[n].posts = sh.posts
                   /\ DOMAIN g[n].subs = DOMAIN sh.subs
                   /\ Followed(g[n]) = Followed(sh)
           good == {n \in 0..Len(q) : P(n)}
<1>1. Len(q) \in Nat /\ \A n \in 1..Len(q) : q[n] \in Change
  OBVIOUS
<1>2. g[0] = sh /\ \A n \in 1..Len(q) : g[n] = Carried(q[n], g[n - 1])
  BY <1>1, ReplayIsRun
<1>3. 0 \in good
  BY <1>1, <1>2
<1>4. ASSUME NEW i \in 0..(Len(q) - 1), i \in good
      PROVE  i + 1 \in good
  <2>1. i + 1 \in 1..Len(q) /\ (i + 1) - 1 = i
    OBVIOUS
  <2>2. g[i + 1] = Carried(q[i + 1], g[i]) /\ q[i + 1] \in Change
    BY <1>1, <1>2, <2>1
  <2>3. P(i)
    BY <1>4
  <2>4. P(i + 1)
    <3> DEFINE t == Carried(q[i + 1], g[i])
    <3>1. /\ t \in Shelf /\ t.posts = g[i].posts
          /\ DOMAIN t.subs = DOMAIN g[i].subs /\ Followed(t) = Followed(g[i])
      BY <2>2, <2>3, CarriedIs
    <3> HIDE DEF t
    <3>2. g[i + 1] = t
      BY <2>2 DEF t
    <3>3. QED
      BY <2>3, <3>1, <3>2
  <2>5. QED
    BY <2>1, <2>4
<1>5. \A i \in 0..Len(q) : i \in good
  <2> HIDE DEF good
  <2>1. 0 \in 0..Len(q)
    BY <1>1
  <2>2. QED
    BY <1>1, <1>3, <1>4, <2>1, Upward
<1>6. QED
  BY <1>5

LEMMA ReplayKeeps ==
  ASSUME NEW q \in Seq(Change), NEW sh \in Shelf
  PROVE  LET t == Replay(q, sh)
         IN t \in Shelf /\ t.posts = sh.posts /\ Followed(t) = Followed(sh)
<1>1. Len(q) \in Nat
  OBVIOUS
<1>2. PICK g : IsRun(g, q, sh)
  BY <1>1, RunExists
<1>3. QED
  BY <1>1, <1>2, RunKeeps, ReplayIsRun

LEMMA ReplayNothing ==
  ASSUME NEW sh
  PROVE  Replay(<<>>, sh) = sh
<1>1. Len(<<>>) = 0 /\ Len(<<>>) \in Nat
  OBVIOUS
<1>2. PICK g : IsRun(g, <<>>, sh)
  BY <1>1, RunExists
<1>3. QED
  BY <1>1, <1>2, ReplayIsRun

\* One change more is that change on top of the others.
LEMMA ReplayOneMore ==
  ASSUME NEW q \in Seq(Change), NEW c \in Change, NEW sh
  PROVE  Replay(Append(q, c), sh) = Carried(c, Replay(q, sh))
<1> DEFINE n == Len(q)
           r == Append(q, c)
<1>1. n \in Nat /\ r \in Seq(Change) /\ Len(r) = n + 1 /\ r[n + 1] = c
      /\ \A i \in 1..n : r[i] = q[i]
  OBVIOUS
<1> HIDE DEF n, r
<1>2. PICK g : IsRun(g, r, sh)
  <2>1. Len(r) \in Nat
    BY <1>1
  <2>2. QED
    BY <2>1, RunExists
<1>3. /\ Replay(r, sh) = g[n + 1] /\ g[0] = sh
      /\ \A i \in 1..(n + 1) : g[i] = Carried(r[i], g[i - 1])
  BY <1>1, <1>2, ReplayIsRun
<1> DEFINE h == [i \in 0..n |-> g[i]]
<1>4. \A i \in 0..n : h[i] = IF i = 0 THEN sh ELSE Carried(q[i], h[i - 1])
  <2> TAKE i \in 0..n
  <2>1. CASE i = 0
    BY <1>3, <2>1
  <2>2. CASE i # 0
    <3>1. i \in 1..n /\ i \in 1..(n + 1) /\ i - 1 \in 0..n
      BY <1>1, <2>2
    <3>2. g[i] = Carried(q[i], g[i - 1])
      BY <1>1, <1>3, <3>1
    <3>3. QED
      BY <2>2, <3>1, <3>2
  <2>3. QED
    BY <2>1, <2>2
<1>5. h = [i \in 0..n |-> IF i = 0 THEN sh ELSE Carried(q[i], h[i - 1])]
  BY <1>4
<1>6. IsRun(h, q, sh)
  BY <1>5 DEF IsRun, n
<1>7. Replay(q, sh) = g[n]
  <2>1. Replay(q, sh) = h[n]
    BY <1>1, <1>6, ReplayIsRun DEF n
  <2>2. n \in 0..n
    BY <1>1
  <2>3. QED
    BY <2>1, <2>2
<1>8. g[n + 1] = Carried(c, g[n])
  <2>1. n + 1 \in 1..(n + 1) /\ (n + 1) - 1 = n
    BY <1>1
  <2>2. QED
    BY <1>1, <1>3, <2>1
<1>9. QED
  BY <1>3, <1>7, <1>8 DEF r

-----------------------------------------------------------------------------
(* Resending *)

(* Of every mark and every folder, s and t say the same, or s still says   *)
(* what u did and t what v did.                                            *)
Alike(s, t, u, v) ==
    /\ Followed(s) = Followed(t)
    /\ DOMAIN s.subs = DOMAIN t.subs
    /\ \A p \in AllPosts :
          \/ p \in s.read <=> p \in t.read
          \/ (p \in s.read <=> p \in u.read) /\ (p \in t.read <=> p \in v.read)
    /\ \A p \in AllPosts :
          \/ p \in s.saved <=> p \in t.saved
          \/ (p \in s.saved <=> p \in u.saved) /\ (p \in t.saved <=> p \in v.saved)
    /\ \A f \in DOMAIN s.subs :
          \/ s.subs[f] = t.subs[f]
          \/ s.subs[f] = u.subs[f] /\ t.subs[f] = v.subs[f]

\* A change settles a mark or leaves it, whatever the rest of the shelf is.
LEMMA AlikeAfter ==
  ASSUME NEW c \in Change, NEW s \in Shelf, NEW t \in Shelf, NEW u, NEW v,
         Alike(s, t, u, v)
  PROVE  Alike(Carried(c, s), Carried(c, t), u, v)
<1> DEFINE s2 == Carried(c, s)
           t2 == Carried(c, t)
<1>1. Followed(s) = Followed(t) /\ DOMAIN s.subs = DOMAIN t.subs
  BY DEF Alike
<1>2. /\ s2 \in Shelf /\ DOMAIN s2.subs = DOMAIN s.subs /\ Followed(s2) = Followed(s)
      /\ t2 \in Shelf /\ DOMAIN t2.subs = DOMAIN t.subs /\ Followed(t2) = Followed(t)
  BY CarriedIs
<1>3. c.op \in {"read", "read_all", "bookmark", "categorize"}
      /\ (c.op \in {"read", "bookmark"} => c.value \in BOOLEAN)
  BY DEF Change
<1>4. ASSUME NEW p \in AllPosts
      PROVE  \/ p \in s2.read <=> p \in t2.read
             \/ (p \in s2.read <=> p \in u.read) /\ (p \in t2.read <=> p \in v.read)
  <2>1. \/ p \in s.read <=> p \in t.read
        \/ (p \in s.read <=> p \in u.read) /\ (p \in t.read <=> p \in v.read)
    BY DEF Alike
  <2>2. \/ (p \in s2.read <=> p \in s.read) /\ (p \in t2.read <=> p \in t.read)
        \/ p \in s2.read /\ p \in t2.read
        \/ p \notin s2.read /\ p \notin t2.read
    <3>1. s2.read = CASE c.op = "read" /\ c.value -> s.read \cup ({c.post} \cap Followed(s))
                      [] c.op = "read" /\ ~c.value -> s.read \ {c.post}
                      [] c.op = "read_all" -> s.read \cup (c.posts \cap Followed(s))
                      [] OTHER -> s.read
      BY CarriedIs
    <3>2. t2.read = CASE c.op = "read" /\ c.value -> t.read \cup ({c.post} \cap Followed(t))
                      [] c.op = "read" /\ ~c.value -> t.read \ {c.post}
                      [] c.op = "read_all" -> t.read \cup (c.posts \cap Followed(t))
                      [] OTHER -> t.read
      BY CarriedIs
    <3> HIDE DEF s2, t2
    <3>3. CASE c.op = "read" /\ c.value
      BY <1>1, <3>1, <3>2, <3>3
    <3>4. CASE c.op = "read" /\ ~c.value
      BY <1>1, <3>1, <3>2, <3>4
    <3>5. CASE c.op = "read_all"
      BY <1>1, <3>1, <3>2, <3>5
    <3>6. CASE c.op \in {"bookmark", "categorize"}
      BY <3>1, <3>2, <3>6
    <3>7. QED
      BY <1>3, <3>3, <3>4, <3>5, <3>6
  <2> HIDE DEF s2, t2
  <2>3. QED
    BY <2>1, <2>2
<1>5. ASSUME NEW p \in AllPosts
      PROVE  \/ p \in s2.saved <=> p \in t2.saved
             \/ (p \in s2.saved <=> p \in u.saved) /\ (p \in t2.saved <=> p \in v.saved)
  <2>1. \/ p \in s.saved <=> p \in t.saved
        \/ (p \in s.saved <=> p \in u.saved) /\ (p \in t.saved <=> p \in v.saved)
    BY DEF Alike
  <2>2. \/ (p \in s2.saved <=> p \in s.saved) /\ (p \in t2.saved <=> p \in t.saved)
        \/ p \in s2.saved /\ p \in t2.saved
        \/ p \notin s2.saved /\ p \notin t2.saved
    <3>1. s2.saved = CASE c.op = "bookmark" /\ c.value -> s.saved \cup ({c.post} \cap Followed(s))
                       [] c.op = "bookmark" /\ ~c.value -> s.saved \ {c.post}
                       [] OTHER -> s.saved
      BY CarriedIs
    <3>2. t2.saved = CASE c.op = "bookmark" /\ c.value -> t.saved \cup ({c.post} \cap Followed(t))
                       [] c.op = "bookmark" /\ ~c.value -> t.saved \ {c.post}
                       [] OTHER -> t.saved
      BY CarriedIs
    <3> HIDE DEF s2, t2
    <3>3. CASE c.op = "bookmark" /\ c.value
      BY <1>1, <3>1, <3>2, <3>3
    <3>4. CASE c.op = "bookmark" /\ ~c.value
      BY <1>1, <3>1, <3>2, <3>4
    <3>5. CASE c.op # "bookmark"
      BY <3>1, <3>2, <3>5
    <3>6. QED
      BY <1>3, <3>3, <3>4, <3>5
  <2> HIDE DEF s2, t2
  <2>3. QED
    BY <2>1, <2>2
<1>6. ASSUME NEW f \in DOMAIN s2.subs
      PROVE  \/ s2.subs[f] = t2.subs[f]
             \/ s2.subs[f] = u.subs[f] /\ t2.subs[f] = v.subs[f]
  <2>1. \/ s.subs[f] = t.subs[f]
        \/ s.subs[f] = u.subs[f] /\ t.subs[f] = v.subs[f]
    BY <1>2 DEF Alike
  <2>2. f \in DOMAIN s.subs /\ f \in DOMAIN t.subs
    BY <1>1, <1>2
  <2>3. s2.subs = (IF c.op = "categorize" THEN FileUnder(s.subs, c.feed, c.folder) ELSE s.subs)
    BY CarriedIs
  <2>4. t2.subs = (IF c.op = "categorize" THEN FileUnder(t.subs, c.feed, c.folder) ELSE t.subs)
    BY CarriedIs
  <2> HIDE DEF s2, t2
  <2>5. CASE c.op # "categorize"
    BY <2>1, <2>3, <2>4, <2>5
  <2>6. CASE c.op = "categorize"
    <3>1. /\ FileUnder(s.subs, c.feed, c.folder)[f] = IF f = c.feed THEN c.folder ELSE s.subs[f]
          /\ FileUnder(t.subs, c.feed, c.folder)[f] = IF f = c.feed THEN c.folder ELSE t.subs[f]
      BY <2>2 DEF FileUnder
    <3>2. QED
      BY <2>1, <2>3, <2>4, <2>6, <3>1
  <2>7. QED
    BY <2>5, <2>6
<1> HIDE DEF s2, t2
<1>7. Followed(s2) = Followed(t2) /\ DOMAIN s2.subs = DOMAIN t2.subs
  BY <1>1, <1>2
<1>8. Alike(s2, t2, u, v)
  BY <1>4, <1>5, <1>6, <1>7 DEF Alike
<1>9. QED
  BY <1>8 DEF s2, t2

LEMMA AlikeToTheEnd ==
  ASSUME NEW s \in Shelf, NEW t \in Shelf, s.posts = t.posts, NEW u, NEW v,
         Alike(s, t, u, v), u = t \/ u = v
  PROVE  /\ s.read = t.read /\ s.saved = t.saved /\ s.subs = t.subs
         /\ Alike(s, t, v, v)
         /\ [s EXCEPT !.after = {}] = [t EXCEPT !.after = {}]
<1>1. s.read = t.read /\ s.saved = t.saved
  BY DEF Alike, Shelf
<1>2. s.subs = t.subs
  <2>1. s.subs = [f \in DOMAIN s.subs |-> s.subs[f]] /\ t.subs = [f \in DOMAIN t.subs |-> t.subs[f]]
    BY FollowsAre DEF Shelf
  <2>2. DOMAIN s.subs = DOMAIN t.subs /\ \A f \in DOMAIN s.subs : s.subs[f] = t.subs[f]
    BY DEF Alike
  <2>3. QED
    BY <2>1, <2>2
<1>3. Alike(s, t, v, v)
  BY <1>1, <1>2 DEF Alike, Followed
<1>4. [s EXCEPT !.after = {}] = [t EXCEPT !.after = {}]
  BY <1>1, <1>2 DEF Shelf
<1>5. QED
  BY <1>1, <1>2, <1>3, <1>4

\* Sending the first k changes and then all of them is sending them all, but
\* for the order of the bookmarks.
LEMMA ResendingAStart ==
  ASSUME NEW q \in Seq(Change), NEW sh \in Shelf, NEW k \in 0..Len(q)
  PROVE  [Replay(q, Replay(SubSeq(q, 1, k), sh)) EXCEPT !.after = {}]
            = [Replay(q, sh) EXCEPT !.after = {}]
<1> DEFINE n == Len(q)
<1>1. n \in Nat /\ k \in Nat /\ k <= n /\ \A i \in 1..n : q[i] \in Change
  OBVIOUS
<1>2. PICK g : IsRun(g, q, sh)
  BY <1>1, RunExists
<1>3. PICK h : IsRun(h, q, g[k])
  BY <1>1, RunExists
<1>4. /\ Replay(q, sh) = g[n] /\ g[0] = sh
      /\ \A i \in 1..n : g[i] = Carried(q[i], g[i - 1])
  BY <1>1, <1>2, ReplayIsRun
<1>5. /\ Replay(q, g[k]) = h[n] /\ h[0] = g[k]
      /\ \A i \in 1..n : h[i] = Carried(q[i], h[i - 1])
  BY <1>1, <1>3, ReplayIsRun
<1>6. \A i \in 0..n : /\ g[i] \in Shelf /\ g[i].posts = sh.posts
                      /\ Followed(g[i]) = Followed(sh) /\ DOMAIN g[i].subs = DOMAIN sh.subs
  BY <1>2, RunKeeps
<1>7. \A i \in 0..n : h[i] \in Shelf /\ h[i].posts = sh.posts
  <2>1. g[k] \in Shelf /\ g[k].posts = sh.posts
    BY <1>6
  <2>2. QED
    BY <1>3, <2>1, RunKeeps
<1>8. Replay(SubSeq(q, 1, k), sh) = g[k]
  <2> DEFINE r == SubSeq(q, 1, k)
             f == [i \in 0..k |-> g[i]]
  <2>1. Len(r) = k /\ \A i \in 1..k : r[i] = q[i]
    BY <1>1
  <2>2. \A i \in 0..k : f[i] = IF i = 0 THEN sh ELSE Carried(r[i], f[i - 1])
    <3> TAKE i \in 0..k
    <3>1. i # 0 => i \in 1..k /\ i \in 1..n /\ i - 1 \in 0..k
      BY <1>1
    <3> HIDE DEF r
    <3>2. QED
      BY <1>4, <2>1, <3>1
  <2>3. f = [i \in 0..k |-> IF i = 0 THEN sh ELSE Carried(r[i], f[i - 1])]
    BY <2>2
  <2>4. IsRun(f, r, sh)
    <3> HIDE DEF r, f
    <3>1. QED
      BY <2>1, <2>3 DEF IsRun
  <2>5. Replay(r, sh) = f[k]
    <3> HIDE DEF r, f
    <3>1. QED
      BY <1>1, <2>1, <2>4, ReplayIsRun
  <2>6. f[k] = g[k]
    BY <1>1
  <2>7. QED
    BY <2>5, <2>6
<1> DEFINE alike == {i \in 0..n : Alike(h[i], g[i], g[k], sh)}
           same == {i \in 0..n : Alike(h[i], g[i], sh, sh)}
<1>9. \A i \in 0..n : i \in alike
  <2>1. 0 \in alike
    <3>1. Followed(g[k]) = Followed(sh) /\ DOMAIN g[k].subs = DOMAIN sh.subs
      BY <1>6
    <3>2. Alike(g[k], sh, g[k], sh)
      BY <3>1 DEF Alike
    <3>3. QED
      BY <1>1, <1>4, <1>5, <3>2
  <2>2. ASSUME NEW i \in 0..(n - 1), i \in alike
        PROVE  i + 1 \in alike
    <3>1. i + 1 \in 1..n /\ i + 1 \in 0..n /\ i \in 0..n /\ (i + 1) - 1 = i
      BY <1>1
    <3>2. h[i] \in Shelf /\ g[i] \in Shelf /\ q[i + 1] \in Change
      BY <1>1, <1>6, <1>7, <3>1
    <3>3. Alike(h[i], g[i], g[k], sh)
      BY <2>2
    <3>4. Alike(Carried(q[i + 1], h[i]), Carried(q[i + 1], g[i]), g[k], sh)
      BY <3>2, <3>3, AlikeAfter
    <3>5. h[i + 1] = Carried(q[i + 1], h[i]) /\ g[i + 1] = Carried(q[i + 1], g[i])
      BY <1>4, <1>5, <3>1
    <3>6. QED
      BY <3>1, <3>4, <3>5
  <2> HIDE DEF alike, n
  <2>3. 0 \in 0..n
    BY <1>1
  <2>4. QED
    BY <1>1, <2>1, <2>2, <2>3, Upward
<1>10. Alike(h[k], g[k], sh, sh)
  <2>1. Alike(h[k], g[k], g[k], sh)
    BY <1>9
  <2>2. h[k] \in Shelf /\ g[k] \in Shelf /\ h[k].posts = g[k].posts
    BY <1>6, <1>7
  <2>3. QED
    BY <2>1, <2>2, AlikeToTheEnd
<1>11. \A i \in k..n : i \in same
  <2>1. k \in same
    BY <1>1, <1>10
  <2>2. ASSUME NEW i \in k..(n - 1), i \in same
        PROVE  i + 1 \in same
    <3>1. i + 1 \in 1..n /\ i + 1 \in 0..n /\ (i + 1) - 1 = i
      BY <1>1
    <3>2. h[i + 1] = Carried(q[i + 1], h[i]) /\ g[i + 1] = Carried(q[i + 1], g[i])
      BY <1>4, <1>5, <3>1
    <3>3. i \in 0..n /\ h[i] \in Shelf /\ g[i] \in Shelf /\ q[i + 1] \in Change
      BY <1>1, <1>6, <1>7, <3>1
    <3>4. Alike(Carried(q[i + 1], h[i]), Carried(q[i + 1], g[i]), sh, sh)
      BY <2>2, <3>3, AlikeAfter
    <3>5. QED
      BY <3>1, <3>2, <3>4
  <2> HIDE DEF same, n
  <2>3. k \in 0..n
    BY <1>1
  <2>4. QED
    BY <1>1, <2>1, <2>2, <2>3, Upward
<1>12. [h[n] EXCEPT !.after = {}] = [g[n] EXCEPT !.after = {}]
  <2>1. n \in k..n /\ n \in 0..n
    BY <1>1
  <2>2. h[n] \in Shelf /\ g[n] \in Shelf /\ h[n].posts = g[n].posts
    BY <1>6, <1>7, <2>1
  <2>3. Alike(h[n], g[n], sh, sh)
    BY <1>11, <2>1
  <2>4. QED
    BY <2>2, <2>3, AlikeToTheEnd
<1>13. QED
  BY <1>4, <1>5, <1>8, <1>12

-----------------------------------------------------------------------------
(* What a change does to the snapshot *)

Snapshot == [posts : SUBSET AllPosts, subs : Follows(Feeds),
             read : SUBSET AllPosts, saved : SUBSET AllPosts,
             marked : SUBSET AllPosts, above : SUBSET (AllPosts \X AllPosts),
             unread : [Feeds -> Nat]]

LEMMA SnapshotsAreTheirFields ==
  ASSUME NEW s \in Snapshot, NEW t \in Snapshot,
         s.posts = t.posts, s.subs = t.subs, s.read = t.read,
         s.saved = t.saved, s.marked = t.marked, s.above = t.above,
         s.unread = t.unread
  PROVE  s = t
  BY DEF Snapshot

(* The posts of ps that the snapshot holds and shows as unread, of feed f. *)
NewlyRead(sn, ps, f) ==
    {p \in ps : p \in sn.posts /\ p \notin sn.read /\ FeedOf[p] = f}

Fewer(u, k) == Max({u - k, 0})

AfterRead(sn, ps) ==
    [sn EXCEPT !.read = sn.read \cup ps,
               !.unread = [f \in Feeds |->
                    Fewer(sn.unread[f], Cardinality(NewlyRead(sn, ps, f)))]]

LEMMA FewerIs ==
  ASSUME NEW u \in Int, NEW k \in Int
  PROVE  Fewer(u, k) \in Nat /\ Fewer(u, k) = IF u >= k THEN u - k ELSE 0
<1>1. u - k \in Int /\ 0 \in Int
  OBVIOUS
<1>2. Max({u - k, 0}) = IF u - k >= 0 THEN u - k ELSE 0
  BY <1>1, OfTwo, Zenon
<1>3. QED
  BY <1>2 DEF Fewer

LEMMA NewlyReadIsFinite ==
  ASSUME NEW sn, NEW ps \in SUBSET AllPosts, NEW f
  PROVE  /\ IsFiniteSet(NewlyRead(sn, ps, f))
         /\ Cardinality(NewlyRead(sn, ps, f)) \in Nat
<1>1. NewlyRead(sn, ps, f) \in SUBSET AllPosts
  BY DEF NewlyRead
<1>2. QED
  BY <1>1, QueriesAssumption, FS_Subset, FS_CardinalityType

LEMMA AfterReadIs ==
  ASSUME NEW sn \in Snapshot, NEW ps \in SUBSET AllPosts
  PROVE  LET t == AfterRead(sn, ps)
         IN /\ t \in Snapshot
            /\ t.posts = sn.posts /\ t.subs = sn.subs
            /\ t.saved = sn.saved /\ t.marked = sn.marked /\ t.above = sn.above
            /\ t.read = sn.read \cup ps
            /\ \A f \in Feeds :
                  t.unread[f] = Fewer(sn.unread[f], Cardinality(NewlyRead(sn, ps, f)))
<1> DEFINE u == [f \in Feeds |-> Fewer(sn.unread[f], Cardinality(NewlyRead(sn, ps, f)))]
<1>1. \A f \in Feeds : u[f] \in Nat
  <2> TAKE f \in Feeds
  <2>1. sn.unread[f] \in Int
    BY DEF Snapshot
  <2>2. Cardinality(NewlyRead(sn, ps, f)) \in Int
    BY NewlyReadIsFinite
  <2>3. QED
    BY <2>1, <2>2, FewerIs
<1>2. u \in [Feeds -> Nat]
  BY <1>1
<1>3. \A f \in Feeds : u[f] = Fewer(sn.unread[f], Cardinality(NewlyRead(sn, ps, f)))
  OBVIOUS
<1>4. AfterRead(sn, ps) = [sn EXCEPT !.read = sn.read \cup ps, !.unread = u]
  BY DEF AfterRead
<1> HIDE DEF u
<1>5. QED
  BY <1>2, <1>3, <1>4 DEF Snapshot

LEMMA CountUnreadIs ==
  ASSUME NEW sn \in Snapshot, NEW p \in AllPosts, NEW delta \in Int
  PROVE  LET t == CountUnread(sn, p, delta)
         IN /\ t \in Snapshot
            /\ t.posts = sn.posts /\ t.subs = sn.subs /\ t.read = sn.read
            /\ t.saved = sn.saved /\ t.marked = sn.marked /\ t.above = sn.above
            /\ \A f \in Feeds : t.unread[f] =
                  IF p \in sn.posts /\ FeedOf[p] = f
                  THEN Fewer(sn.unread[f], 0 - delta) ELSE sn.unread[f]
<1>1. CASE p \notin sn.posts
  BY <1>1 DEF CountUnread
<1>2. CASE p \in sn.posts
  <2> DEFINE g == FeedOf[p]
             n == Max({sn.unread[g] + delta, 0})
  <2>1. g \in Feeds
    BY QueriesAssumption
  <2>2. sn.unread[g] \in Int
    BY <2>1 DEF Snapshot
  <2>3. n = Fewer(sn.unread[g], 0 - delta)
    <3>1. sn.unread[g] + delta = sn.unread[g] - (0 - delta)
      BY <2>2
    <3> HIDE DEF g
    <3>2. QED
      BY <3>1 DEF Fewer
  <2>4. n \in Nat
    <3>1. 0 - delta \in Int
      OBVIOUS
    <3> HIDE DEF g, n
    <3>2. QED
      BY <2>2, <2>3, <3>1, FewerIs
  <2>5. CountUnread(sn, p, delta) = [sn EXCEPT !.unread[g] = n]
    BY <1>2 DEF CountUnread
  <2> HIDE DEF n
  <2>6. QED
    BY <1>2, <2>1, <2>3, <2>4, <2>5 DEF Snapshot
<1>3. QED
  BY <1>1, <1>2

LEMMA SetReadIs ==
  ASSUME NEW sn \in Snapshot, NEW p \in AllPosts, NEW value \in BOOLEAN
  PROVE  LET t == SetRead(sn, p, value)
         IN /\ t \in Snapshot
            /\ t.posts = sn.posts /\ t.subs = sn.subs
            /\ t.saved = sn.saved /\ t.marked = sn.marked /\ t.above = sn.above
            /\ t.read = IF value THEN sn.read \cup {p} ELSE sn.read \ {p}
            /\ \A f \in Feeds : t.unread[f] =
                  IF p \in sn.posts /\ FeedOf[p] = f /\ ~(value <=> p \in sn.read)
                  THEN Fewer(sn.unread[f], IF value THEN 1 ELSE 0 - 1)
                  ELSE sn.unread[f]
<1>1. CASE value = (p \in sn.read)
  BY <1>1 DEF SetRead, Snapshot
<1>2. CASE value # (p \in sn.read) /\ value
  <2> DEFINE s == [sn EXCEPT !.read = sn.read \cup {p}]
  <2>1. /\ s \in Snapshot /\ s.posts = sn.posts /\ s.subs = sn.subs
        /\ s.saved = sn.saved /\ s.marked = sn.marked /\ s.above = sn.above
        /\ s.read = sn.read \cup {p} /\ s.unread = sn.unread
    BY DEF Snapshot
  <2>2. SetRead(sn, p, value) = CountUnread(s, p, -1)
    BY <1>2 DEF SetRead
  <2> HIDE DEF s
  <2>3. 0 - (-1) = 1 /\ -1 \in Int
    OBVIOUS
  <2> DEFINE t == CountUnread(s, p, -1)
  <2>4. /\ t \in Snapshot
        /\ t.posts = s.posts /\ t.subs = s.subs /\ t.read = s.read
        /\ t.saved = s.saved /\ t.marked = s.marked /\ t.above = s.above
        /\ \A f \in Feeds : t.unread[f] =
              IF p \in s.posts /\ FeedOf[p] = f
              THEN Fewer(s.unread[f], 0 - (-1)) ELSE s.unread[f]
    BY <2>1, <2>3, CountUnreadIs
  <2> HIDE DEF t
  <2>5. SetRead(sn, p, value) = t
    BY <2>2 DEF t
  <2>6. QED
    BY <1>2, <2>1, <2>3, <2>4, <2>5
<1>3. CASE value # (p \in sn.read) /\ ~value
  <2> DEFINE s == [sn EXCEPT !.read = sn.read \ {p}]
  <2>1. /\ s \in Snapshot /\ s.posts = sn.posts /\ s.subs = sn.subs
        /\ s.saved = sn.saved /\ s.marked = sn.marked /\ s.above = sn.above
        /\ s.read = sn.read \ {p} /\ s.unread = sn.unread
    BY DEF Snapshot
  <2>2. SetRead(sn, p, value) = CountUnread(s, p, 1)
    BY <1>3 DEF SetRead, Without
  <2> HIDE DEF s
  <2>3. QED
    BY <1>3, <2>1, <2>2, CountUnreadIs
<1>4. QED
  BY <1>1, <1>2, <1>3

LEMMA ReadOneMore ==
  ASSUME NEW sn \in Snapshot, NEW ps \in SUBSET AllPosts, NEW p \in AllPosts, p \notin ps
  PROVE  SetRead(AfterRead(sn, ps), p, TRUE) = AfterRead(sn, ps \cup {p})
<1> DEFINE s == AfterRead(sn, ps)
           t == SetRead(s, p, TRUE)
           w == AfterRead(sn, ps \cup {p})
           k(f) == Cardinality(NewlyRead(sn, ps, f))
           l(f) == Cardinality(NewlyRead(sn, ps \cup {p}, f))
<1>1. /\ s \in Snapshot /\ s.posts = sn.posts /\ s.subs = sn.subs
      /\ s.saved = sn.saved /\ s.marked = sn.marked /\ s.above = sn.above
      /\ s.read = sn.read \cup ps
      /\ \A f \in Feeds : s.unread[f] = Fewer(sn.unread[f], k(f))
  BY AfterReadIs
<1>2. /\ w \in Snapshot /\ w.posts = sn.posts /\ w.subs = sn.subs
      /\ w.saved = sn.saved /\ w.marked = sn.marked /\ w.above = sn.above
      /\ w.read = sn.read \cup (ps \cup {p})
      /\ \A f \in Feeds : w.unread[f] = Fewer(sn.unread[f], l(f))
  <2>1. ps \cup {p} \in SUBSET AllPosts
    OBVIOUS
  <2>2. QED
    BY <2>1, AfterReadIs
<1>3. /\ t \in Snapshot /\ t.posts = s.posts /\ t.subs = s.subs
      /\ t.saved = s.saved /\ t.marked = s.marked /\ t.above = s.above
      /\ t.read = s.read \cup {p}
      /\ \A f \in Feeds : t.unread[f] =
            IF p \in s.posts /\ FeedOf[p] = f /\ p \notin s.read
            THEN Fewer(s.unread[f], 1) ELSE s.unread[f]
  <2> HIDE DEF s, t
  <2> DEFINE v == TRUE
  <2>1. /\ t \in Snapshot
        /\ t.posts = s.posts /\ t.subs = s.subs
        /\ t.saved = s.saved /\ t.marked = s.marked /\ t.above = s.above
        /\ t.read = IF v THEN s.read \cup {p} ELSE s.read \ {p}
        /\ \A f \in Feeds : t.unread[f] =
              IF p \in s.posts /\ FeedOf[p] = f /\ ~(v <=> p \in s.read)
              THEN Fewer(s.unread[f], IF v THEN 1 ELSE 0 - 1)
              ELSE s.unread[f]
    <3>1. v \in BOOLEAN /\ s \in Snapshot /\ t = SetRead(s, p, v)
      BY <1>1 DEF t
    <3> HIDE DEF v
    <3>2. LET e == SetRead(s, p, v)
          IN /\ e \in Snapshot
             /\ e.posts = s.posts /\ e.subs = s.subs
             /\ e.saved = s.saved /\ e.marked = s.marked /\ e.above = s.above
             /\ e.read = IF v THEN s.read \cup {p} ELSE s.read \ {p}
             /\ \A f \in Feeds : e.unread[f] =
                   IF p \in s.posts /\ FeedOf[p] = f /\ ~(v <=> p \in s.read)
                   THEN Fewer(s.unread[f], IF v THEN 1 ELSE 0 - 1)
                   ELSE s.unread[f]
      <4>1. s \in Snapshot /\ v \in BOOLEAN
        BY <3>1
      <4>2. QED
        BY <4>1, SetReadIs
    <3>3. QED
      BY <3>1, <3>2, Zenon
  <2>2. QED
    BY <2>1
<1>4. ASSUME NEW f \in Feeds
      PROVE  t.unread[f] = w.unread[f]
  <2>1. sn.unread[f] \in Nat
    BY DEF Snapshot
  <2>2. IsFiniteSet(NewlyRead(sn, ps, f)) /\ k(f) \in Nat
    BY NewlyReadIsFinite
  <2>3. CASE p \in sn.posts /\ FeedOf[p] = f /\ p \notin sn.read
    <3>1. /\ NewlyRead(sn, ps \cup {p}, f) = NewlyRead(sn, ps, f) \cup {p}
          /\ p \notin NewlyRead(sn, ps, f)
      BY <2>3 DEF NewlyRead
    <3>2. l(f) = k(f) + 1
      BY <2>2, <3>1, FS_AddElement
    <3>3. t.unread[f] = Fewer(Fewer(sn.unread[f], k(f)), 1)
      <4> HIDE DEF s, t, k
      <4>1. QED
        BY <1>1, <1>3, <2>3
    <3>4. w.unread[f] = Fewer(sn.unread[f], k(f) + 1)
      BY <1>2, <3>2
    <3> HIDE DEF k, l, t, w
    <3>5. \A u, n \in Nat : Fewer(Fewer(u, n), 1) = Fewer(u, n + 1)
      <4> TAKE u, n \in Nat
      <4>1. u \in Int /\ n \in Int /\ n + 1 \in Int /\ 1 \in Int
        OBVIOUS
      <4> DEFINE e == Fewer(u, n)
                 m == n + 1
      <4>2. e \in Nat /\ e = IF u >= n THEN u - n ELSE 0
        BY <4>1, FewerIs
      <4>3. Fewer(u, m) = IF u >= m THEN u - m ELSE 0
        BY <4>1, FewerIs
      <4> HIDE DEF e
      <4>4. Fewer(e, 1) = IF e >= 1 THEN e - 1 ELSE 0
        <5>1. e \in Int
          BY <4>2
        <5>2. QED
          BY <4>1, <5>1, FewerIs
      <4>5. Fewer(e, 1) = Fewer(u, m)
        BY <4>2, <4>3, <4>4
      <4>6. QED
        BY <4>5 DEF e
    <3>6. QED
      BY <2>1, <2>2, <3>3, <3>4, <3>5
  <2>4. CASE ~(p \in sn.posts /\ FeedOf[p] = f /\ p \notin sn.read)
    <3>1. NewlyRead(sn, ps \cup {p}, f) = NewlyRead(sn, ps, f)
      BY <2>4 DEF NewlyRead
    <3> HIDE DEF s, t, w
    <3>2. t.unread[f] = s.unread[f]
      BY <1>1, <1>3, <2>4
    <3>3. QED
      BY <1>1, <1>2, <3>1, <3>2
  <2>5. QED
    BY <2>3, <2>4
<1> HIDE DEF s, t, w, k, l
<1>5. t.unread = w.unread
  <2>1. t.unread \in [Feeds -> Nat] /\ w.unread \in [Feeds -> Nat]
    BY <1>2, <1>3 DEF Snapshot
  <2>2. QED
    BY <1>4, <2>1
<1>6. t = w
  <2>1. /\ t \in Snapshot /\ w \in Snapshot
        /\ t.posts = w.posts /\ t.subs = w.subs /\ t.read = w.read
        /\ t.saved = w.saved /\ t.marked = w.marked /\ t.above = w.above
    BY <1>1, <1>2, <1>3
  <2>2. QED
    BY <1>5, <2>1, SnapshotsAreTheirFields
<1>7. QED
  BY <1>6 DEF s, t, w

LEMMA ReadNothing ==
  ASSUME NEW sn \in Snapshot
  PROVE  AfterRead(sn, {}) = sn
<1>1. \A f \in Feeds : Fewer(sn.unread[f], Cardinality(NewlyRead(sn, {}, f))) = sn.unread[f]
  <2> TAKE f \in Feeds
  <2>1. Cardinality(NewlyRead(sn, {}, f)) = 0
    BY FS_EmptySet DEF NewlyRead
  <2>2. sn.unread[f] \in Nat
    BY DEF Snapshot
  <2>3. Fewer(sn.unread[f], 0) = sn.unread[f]
    BY <2>2, FewerIs
  <2>4. QED
    BY <2>1, <2>3
<1> DEFINE w == AfterRead(sn, {})
<1>2. /\ w \in Snapshot /\ w.posts = sn.posts /\ w.subs = sn.subs
      /\ w.saved = sn.saved /\ w.marked = sn.marked /\ w.above = sn.above
      /\ w.read = sn.read
      /\ \A f \in Feeds : w.unread[f] = sn.unread[f]
  <2> DEFINE e == {}
  <2>1. e \in SUBSET AllPosts /\ w = AfterRead(sn, e) /\ sn.read \cup e = sn.read
        /\ \A f \in Feeds : Fewer(sn.unread[f], Cardinality(NewlyRead(sn, e, f))) = sn.unread[f]
    BY <1>1
  <2> HIDE DEF e, w
  <2>2. QED
    BY <2>1, AfterReadIs
<1> HIDE DEF w
<1>3. w.unread = sn.unread
  BY <1>2 DEF Snapshot
<1>4. w = sn
  BY <1>2, <1>3, SnapshotsAreTheirFields
<1>5. QED
  BY <1>4 DEF w

IsFold(g, sn, ps) ==
    g = [s \in SUBSET ps |->
            IF s = {} THEN sn
            ELSE LET x == CHOOSE x \in s : TRUE
                 IN SetRead(g[s \ {x}], x, TRUE)]

\* Marking posts read one after the other, in whatever order, marks them all
\* and takes those that were unread off the counts of their feeds.
LEMMA ReadAllIs ==
  ASSUME NEW sn \in Snapshot, NEW ps \in SUBSET AllPosts
  PROVE  FoldSet(LAMBDA p, s : SetRead(s, p, TRUE), sn, ps) = AfterRead(sn, ps)
<1> DEFINE a == [s \in SUBSET ps |-> AfterRead(sn, s)]
<1>1. \A s \in SUBSET ps : s # {} =>
          LET x == CHOOSE x \in s : TRUE
          IN /\ x \in s /\ s \ {x} \in SUBSET ps
             /\ AfterRead(sn, s) = SetRead(AfterRead(sn, s \ {x}), x, TRUE)
  <2> SUFFICES ASSUME NEW s \in SUBSET ps, s # {}
               PROVE  LET x == CHOOSE x \in s : TRUE
                      IN /\ x \in s /\ s \ {x} \in SUBSET ps
                         /\ AfterRead(sn, s) = SetRead(AfterRead(sn, s \ {x}), x, TRUE)
    OBVIOUS
  <2> DEFINE x == CHOOSE x \in s : TRUE
  <2>1. x \in s
    OBVIOUS
  <2> HIDE DEF x
  <2>2. s \ {x} \in SUBSET AllPosts /\ x \in AllPosts /\ x \notin s \ {x} /\ s = (s \ {x}) \cup {x}
    BY <2>1
  <2>3. AfterRead(sn, s) = SetRead(AfterRead(sn, s \ {x}), x, TRUE)
    <3> DEFINE r == s \ {x}
    <3>1. r \in SUBSET AllPosts /\ x \in AllPosts /\ x \notin r /\ s = r \cup {x}
      BY <2>2
    <3> HIDE DEF r
    <3>2. SetRead(AfterRead(sn, r), x, TRUE) = AfterRead(sn, r \cup {x})
      BY <3>1, ReadOneMore
    <3>3. SetRead(AfterRead(sn, r), x, TRUE) = AfterRead(sn, s)
      BY <3>1, <3>2
    <3>4. QED
      BY <3>3 DEF r
  <2>4. QED
    BY <2>1, <2>3 DEF x
<1>2. IsFold(a, sn, ps)
  <2>1. \A s \in SUBSET ps : a[s] = IF s = {} THEN sn
                                    ELSE LET x == CHOOSE x \in s : TRUE
                                         IN SetRead(a[s \ {x}], x, TRUE)
    <3> TAKE s \in SUBSET ps
    <3>1. CASE s = {}
      BY <3>1, ReadNothing
    <3>2. CASE s # {}
      BY <1>1, <3>2
    <3>3. QED
      BY <3>1, <3>2
  <2>2. QED
    BY <2>1 DEF IsFold
<1> DEFINE b == CHOOSE g : IsFold(g, sn, ps)
<1>3. IsFold(b, sn, ps)
  BY <1>2
<1>4. FoldSet(LAMBDA p, s : SetRead(s, p, TRUE), sn, ps) = b[ps]
  BY DEF FoldSet, MapThenFoldSet, IsFold
<1> DEFINE apart == {s \in SUBSET ps : b[s] # AfterRead(sn, s)}
           sizes == {Cardinality(s) : s \in apart}
<1> HIDE DEF b
<1>5. \A s \in SUBSET ps : IsFiniteSet(s) /\ Cardinality(s) \in Nat
  <2> TAKE s \in SUBSET ps
  <2>1. s \in SUBSET AllPosts
    OBVIOUS
  <2>2. QED
    BY <2>1, QueriesAssumption, FS_Subset, FS_CardinalityType
<1>6. ASSUME apart # {}
      PROVE  FALSE
  <2>1. sizes \in SUBSET Nat /\ sizes # {}
    BY <1>5, <1>6
  <2>2. PICK m \in sizes : \A n \in sizes : m <= n
    <3> HIDE DEF sizes
    <3>1. QED
      BY <2>1, LeastElement
  <2>3. PICK s \in apart : Cardinality(s) = m
    BY <2>2
  <2>4. s \in SUBSET ps /\ b[s] # AfterRead(sn, s)
    BY <2>3
  <2>5. b[s] = IF s = {} THEN sn ELSE LET x == CHOOSE x \in s : TRUE
                                      IN SetRead(b[s \ {x}], x, TRUE)
    BY <1>3, <2>4 DEF IsFold
  <2>6. s # {}
    BY <2>4, <2>5, ReadNothing
  <2> DEFINE x == CHOOSE x \in s : TRUE
             r == s \ {x}
  <2>7. x \in s /\ r \in SUBSET ps /\ AfterRead(sn, s) = SetRead(AfterRead(sn, r), x, TRUE)
    BY <1>1, <2>4, <2>6
  <2>8. b[s] = SetRead(b[r], x, TRUE)
    BY <2>5, <2>6
  <2> HIDE DEF x
  <2>9. Cardinality(r) = m - 1
    BY <1>5, <2>3, <2>4, <2>7, FS_RemoveElement
  <2>10. r \notin apart
    <3>1. Cardinality(r) \in Nat /\ m \in Nat
      BY <1>5, <2>1, <2>7
    <3>2. ~(m <= Cardinality(r))
      BY <2>9, <3>1
    <3>3. QED
      BY <2>2, <3>2
  <2>11. b[r] = AfterRead(sn, r)
    BY <2>7, <2>10
  <2>12. QED
    BY <2>4, <2>7, <2>8, <2>11
<1>7. b[ps] = AfterRead(sn, ps)
  BY <1>6
<1>8. QED
  BY <1>4, <1>7

LEMMA SetSavedIs ==
  ASSUME NEW sn \in Snapshot, NEW p \in AllPosts, NEW value \in BOOLEAN
  PROVE  LET t == SetSaved(sn, p, value)
         IN /\ t \in Snapshot
            /\ t.posts = sn.posts /\ t.subs = sn.subs
            /\ t.read = sn.read /\ t.unread = sn.unread
            /\ t.saved = IF value THEN sn.saved \cup {p} ELSE sn.saved \ {p}
            /\ t.marked = IF (value <=> p \in sn.saved) THEN sn.marked
                          ELSE IF value THEN sn.marked \cup ({p} \cap sn.posts)
                          ELSE sn.marked \ {p}
<1>1. CASE value = (p \in sn.saved)
  BY <1>1 DEF SetSaved, Snapshot
<1>2. CASE value # (p \in sn.saved) /\ value
  <2> DEFINE shown == {p} \cap sn.posts
             a == sn.saved \cup {p}
             m == sn.marked \cup shown
             o == sn.above \cup (sn.marked \X shown)
  <2>1. /\ a \in SUBSET AllPosts /\ m \in SUBSET AllPosts
        /\ o \in SUBSET (AllPosts \X AllPosts)
    BY DEF Snapshot
  <2>2. SetSaved(sn, p, value) = [sn EXCEPT !.saved = a, !.marked = m, !.above = o]
    BY <1>2 DEF SetSaved
  <2>3. value = TRUE
    BY <1>2
  <2> HIDE DEF a, m, o
  <2> DEFINE t == [sn EXCEPT !.saved = a, !.marked = m, !.above = o]
  <2>4. /\ t \in Snapshot /\ t.posts = sn.posts /\ t.subs = sn.subs
        /\ t.read = sn.read /\ t.unread = sn.unread
        /\ t.saved = a /\ t.marked = m /\ t.above = o
    BY <2>1 DEF Snapshot
  <2> HIDE DEF t
  <2>5. SetSaved(sn, p, value) = t
    BY <2>2 DEF t
  <2>6. QED
    BY <1>2, <2>3, <2>4, <2>5 DEF a, m
<1>3. CASE value # (p \in sn.saved) /\ ~value
  <2> DEFINE a == sn.saved \ {p}
             m == sn.marked \ {p}
             o == Leaving(sn.above, p)
  <2>1. /\ a \in SUBSET AllPosts /\ m \in SUBSET AllPosts
        /\ o \in SUBSET (AllPosts \X AllPosts)
    BY DEF Snapshot, Leaving
  <2>2. SetSaved(sn, p, value) = [sn EXCEPT !.saved = a, !.marked = m, !.above = o]
    BY <1>3 DEF SetSaved, Without
  <2>3. value = FALSE
    BY <1>3
  <2> HIDE DEF a, m, o
  <2> DEFINE t == [sn EXCEPT !.saved = a, !.marked = m, !.above = o]
  <2>4. /\ t \in Snapshot /\ t.posts = sn.posts /\ t.subs = sn.subs
        /\ t.read = sn.read /\ t.unread = sn.unread
        /\ t.saved = a /\ t.marked = m /\ t.above = o
    BY <2>1 DEF Snapshot
  <2> HIDE DEF t
  <2>5. SetSaved(sn, p, value) = t
    BY <2>2 DEF t
  <2>6. QED
    BY <1>3, <2>3, <2>4, <2>5 DEF a, m
<1>4. QED
  BY <1>1, <1>2, <1>3

LEMMA SetSavedOrders ==
  ASSUME NEW sn \in Snapshot, NEW p, NEW value, NEW pr \in SetSaved(sn, p, value).above
  PROVE  pr \in sn.above \/ pr[2] = p
<1> DEFINE m == sn.marked \cup ({p} \cap sn.posts)
           o == sn.above \cup (sn.marked \X ({p} \cap sn.posts))
           l == Leaving(sn.above, p)
<1>1. \A x \in o \cup l : x \in sn.above \/ x[2] = p
  BY DEF Leaving
<1>2. \/ SetSaved(sn, p, value) = sn
      \/ SetSaved(sn, p, value) = [sn EXCEPT !.saved = @ \cup {p}, !.marked = m, !.above = o]
      \/ SetSaved(sn, p, value) = [sn EXCEPT !.saved = Without(@, p),
                                             !.marked = Without(@, p), !.above = l]
  BY DEF SetSaved
<1> HIDE DEF m, o, l
<1>3. SetSaved(sn, p, value).above \in {sn.above, o, l}
  BY <1>2 DEF Snapshot
<1>4. QED
  BY <1>1, <1>3

LEMMA FilingIs ==
  ASSUME NEW sn \in Snapshot, NEW c \in Change, c.op = "categorize"
  PROVE  LET t == Apply(c, sn)
         IN /\ t \in Snapshot
            /\ t.posts = sn.posts /\ t.read = sn.read /\ t.unread = sn.unread
            /\ t.saved = sn.saved /\ t.marked = sn.marked /\ t.above = sn.above
            /\ t.subs = FileUnder(sn.subs, c.feed, c.folder)
<1>1. c.folder \in Folders
  BY DEF Change
<1>2. sn.subs \in Follows(Feeds)
  BY DEF Snapshot
<1>3. FileUnder(sn.subs, c.feed, c.folder) \in Follows(Feeds)
  BY <1>1, <1>2, Filed
<1>4. Apply(c, sn) = [sn EXCEPT !.subs = FileUnder(sn.subs, c.feed, c.folder)]
  BY DEF Apply
<1>5. QED
  BY <1>3, <1>4 DEF Snapshot

LEMMA ReadingAllIs ==
  ASSUME NEW sn \in Snapshot, NEW c \in Change, c.op = "read_all"
  PROVE  Apply(c, sn) = AfterRead(sn, c.posts) /\ c.posts \in SUBSET AllPosts
<1>1. c.posts \in SUBSET AllPosts
  BY CacheAssumption DEF Change
<1>2. Apply(c, sn) = FoldSet(LAMBDA p, s : SetRead(s, p, TRUE), sn, c.posts)
  BY DEF Apply
<1>3. QED
  BY <1>1, <1>2, ReadAllIs

LEMMA ApplyIsASnapshot ==
  ASSUME NEW sn \in Snapshot, NEW c \in Change
  PROVE  Apply(c, sn) \in Snapshot
<1>1. c.op \in {"read", "read_all", "bookmark", "categorize"}
  BY DEF Change
<1>2. CASE c.op = "read"
  <2>1. c.post \in AllPosts /\ c.value \in BOOLEAN
    BY <1>2 DEF Change
  <2>2. Apply(c, sn) = SetRead(sn, c.post, c.value)
    BY <1>2 DEF Apply
  <2>3. SetRead(sn, c.post, c.value) \in Snapshot
    BY <2>1, SetReadIs
  <2>4. QED
    BY <2>2, <2>3
<1>3. CASE c.op = "read_all"
  BY <1>3, ReadingAllIs, AfterReadIs
<1>4. CASE c.op = "bookmark"
  <2>1. c.post \in AllPosts /\ c.value \in BOOLEAN
    BY <1>4 DEF Change
  <2>2. Apply(c, sn) = SetSaved(sn, c.post, c.value)
    BY <1>4 DEF Apply
  <2>3. SetSaved(sn, c.post, c.value) \in Snapshot
    BY <2>1, SetSavedIs
  <2>4. QED
    BY <2>2, <2>3
<1>5. CASE c.op = "categorize"
  BY <1>5, FilingIs
<1>6. QED
  BY <1>1, <1>2, <1>3, <1>4, <1>5

-----------------------------------------------------------------------------
(* Changes made while the server is away *)

UnreadOf(sh, f) == {p \in Followed(sh) : FeedOf[p] = f /\ p \notin sh.read}

LEMMA UnreadCounts ==
  ASSUME NEW sh \in Shelf
  PROVE  /\ \A f : /\ IsFiniteSet(UnreadOf(sh, f))
                   /\ Cardinality(UnreadOf(sh, f)) \in Nat
         /\ GetUnreadCountsForUser(sh) \in [Feeds -> Nat]
         /\ \A f \in Feeds : GetUnreadCountsForUser(sh)[f] = Cardinality(UnreadOf(sh, f))
<1>1. ASSUME NEW f
      PROVE  IsFiniteSet(UnreadOf(sh, f)) /\ Cardinality(UnreadOf(sh, f)) \in Nat
  <2>1. UnreadOf(sh, f) \in SUBSET AllPosts
    BY DEF UnreadOf, Followed, Shelf
  <2>2. QED
    BY <2>1, QueriesAssumption, FS_Subset, FS_CardinalityType
<1>2. GetUnreadCountsForUser(sh) = [f \in Feeds |-> Cardinality(UnreadOf(sh, f))]
  BY DEF GetUnreadCountsForUser, UnreadOf
<1>3. QED
  BY <1>1, <1>2

LEMMA AgreesByFields ==
  ASSUME NEW sn \in Snapshot, NEW sh \in Shelf
  PROVE  Agrees(sn, sh) <=> /\ sn.posts = Followed(sh)
                            /\ sn.subs = sh.subs
                            /\ sn.read = sh.read
                            /\ sn.saved = sh.saved
                            /\ sn.marked = sh.saved \cap sh.posts
                            /\ \A f \in Feeds : sn.unread[f] = Cardinality(UnreadOf(sh, f))
<1> DEFINE u == GetUnreadCountsForUser(sh)
<1>1. u \in [Feeds -> Nat] /\ \A f \in Feeds : u[f] = Cardinality(UnreadOf(sh, f))
  BY UnreadCounts
<1>2. sn.unread \in [Feeds -> Nat]
  BY DEF Snapshot
<1> HIDE DEF u
<1>3. sn.unread = u <=> \A f \in Feeds : sn.unread[f] = Cardinality(UnreadOf(sh, f))
  BY <1>1, <1>2
<1>4. QED
  BY <1>3 DEF Agrees, GetBookmarksForUser, u

\* Marking one post: its feed counts one less, or one more.
LEMMA ReadForeseen ==
  ASSUME NEW sn \in Snapshot, NEW sh \in Shelf, Agrees(sn, sh),
         NEW c \in Change, c.op = "read", c.post \in Followed(sh)
  PROVE  Agrees(Apply(c, sn), Carried(c, sh))
<1> DEFINE p == c.post
           v == c.value
           s == Apply(c, sn)
           t == Carried(c, sh)
<1>1. p \in AllPosts /\ v \in BOOLEAN /\ s = SetRead(sn, p, v)
  BY DEF Change, Apply
<1>2. /\ s \in Snapshot
      /\ s.posts = sn.posts /\ s.subs = sn.subs
      /\ s.saved = sn.saved /\ s.marked = sn.marked
      /\ s.read = IF v THEN sn.read \cup {p} ELSE sn.read \ {p}
      /\ \A f \in Feeds : s.unread[f] =
            IF p \in sn.posts /\ FeedOf[p] = f /\ ~(v <=> p \in sn.read)
            THEN Fewer(sn.unread[f], IF v THEN 1 ELSE 0 - 1)
            ELSE sn.unread[f]
  <2>1. LET e == SetRead(sn, p, v)
        IN /\ e \in Snapshot
           /\ e.posts = sn.posts /\ e.subs = sn.subs
           /\ e.saved = sn.saved /\ e.marked = sn.marked /\ e.above = sn.above
           /\ e.read = IF v THEN sn.read \cup {p} ELSE sn.read \ {p}
           /\ \A f \in Feeds : e.unread[f] =
                 IF p \in sn.posts /\ FeedOf[p] = f /\ ~(v <=> p \in sn.read)
                 THEN Fewer(sn.unread[f], IF v THEN 1 ELSE 0 - 1)
                 ELSE sn.unread[f]
    <3> HIDE DEF p, v, s, t
    <3>1. p \in AllPosts /\ v \in BOOLEAN
      BY <1>1
    <3>2. QED
      BY <3>1, SetReadIs
  <2> HIDE DEF p, v, s
  <2>2. QED
    BY <1>1, <2>1, Zenon
<1>3. /\ t \in Shelf /\ t.posts = sh.posts /\ Followed(t) = Followed(sh)
      /\ t.saved = sh.saved /\ t.subs = sh.subs
      /\ t.read = IF v THEN sh.read \cup ({p} \cap Followed(sh)) ELSE sh.read \ {p}
  <2> HIDE DEF t
  <2>1. t = Carried(c, sh)
    BY DEF t
  <2>2. QED
    BY <1>1, <2>1, CarriedIs
<1>4. p \in Followed(sh)
  OBVIOUS
<1>5. /\ sn.posts = Followed(sh) /\ sn.subs = sh.subs /\ sn.read = sh.read
      /\ sn.saved = sh.saved /\ sn.marked = sh.saved \cap sh.posts
      /\ \A f \in Feeds : sn.unread[f] = Cardinality(UnreadOf(sh, f))
  BY AgreesByFields
<1> HIDE DEF p, v, s, t
<1>6. t.read = IF v THEN sh.read \cup {p} ELSE sh.read \ {p}
  BY <1>3, <1>4
<1>7. ASSUME NEW f \in Feeds
      PROVE  s.unread[f] = Cardinality(UnreadOf(t, f))
  <2> DEFINE a == UnreadOf(sh, f)
             b == UnreadOf(t, f)
             n == Cardinality(a)
  <2>1. IsFiniteSet(a) /\ n \in Nat /\ sn.unread[f] = n
    BY <1>5, UnreadCounts
  <2>2. CASE FeedOf[p] # f \/ v = (p \in sn.read)
    <3>1. b = a
      BY <1>1, <1>3, <1>5, <1>6, <2>2 DEF UnreadOf
    <3>2. s.unread[f] = sn.unread[f]
      BY <1>2, <2>2
    <3>3. QED
      BY <2>1, <3>1, <3>2
  <2>3. CASE FeedOf[p] = f /\ v /\ p \notin sn.read
    <3>1. b = a \ {p} /\ p \in a
      BY <1>3, <1>4, <1>5, <1>6, <2>3 DEF UnreadOf
    <3>2. s.unread[f] = Fewer(sn.unread[f], 1)
      BY <1>2, <1>4, <1>5, <2>3
    <3> HIDE DEF a, b
    <3>3. Cardinality(b) = n - 1 /\ Cardinality(b) \in Nat
      <4>1. Cardinality(a \ {p}) = Cardinality(a) - 1
        BY <2>1, <3>1, FS_RemoveElement
      <4>2. IsFiniteSet(a \ {p})
        BY <2>1, FS_RemoveElement
      <4>3. QED
        BY <3>1, <4>1, <4>2, FS_CardinalityType
    <3> HIDE DEF n
    <3>4. Fewer(n, 1) = n - 1
      <4>1. n \in Int /\ 1 \in Int /\ n >= 1
        BY <2>1, <3>3
      <4>2. QED
        BY <4>1, FewerIs
    <3>5. QED
      BY <2>1, <3>2, <3>3, <3>4 DEF b
  <2>4. CASE FeedOf[p] = f /\ ~v /\ p \in sn.read
    <3>1. b = a \cup {p} /\ p \notin a
      BY <1>3, <1>4, <1>5, <1>6, <2>4 DEF UnreadOf
    <3>2. s.unread[f] = Fewer(sn.unread[f], 0 - 1)
      BY <1>2, <1>4, <1>5, <2>4
    <3> HIDE DEF a, b
    <3>3. Cardinality(b) = n + 1
      BY <2>1, <3>1, FS_AddElement
    <3> HIDE DEF n
    <3>4. Fewer(n, 0 - 1) = n + 1
      <4> DEFINE k == 0 - 1
      <4>1. n \in Int /\ k \in Int /\ n >= k /\ n - k = n + 1
        BY <2>1
      <4> HIDE DEF k
      <4>2. Fewer(n, k) = n + 1
        BY <4>1, FewerIs
      <4>3. QED
        BY <4>2 DEF k
    <3>5. QED
      BY <2>1, <3>2, <3>3, <3>4 DEF b
  <2>5. QED
    BY <1>1, <2>2, <2>3, <2>4
<1>8. Agrees(s, t)
  <2>1. s.read = t.read
    BY <1>2, <1>5, <1>6
  <2>2. QED
    BY <1>2, <1>3, <1>5, <1>7, <2>1, AgreesByFields
<1>9. QED
  BY <1>8 DEF s, t

LEMMA ReadAllForeseen ==
  ASSUME NEW sn \in Snapshot, NEW sh \in Shelf, Agrees(sn, sh),
         NEW c \in Change, c.op = "read_all", c.posts \subseteq Followed(sh)
  PROVE  Agrees(Apply(c, sn), Carried(c, sh))
<1> DEFINE ps == c.posts
           s == Apply(c, sn)
           t == Carried(c, sh)
<1>1. ps \in SUBSET AllPosts /\ s = AfterRead(sn, ps)
  BY ReadingAllIs
<1>2. /\ t \in Shelf /\ t.posts = sh.posts /\ Followed(t) = Followed(sh)
      /\ t.saved = sh.saved /\ t.subs = sh.subs
      /\ t.read = sh.read \cup (ps \cap Followed(sh))
  <2> HIDE DEF t
  <2>1. t = Carried(c, sh)
    BY DEF t
  <2>2. QED
    BY <2>1, CarriedIs
<1>3. ps \subseteq Followed(sh)
  OBVIOUS
<1>4. /\ sn.posts = Followed(sh) /\ sn.subs = sh.subs /\ sn.read = sh.read
      /\ sn.saved = sh.saved /\ sn.marked = sh.saved \cap sh.posts
      /\ \A f \in Feeds : sn.unread[f] = Cardinality(UnreadOf(sh, f))
  BY AgreesByFields
<1> HIDE DEF ps, s, t
<1>5. /\ s \in Snapshot
      /\ s.posts = sn.posts /\ s.subs = sn.subs
      /\ s.saved = sn.saved /\ s.marked = sn.marked
      /\ s.read = sn.read \cup ps
      /\ \A f \in Feeds :
            s.unread[f] = Fewer(sn.unread[f], Cardinality(NewlyRead(sn, ps, f)))
  BY <1>1, AfterReadIs
<1>6. t.read = sh.read \cup ps
  BY <1>2, <1>3
<1>7. ASSUME NEW f \in Feeds
      PROVE  s.unread[f] = Cardinality(UnreadOf(t, f))
  <2> DEFINE a == UnreadOf(sh, f)
             b == UnreadOf(t, f)
             d == NewlyRead(sn, ps, f)
  <2>1. IsFiniteSet(a) /\ Cardinality(a) \in Nat /\ sn.unread[f] = Cardinality(a)
    BY <1>4, UnreadCounts
  <2>2. Cardinality(b) \in Nat
    BY <1>2, UnreadCounts
  <2>3. IsFiniteSet(d) /\ Cardinality(d) \in Nat
    BY <1>1, NewlyReadIsFinite
  <2>4. b = a \ d /\ a \cap d = d
    BY <1>2, <1>3, <1>4, <1>6 DEF UnreadOf, NewlyRead
  <2>5. s.unread[f] = Fewer(sn.unread[f], Cardinality(d))
    BY <1>5
  <2> HIDE DEF a, b, d
  <2>6. Cardinality(b) = Cardinality(a) - Cardinality(d)
    <3>1. Cardinality(a \ d) = Cardinality(a) - Cardinality(a \cap d)
      BY <2>1, FS_Difference
    <3>2. QED
      BY <2>4, <3>1
  <2>7. \A m, n \in Nat : m - n \in Nat => Fewer(m, n) = m - n
    <3> TAKE m, n \in Nat
    <3>1. m \in Int /\ n \in Int /\ (m - n \in Nat => m >= n)
      OBVIOUS
    <3>2. QED
      BY <3>1, FewerIs
  <2>8. Cardinality(a) - Cardinality(d) \in Nat
    BY <2>2, <2>6
  <2>9. QED
    BY <2>1, <2>3, <2>5, <2>6, <2>7, <2>8 DEF b
<1>8. Agrees(s, t)
  <2>1. s.read = t.read
    BY <1>4, <1>5, <1>6
  <2>2. QED
    BY <1>2, <1>4, <1>5, <1>7, <2>1, AgreesByFields
<1>9. QED
  BY <1>8 DEF s, t

LEMMA SavedForeseen ==
  ASSUME NEW sn \in Snapshot, NEW sh \in Shelf, Agrees(sn, sh),
         NEW c \in Change, c.op = "bookmark", c.post \in Followed(sh)
  PROVE  Agrees(Apply(c, sn), Carried(c, sh))
<1> DEFINE p == c.post
           v == c.value
           s == Apply(c, sn)
           t == Carried(c, sh)
<1>1. p \in AllPosts /\ v \in BOOLEAN /\ s = SetSaved(sn, p, v)
  BY DEF Change, Apply
<1>2. LET e == SetSaved(sn, p, v)
      IN /\ e \in Snapshot
         /\ e.posts = sn.posts /\ e.subs = sn.subs
         /\ e.read = sn.read /\ e.unread = sn.unread
         /\ e.saved = IF v THEN sn.saved \cup {p} ELSE sn.saved \ {p}
         /\ e.marked = IF (v <=> p \in sn.saved) THEN sn.marked
                       ELSE IF v THEN sn.marked \cup ({p} \cap sn.posts)
                       ELSE sn.marked \ {p}
  <2> HIDE DEF p, v, s, t
  <2>1. p \in AllPosts /\ v \in BOOLEAN
    BY <1>1
  <2>2. QED
    BY <2>1, SetSavedIs
<1>3. /\ t \in Shelf /\ t.posts = sh.posts /\ Followed(t) = Followed(sh)
      /\ t.read = sh.read /\ t.subs = sh.subs
      /\ t.saved = IF v THEN sh.saved \cup ({p} \cap Followed(sh)) ELSE sh.saved \ {p}
  <2> HIDE DEF t
  <2>1. t = Carried(c, sh)
    BY DEF t
  <2>2. QED
    BY <1>1, <2>1, CarriedIs
<1>4. p \in Followed(sh) /\ p \in sh.posts
  BY DEF Followed
<1>5. /\ sn.posts = Followed(sh) /\ sn.subs = sh.subs /\ sn.read = sh.read
      /\ sn.saved = sh.saved /\ sn.marked = sh.saved \cap sh.posts
      /\ \A f \in Feeds : sn.unread[f] = Cardinality(UnreadOf(sh, f))
  BY AgreesByFields
<1> HIDE DEF p, v, s, t
<1>6. /\ s \in Snapshot /\ s.posts = sn.posts /\ s.subs = sn.subs
      /\ s.read = sn.read /\ s.unread = sn.unread
      /\ s.saved = IF v THEN sn.saved \cup {p} ELSE sn.saved \ {p}
      /\ s.marked = IF (v <=> p \in sn.saved) THEN sn.marked
                    ELSE IF v THEN sn.marked \cup ({p} \cap sn.posts)
                    ELSE sn.marked \ {p}
  BY <1>1, <1>2, Zenon
<1>7. t.saved = s.saved
  BY <1>3, <1>4, <1>5, <1>6
<1>8. s.marked = t.saved \cap t.posts
  BY <1>1, <1>3, <1>4, <1>5, <1>6
<1>9. ASSUME NEW f \in Feeds
      PROVE  s.unread[f] = Cardinality(UnreadOf(t, f))
  <2>1. UnreadOf(t, f) = UnreadOf(sh, f)
    BY <1>3 DEF UnreadOf
  <2>2. QED
    BY <1>5, <1>6, <2>1
<1>10. Agrees(s, t)
  <2>1. s.posts = Followed(t) /\ s.subs = t.subs /\ s.read = t.read
    BY <1>3, <1>5, <1>6
  <2>2. QED
    BY <1>3, <1>6, <1>7, <1>8, <1>9, <2>1, AgreesByFields
<1>11. QED
  BY <1>10 DEF s, t

LEMMA FilingForeseen ==
  ASSUME NEW sn \in Snapshot, NEW sh \in Shelf, Agrees(sn, sh),
         NEW c \in Change, c.op = "categorize"
  PROVE  Agrees(Apply(c, sn), Carried(c, sh))
<1> DEFINE s == Apply(c, sn)
           t == Carried(c, sh)
<1>1. /\ t \in Shelf /\ t.posts = sh.posts /\ Followed(t) = Followed(sh)
      /\ t.read = sh.read /\ t.saved = sh.saved
      /\ t.subs = FileUnder(sh.subs, c.feed, c.folder)
  <2> HIDE DEF t
  <2>1. t = Carried(c, sh)
    BY DEF t
  <2>2. QED
    BY <2>1, CarriedIs
<1>2. /\ s \in Snapshot
      /\ s.posts = sn.posts /\ s.read = sn.read /\ s.unread = sn.unread
      /\ s.saved = sn.saved /\ s.marked = sn.marked
      /\ s.subs = FileUnder(sn.subs, c.feed, c.folder)
  <2> HIDE DEF s
  <2>1. s = Apply(c, sn)
    BY DEF s
  <2>2. QED
    BY <2>1, FilingIs
<1>3. /\ sn.posts = Followed(sh) /\ sn.subs = sh.subs /\ sn.read = sh.read
      /\ sn.saved = sh.saved /\ sn.marked = sh.saved \cap sh.posts
      /\ \A f \in Feeds : sn.unread[f] = Cardinality(UnreadOf(sh, f))
  BY AgreesByFields
<1> HIDE DEF s, t
<1>4. ASSUME NEW f \in Feeds
      PROVE  s.unread[f] = Cardinality(UnreadOf(t, f))
  <2>1. UnreadOf(t, f) = UnreadOf(sh, f)
    BY <1>1 DEF UnreadOf
  <2>2. QED
    BY <1>2, <1>3, <2>1
<1>5. Agrees(s, t)
  <2>1. /\ s.posts = Followed(t) /\ s.subs = t.subs /\ s.read = t.read
        /\ s.saved = t.saved /\ s.marked = t.saved \cap t.posts
    BY <1>1, <1>2, <1>3
  <2>2. QED
    BY <1>1, <1>2, <1>4, <2>1, AgreesByFields
<1>6. QED
  BY <1>5 DEF s, t

\* Of the bookmarks only the one made comes out of order.
LEMMA OrderForeseen ==
  ASSUME NEW sn \in Snapshot, NEW sh \in Shelf, NEW c \in Change,
         NEW pr \in OutOfOrder(Apply(c, sn), Carried(c, sh))
  PROVE  pr \in OutOfOrder(sn, sh) \/ (c.op = "bookmark" /\ pr[2] = c.post)
<1> DEFINE s == Apply(c, sn)
           t == Carried(c, sh)
<1>1. c.op \in {"read", "read_all", "bookmark", "categorize"}
  BY DEF Change
<1>2. pr \in s.above /\ <<pr[2], pr[1]>> \in t.after
  BY DEF OutOfOrder
<1>3. c.op # "bookmark" => t.after = sh.after
  BY CarriedIs
<1>4. CASE c.op = "read"
  <2> DEFINE p == c.post
             v == c.value
  <2>1. p \in AllPosts /\ v \in BOOLEAN /\ s = SetRead(sn, p, v)
    BY <1>4 DEF Change, Apply
  <2>2. LET e == SetRead(sn, p, v)
        IN /\ e \in Snapshot
           /\ e.posts = sn.posts /\ e.subs = sn.subs
           /\ e.saved = sn.saved /\ e.marked = sn.marked /\ e.above = sn.above
           /\ e.read = IF v THEN sn.read \cup {p} ELSE sn.read \ {p}
           /\ \A f \in Feeds : e.unread[f] =
                 IF p \in sn.posts /\ FeedOf[p] = f /\ ~(v <=> p \in sn.read)
                 THEN Fewer(sn.unread[f], IF v THEN 1 ELSE 0 - 1)
                 ELSE sn.unread[f]
    <3> HIDE DEF p, v, s, t
    <3>1. p \in AllPosts /\ v \in BOOLEAN
      BY <2>1
    <3>2. QED
      BY <3>1, SetReadIs
  <2> HIDE DEF p, v, s
  <2>3. s.above = sn.above
    BY <2>1, <2>2, Zenon
  <2>4. QED
    BY <1>2, <1>3, <1>4, <2>3 DEF OutOfOrder
<1>5. CASE c.op = "read_all"
  <2>1. s.above = sn.above
    BY <1>5, ReadingAllIs, AfterReadIs
  <2>2. QED
    BY <1>2, <1>3, <1>5, <2>1 DEF OutOfOrder
<1>6. CASE c.op = "categorize"
  <2>1. s.above = sn.above
    BY <1>6, FilingIs
  <2>2. QED
    BY <1>2, <1>3, <1>6, <2>1 DEF OutOfOrder
<1>7. CASE c.op = "bookmark"
  <2> DEFINE p == c.post
             v == c.value
             new == ({p} \cap Followed(sh)) \ sh.saved
  <2>1. p \in AllPosts /\ v \in BOOLEAN /\ s = SetSaved(sn, p, v)
    BY <1>7 DEF Change, Apply
  <2>2. t.after = IF v THEN sh.after \cup (new \X sh.saved) ELSE Leaving(sh.after, p)
    BY <1>7, <2>1, CarriedIs
  <2>3. pr \in SetSaved(sn, p, v).above
    BY <1>2, <2>1
  <2> HIDE DEF p, v, s, t
  <2>4. pr \in sn.above \/ pr[2] = p
    BY <2>3, SetSavedOrders
  <2>5. <<pr[2], pr[1]>> \in sh.after \/ pr[2] = p
    BY <1>2, <2>2 DEF Leaving
  <2>6. QED
    BY <1>7, <2>4, <2>5 DEF OutOfOrder, p
<1>8. QED
  BY <1>1, <1>4, <1>5, <1>6, <1>7

\* A change made in the snapshot is the change the server will make.
LEMMA ChangeForeseen ==
  ASSUME NEW sn \in Snapshot, NEW sh \in Shelf, Agrees(sn, sh), NEW c \in Change,
         c.op \in {"read", "bookmark"} => c.post \in Followed(sh),
         c.op = "read_all" => c.posts \subseteq Followed(sh)
  PROVE  Agrees(Apply(c, sn), Carried(c, sh))
<1>1. c.op \in {"read", "read_all", "bookmark", "categorize"}
  BY DEF Change
<1>2. QED
  BY <1>1, ReadForeseen, ReadAllForeseen, SavedForeseen, FilingForeseen

-----------------------------------------------------------------------------
(* A sync *)

\* What mergePosts keeps is of what there was and what came, and is all of it
\* when there is room.
LEMMA PostsKept ==
  ASSUME NEW sn \in Snapshot, NEW list, ToSet(list) \in SUBSET AllPosts,
         NEW t \in KeepPosts(sn, list)
  PROVE  /\ t \in Snapshot
         /\ t.subs = sn.subs /\ t.read = sn.read /\ t.saved = sn.saved
         /\ t.marked = sn.marked /\ t.above = sn.above /\ t.unread = sn.unread
         /\ Cardinality(sn.posts \cup ToSet(list)) <= MaxPosts
            => t.posts = sn.posts \cup ToSet(list)
<1> DEFINE merged == sn.posts \cup ToSet(list)
           before(p, r) == \/ Newer(p, r)
                           \/ TimeOf[p] = TimeOf[r] /\ p \in sn.posts /\ r \notin sn.posts
<1>1. PICK kept \in SUBSET merged :
         /\ t = [sn EXCEPT !.posts = kept]
         /\ Cardinality(kept) = Min({MaxPosts, Cardinality(merged)})
  BY DEF KeepPosts, MergePosts
<1>2. merged \in SUBSET AllPosts
  BY DEF Snapshot
<1>3. IsFiniteSet(merged) /\ Cardinality(merged) \in Nat
  BY <1>2, QueriesAssumption, FS_Subset, FS_CardinalityType
<1>4. ASSUME Cardinality(merged) <= MaxPosts
      PROVE  kept = merged
  <2> DEFINE n == Cardinality(merged)
  <2>1. n \in Int /\ MaxPosts \in Int
    <3>1. MaxPosts \in Nat
      BY CacheAssumption, Zenon
    <3> HIDE DEF merged
    <3>2. QED
      BY <1>3, <3>1
  <2>2. Min({MaxPosts, n}) = IF MaxPosts <= n THEN MaxPosts ELSE n
    <3> HIDE DEF n
    <3>1. QED
      BY <2>1, OfTwo, Zenon
  <2>3. Cardinality(kept) = n
    BY <1>1, <1>4, <2>1, <2>2
  <2> HIDE DEF merged
  <2>4. QED
    BY <1>3, <2>3, FS_Subset DEF n
<1>5. kept \in SUBSET AllPosts
  BY <1>2
<1> HIDE DEF merged
<1>6. QED
  BY <1>1, <1>4, <1>5 DEF Snapshot, merged

\* A page as long as the cache holds every post the account has, when there
\* are no more than that.
LEMMA EverythingIsAsked ==
  ASSUME NEW sh, sh.posts \in SUBSET AllPosts, Cardinality(Followed(sh)) <= MaxPosts,
         NEW answer \in Posts(sh, Everything)
  PROVE  ToSet(answer) = Followed(sh)
<1> DEFINE all == Followed(sh)
           order == ByTime("desc", all)
<1>1. all \in SUBSET AllPosts
  BY DEF Followed
<1>2. IsFiniteSet(all) /\ Cardinality(all) \in Nat
  BY <1>1, QueriesAssumption, FS_Subset, FS_CardinalityType
<1>3. Selected(sh, Everything) = all
  <2>1. \A p \in all : TimeOf[p] >= 0
    BY <1>1, QueriesAssumption
  <2>2. QED
    BY <2>1 DEF Selected, Everything
<1>4. PICK list \in Listings(all, order) : answer = Upto(list, Everything)
  <2>1. Everything.word = <<>> /\ Everything.perFeed = 0 /\ Everything.dir = "desc"
    BY DEF Everything
  <2>2. answer \in GetPostsForUserFiltered(sh, Everything)
    BY <2>1 DEF Posts
  <2>3. QED
    BY <1>3, <2>1, <2>2 DEF GetPostsForUserFiltered
<1> HIDE DEF all, order
<1>5. list \in Seq(all) /\ Len(list) = Cardinality(all) /\ ToSet(list) = all
  BY <1>2, ListingIs
<1>6. MaxPosts \in Nat
  BY CacheAssumption
<1> DEFINE n == Len(list)
<1>7. n \in Nat /\ n <= MaxPosts /\ list = [i \in 1..n |-> list[i]]
  BY <1>2, <1>5 DEF all
<1>8. Min({MaxPosts, Max({n - 0, 0})}) = n
  <2>1. n - 0 = n /\ n \in Int /\ 0 \in Int /\ MaxPosts \in Int
    BY <1>6, <1>7
  <2> HIDE DEF n
  <2>2. Max({n, 0}) = n
    BY <1>7, <2>1, OfTwo
  <2>3. Min({MaxPosts, n}) = n
    <3>1. \A a, b \in Int : b <= a => Min({a, b}) = b
      <4> TAKE a, b \in Int
      <4>1. Min({a, b}) = IF a <= b THEN a ELSE b
        BY OfTwo
      <4>2. QED
        BY <4>1
    <3>2. QED
      BY <1>7, <2>1, <3>1
  <2>4. QED
    BY <2>1, <2>2, <2>3
<1>9. Upto(list, Everything) = [i \in 1..n |-> list[0 + i]]
  <2>1. Everything.limit = MaxPosts /\ Everything.offset = 0
    BY DEF Everything
  <2>2. QED
    BY <1>8, <2>1 DEF Upto
<1>10. [i \in 1..n |-> list[0 + i]] = list
  <2>1. \A i \in 1..n : 0 + i = i
    OBVIOUS
  <2>2. QED
    BY <1>7, <2>1
<1>11. QED
  BY <1>4, <1>5, <1>9, <1>10 DEF all

LEMMA BookmarksAre ==
  ASSUME NEW sh \in Shelf
  PROVE  /\ GetBookmarksForUser(sh).posts = sh.saved \cap sh.posts
         /\ GetBookmarksForUser(sh).posts \in SUBSET AllPosts
         /\ GetBookmarksForUser(sh).order \in SUBSET (AllPosts \X AllPosts)
<1> DEFINE kept == sh.saved \cap sh.posts
           order == sh.after \cap (kept \X kept)
<1>1. kept \in SUBSET AllPosts /\ order \in SUBSET (AllPosts \X AllPosts)
  BY DEF Shelf
<1>2. GetBookmarksForUser(sh) = [posts |-> kept, order |-> order]
  BY DEF GetBookmarksForUser
<1> HIDE DEF kept, order
<1>3. QED
  BY <1>1, <1>2 DEF kept

LEMMA MarksKept ==
  ASSUME NEW sn \in Snapshot, NEW sh \in Shelf
  PROVE  /\ KeepMarked(sn, sh) \in Snapshot
         /\ KeepSaved(sn, sh) \in Snapshot
         /\ KeepRead(sn, sh) \in Snapshot
         /\ KeepUnread(sn, sh) \in Snapshot
         /\ KeepSubs(sn, sh) \in Snapshot
<1> DEFINE u == GetUnreadCountsForUser(sh)
           m == GetBookmarksForUser(sh).posts
           o == GetBookmarksForUser(sh).order
<1>1. u \in [Feeds -> Nat]
  BY UnreadCounts
<1>2. m \in SUBSET AllPosts /\ o \in SUBSET (AllPosts \X AllPosts)
  BY BookmarksAre
<1>3. KeepMarked(sn, sh) = [sn EXCEPT !.marked = m, !.above = o]
      /\ KeepUnread(sn, sh) = [sn EXCEPT !.unread = u]
  BY DEF KeepMarked, KeepUnread
<1> HIDE DEF u, m, o
<1>4. KeepMarked(sn, sh) \in Snapshot /\ KeepUnread(sn, sh) \in Snapshot
  BY <1>1, <1>2, <1>3 DEF Snapshot
<1>5. KeepSaved(sn, sh) \in Snapshot /\ KeepRead(sn, sh) \in Snapshot
      /\ KeepSubs(sn, sh) \in Snapshot
  BY DEF KeepSaved, KeepRead, KeepSubs, Snapshot, Shelf
<1>6. QED
  BY <1>4, <1>5

\* The marks a sync asks for, after the follows and the posts.
LEMMA SyncIs ==
  ASSUME NEW sn \in Snapshot, NEW sh \in Shelf
  PROVE  LET t == KeepUnread(KeepRead(KeepSaved(KeepMarked(sn, sh), sh), sh), sh)
         IN /\ t \in Snapshot
            /\ t.posts = sn.posts /\ t.subs = sn.subs
            /\ t.read = sh.read /\ t.saved = sh.saved
            /\ t.marked = GetBookmarksForUser(sh).posts
            /\ t.above = GetBookmarksForUser(sh).order
            /\ t.unread = GetUnreadCountsForUser(sh)
<1> DEFINE u == GetUnreadCountsForUser(sh)
           m == GetBookmarksForUser(sh).posts
           o == GetBookmarksForUser(sh).order
           t3 == KeepMarked(sn, sh)
           t4 == KeepSaved(t3, sh)
           t5 == KeepRead(t4, sh)
           t6 == KeepUnread(t5, sh)
<1>1. t3 \in Snapshot /\ t4 \in Snapshot /\ t5 \in Snapshot /\ t6 \in Snapshot
  <2>1. t3 \in Snapshot
    BY MarksKept
  <2> HIDE DEF t3
  <2>2. t4 \in Snapshot
    BY <2>1, MarksKept
  <2> HIDE DEF t4
  <2>3. t5 \in Snapshot
    BY <2>2, MarksKept
  <2> HIDE DEF t5
  <2>4. t6 \in Snapshot
    BY <2>3, MarksKept
  <2>5. QED
    BY <2>1, <2>2, <2>3, <2>4
<1>2. /\ t3 = [sn EXCEPT !.marked = m, !.above = o]
      /\ t4 = [t3 EXCEPT !.saved = sh.saved]
      /\ t5 = [t4 EXCEPT !.read = sh.read]
      /\ t6 = [t5 EXCEPT !.unread = u]
  BY DEF KeepMarked, KeepSaved, KeepRead, KeepUnread
<1> HIDE DEF u, m, o, t3, t4, t5, t6
<1>3. t3.posts = sn.posts /\ t3.subs = sn.subs /\ t3.marked = m /\ t3.above = o
  BY <1>2 DEF Snapshot
<1>4. /\ t4.posts = sn.posts /\ t4.subs = sn.subs /\ t4.marked = m /\ t4.above = o
      /\ t4.saved = sh.saved
  BY <1>1, <1>2, <1>3 DEF Snapshot
<1>5. /\ t5.posts = sn.posts /\ t5.subs = sn.subs /\ t5.marked = m /\ t5.above = o
      /\ t5.saved = sh.saved /\ t5.read = sh.read
  BY <1>1, <1>2, <1>4 DEF Snapshot
<1>6. /\ t6.posts = sn.posts /\ t6.subs = sn.subs /\ t6.marked = m /\ t6.above = o
      /\ t6.saved = sh.saved /\ t6.read = sh.read /\ t6.unread = u
  BY <1>1, <1>2, <1>5 DEF Snapshot
<1>7. t6 = KeepUnread(KeepRead(KeepSaved(KeepMarked(sn, sh), sh), sh), sh)
  BY DEF t3, t4, t5, t6
<1>8. QED
  BY <1>1, <1>6, <1>7 DEF u, m, o

\* With room for all there is, and nothing left over, that is agreement.
LEMMA SyncLeavesAll ==
  ASSUME NEW sn \in Snapshot, NEW sh \in Shelf,
         Cardinality(Followed(sh)) <= MaxPosts, sn.posts \subseteq Followed(sh),
         NEW list \in Posts(sh, Everything),
         NEW kept \in KeepPosts(KeepSubs(sn, sh), list)
  PROVE  LET t == KeepUnread(KeepRead(KeepSaved(KeepMarked(kept, sh), sh), sh), sh)
         IN Agrees(t, sh) /\ t.above = GetBookmarksForUser(sh).order
<1> DEFINE first == KeepSubs(sn, sh)
           t == KeepUnread(KeepRead(KeepSaved(KeepMarked(kept, sh), sh), sh), sh)
<1>1. sh.posts \in SUBSET AllPosts /\ sh.subs \in Follows(Feeds)
  BY DEF Shelf
<1>2. ToSet(list) = Followed(sh) /\ ToSet(list) \in SUBSET AllPosts
  BY <1>1, EverythingIsAsked DEF Followed
<1>3. first \in Snapshot /\ first.posts = sn.posts /\ first.subs = sh.subs
  BY <1>1 DEF KeepSubs, Snapshot
<1> HIDE DEF first
<1>4. first.posts \cup ToSet(list) = Followed(sh)
  BY <1>2, <1>3
<1>5. kept \in KeepPosts(first, list)
  BY DEF first
<1>6. kept \in Snapshot /\ kept.subs = sh.subs /\ kept.posts = Followed(sh)
  <2>1. Cardinality(first.posts \cup ToSet(list)) <= MaxPosts
    BY <1>4
  <2>2. /\ kept \in Snapshot /\ kept.subs = first.subs
        /\ Cardinality(first.posts \cup ToSet(list)) <= MaxPosts
           => kept.posts = first.posts \cup ToSet(list)
    BY <1>2, <1>3, <1>5, PostsKept
  <2>3. QED
    BY <1>3, <1>4, <2>1, <2>2
<1>7. /\ t.posts = kept.posts /\ t.subs = kept.subs
      /\ t.read = sh.read /\ t.saved = sh.saved
      /\ t.marked = GetBookmarksForUser(sh).posts
      /\ t.above = GetBookmarksForUser(sh).order
      /\ t.unread = GetUnreadCountsForUser(sh)
  BY <1>6, SyncIs
<1> HIDE DEF t
<1>8. Agrees(t, sh) /\ t.above = GetBookmarksForUser(sh).order
  BY <1>6, <1>7 DEF Agrees
<1>9. QED
  BY <1>8 DEF t

-----------------------------------------------------------------------------
(* The types, step by step *)

LEMMA UptoIsOfThem ==
  ASSUME NEW s, NEW list \in Seq(s), NEW q, q.limit \in Nat, q.offset \in Nat
  PROVE  ToSet(Upto(list, q)) \subseteq s
<1> DEFINE len == Len(list)
           rest == Max({len - q.offset, 0})
           most == Min({q.limit, rest})
<1>1. len \in Nat /\ \A i \in 1..len : list[i] \in s
  OBVIOUS
<1>2. Upto(list, q) = [i \in 1..most |-> list[q.offset + i]]
  BY DEF Upto
<1>3. rest = IF len >= q.offset THEN len - q.offset ELSE 0
  <2>1. len - q.offset \in Int /\ 0 \in Int
    BY <1>1
  <2> DEFINE d == len - q.offset
  <2>2. d \in Int
    BY <2>1
  <2> HIDE DEF len, d
  <2>3. Max({d, 0}) = IF d >= 0 THEN d ELSE 0
    BY <2>2, <2>1, OfTwo, Zenon
  <2>4. QED
    BY <1>1, <2>3 DEF d
<1>4. rest \in Int
  BY <1>1, <1>3
<1> HIDE DEF rest
<1>5. most \in Int /\ most <= rest
  <2>1. most = IF q.limit <= rest THEN q.limit ELSE rest
    <3>1. q.limit \in Int
      OBVIOUS
    <3>2. QED
      BY <1>4, <3>1, OfTwo, Zenon
  <2>2. QED
    BY <1>4, <2>1
<1> HIDE DEF most, len
<1>6. \A i \in 1..most : list[q.offset + i] \in s
  <2> TAKE i \in 1..most
  <2>1. q.offset + i \in 1..len
    BY <1>1, <1>3, <1>5
  <2>2. QED
    BY <1>1, <2>1
<1>7. QED
  BY <1>2, <1>6 DEF ToSet

LEMMA PageIsOfThem ==
  ASSUME NEW s \in SUBSET AllPosts, NEW order, NEW list \in Listings(s, order),
         NEW q, q.limit \in Nat, q.offset \in Nat
  PROVE  ToSet(Upto(list, q)) \in SUBSET AllPosts
<1>1. IsFiniteSet(s)
  BY QueriesAssumption, FS_Subset
<1>2. list \in Seq(s)
  BY <1>1, ListingIs
<1>3. QED
  BY <1>2, UptoIsOfThem

LEMMA OnlyFollowedAreListed ==
  ASSUME NEW sh \in Shelf, NEW q \in Query, NEW answer \in Posts(sh, q)
  PROVE  ToSet(answer) \in SUBSET AllPosts
<1>1. q.limit \in Nat /\ q.offset \in Nat
  BY DEF Query
<1>2. /\ Followed(sh) \in SUBSET AllPosts
      /\ Searched(sh, q) \in SUBSET AllPosts /\ Selected(sh, q) \in SUBSET AllPosts
  BY DEF Followed, Shelf, Searched, Selected
<1>3. CASE q.word # <<>>
  <2> DEFINE found == Searched(sh, q)
             r == [q EXCEPT !.offset = 0]
  <2>1. r.limit \in Nat /\ r.offset \in Nat
    BY <1>1 DEF Query
  <2>2. PICK list \in Listings(found, ByTime("desc", found)) : answer = Upto(list, r)
    BY <1>3 DEF Posts, SearchPostsForUser
  <2> HIDE DEF found, r
  <2>3. QED
    BY <1>2, <2>1, <2>2, PageIsOfThem DEF found
<1>4. CASE ~(q.word # <<>>) /\ q.perFeed > 0
  <2> DEFINE found == Selected(sh, q)
  <2>1. PICK rows \in Listings(found, PerFeed(found)) :
           \E list \in Listings(Ranked(rows, q.perFeed), ByFeed(found, Collated)) :
              answer = Upto(list, q)
    BY <1>4 DEF Posts, GetPostDigestForUser
  <2> DEFINE first == Ranked(rows, q.perFeed)
  <2>2. PICK list \in Listings(first, ByFeed(found, Collated)) : answer = Upto(list, q)
    BY <2>1
  <2>3. first \in SUBSET AllPosts
    <3>1. \A i \in DOMAIN rows : rows[i] \in AllPosts
      BY <1>2, <2>1 DEF Listings
    <3>2. QED
      BY <3>1 DEF Ranked
  <2> HIDE DEF found, first
  <2>4. QED
    BY <1>1, <2>2, <2>3, PageIsOfThem
<1>5. CASE ~(q.word # <<>>) /\ ~(q.perFeed > 0)
  <2> DEFINE found == Selected(sh, q)
  <2>1. PICK list \in Listings(found, ByTime(q.dir, found)) : answer = Upto(list, q)
    BY <1>5 DEF Posts, GetPostsForUserFiltered
  <2> HIDE DEF found
  <2>2. QED
    BY <1>1, <1>2, <2>1, PageIsOfThem DEF found
<1>6. QED
  BY <1>3, <1>4, <1>5

CacheTypes ==
    /\ shelf \in Shelf
    /\ snap \in Snapshot
    /\ queue \in Seq(Change)

LEMMA StartTypes == CacheInit => CacheTypes
<1> SUFFICES ASSUME CacheInit PROVE CacheTypes
  OBVIOUS
<1>1. NoFolder \in Folders
  BY QueriesAssumption
<1> DEFINE all == [f \in Feeds |-> NoFolder]
           none == <<>>
<1>2. all \in Follows(Feeds)
  <2>1. DOMAIN all = Feeds /\ \A f \in Feeds : all[f] = NoFolder
    OBVIOUS
  <2>2. all = [f \in DOMAIN all |-> all[f]]
    OBVIOUS
  <2> HIDE DEF all
  <2>3. QED
    BY <1>1, <2>1, <2>2, FollowsAre
<1>3. none \in Follows(Feeds)
  <2>1. DOMAIN none = {} /\ none = [f \in DOMAIN none |-> none[f]]
    OBVIOUS
  <2> HIDE DEF none
  <2>2. QED
    BY <2>1, FollowsAre
<1> HIDE DEF all, none
<1>4. shelf \in Shelf
  <2>1. shelf = [posts |-> AllPosts, subs |-> all, read |-> {}, saved |-> {},
               after |-> {}]
    BY DEF CacheInit, all
  <2>2. QED
    BY <1>2, <2>1 DEF Shelf
<1>5. snap \in Snapshot
  <2> DEFINE zero == [f \in Feeds |-> 0]
  <2>1. zero \in [Feeds -> Nat]
    OBVIOUS
  <2>2. snap = [posts |-> {}, subs |-> none, read |-> {}, saved |-> {},
                marked |-> {}, above |-> {}, unread |-> zero]
    BY DEF CacheInit, none
  <2> HIDE DEF zero
  <2>3. QED
    BY <1>3, <2>1, <2>2 DEF Snapshot
<1>6. queue \in Seq(Change)
  BY DEF CacheInit
<1>7. QED
  BY <1>4, <1>5, <1>6 DEF CacheTypes

LEMMA DrainTypes ==
  ASSUME CacheTypes, Drain
  PROVE  shelf' \in Shelf /\ queue' \in Seq(Change)
<1>1. shelf' = Replay(queue, shelf) /\ queue' = <<>>
  BY DEF Drain
<1>2. shelf \in Shelf /\ queue \in Seq(Change)
  BY DEF CacheTypes
<1>3. QED
  BY <1>1, <1>2, ReplayKeeps

LEMMA MovedIsAShelf ==
  ASSUME NEW sh \in Shelf, NEW sh2, Moved(sh, sh2)
  PROVE  sh2 \in Shelf
<1>1. /\ DOMAIN sh.subs \subseteq Feeds
      /\ \A g \in DOMAIN sh.subs : sh.subs[g] \in Folders
  BY FollowsAre DEF Shelf
<1>2. CASE \E c \in Change : c.op # "read_all" /\ sh2 = Carried(c, sh)
  BY <1>2, CarriedIs
<1>3. CASE \E ps \in SUBSET AllPosts : sh2 = [sh EXCEPT !.read = @ \cup (ps \cap Followed(sh))]
  <2>1. PICK ps \in SUBSET AllPosts : sh2 = [sh EXCEPT !.read = sh.read \cup (ps \cap Followed(sh))]
    BY <1>3
  <2> DEFINE rs == sh.read \cup (ps \cap Followed(sh))
  <2>2. rs \in SUBSET AllPosts /\ sh2 = [sh EXCEPT !.read = rs]
    BY <2>1 DEF Shelf
  <2> HIDE DEF rs
  <2>3. QED
    BY <2>2 DEF Shelf
<1>4. CASE \E f \in DOMAIN sh.subs :
              sh2 = [sh EXCEPT !.subs = [g \in DOMAIN @ \ {f} |-> @[g]]]
  <2>1. PICK f : sh2 = [sh EXCEPT !.subs = [g \in DOMAIN sh.subs \ {f} |-> sh.subs[g]]]
    BY <1>4
  <2> DEFINE s == [g \in DOMAIN sh.subs \ {f} |-> sh.subs[g]]
  <2>2. s \in Follows(Feeds)
    <3>1. /\ DOMAIN s = DOMAIN sh.subs \ {f} /\ s = [g \in DOMAIN s |-> s[g]]
          /\ \A g \in DOMAIN s : s[g] = sh.subs[g]
      OBVIOUS
    <3> HIDE DEF s
    <3>2. QED
      BY <1>1, <3>1, FollowsAre
  <2> HIDE DEF s
  <2>3. sh2 = [sh EXCEPT !.subs = s]
    BY <2>1 DEF s
  <2>4. QED
    BY <2>2, <2>3 DEF Shelf
<1>5. CASE \E f \in Feeds \ DOMAIN sh.subs :
              sh2 = [sh EXCEPT !.subs = [g \in DOMAIN @ \cup {f} |->
                                            IF g = f THEN NoFolder ELSE @[g]]]
  <2>1. PICK f \in Feeds :
           sh2 = [sh EXCEPT !.subs = [g \in DOMAIN sh.subs \cup {f} |->
                                         IF g = f THEN NoFolder ELSE sh.subs[g]]]
    BY <1>5
  <2> DEFINE s == [g \in DOMAIN sh.subs \cup {f} |-> IF g = f THEN NoFolder ELSE sh.subs[g]]
  <2>2. s \in Follows(Feeds)
    <3>1. /\ DOMAIN s = DOMAIN sh.subs \cup {f} /\ s = [g \in DOMAIN s |-> s[g]]
          /\ \A g \in DOMAIN s : s[g] = IF g = f THEN NoFolder ELSE sh.subs[g]
      OBVIOUS
    <3> HIDE DEF s
    <3>2. QED
      BY <1>1, <3>1, FollowsAre, QueriesAssumption
  <2> HIDE DEF s
  <2>3. sh2 = [sh EXCEPT !.subs = s]
    BY <2>1 DEF s
  <2>4. QED
    BY <2>2, <2>3 DEF Shelf
<1>6. CASE \E ps \in SUBSET (sh.posts \ sh.saved) :
              sh2 = [sh EXCEPT !.posts = @ \ ps, !.read = @ \ ps]
  <2>1. PICK ps : sh2 = [sh EXCEPT !.posts = sh.posts \ ps, !.read = sh.read \ ps]
    BY <1>6
  <2> DEFINE kept == sh.posts \ ps
             rs == sh.read \ ps
  <2>2. kept \in SUBSET AllPosts /\ rs \in SUBSET AllPosts
    BY DEF Shelf
  <2>3. sh2 = [sh EXCEPT !.posts = kept, !.read = rs]
    BY <2>1
  <2> HIDE DEF kept, rs
  <2>4. QED
    BY <2>2, <2>3 DEF Shelf
<1>7. CASE \E p \in AllPosts \ sh.posts : sh2 = [sh EXCEPT !.posts = @ \cup {p}]
  BY <1>7 DEF Shelf
<1>8. QED
  BY <1>2, <1>3, <1>4, <1>5, <1>6, <1>7 DEF Moved

LEMMA StepTypes ==
  ASSUME CacheTypes, [CacheNext]_cacheVars
  PROVE  CacheTypes'
<1>1. shelf \in Shelf /\ snap \in Snapshot /\ queue \in Seq(Change)
  BY DEF CacheTypes
<1>2. ASSUME NEW q \in Pages, AskPosts(q)
      PROVE  CacheTypes'
  <2>1. PICK list \in Posts(shelf, q) : Drain /\ snap' \in KeepPosts(snap, list)
    BY <1>2 DEF AskPosts
  <2>2. q \in Query
    BY CacheAssumption
  <2>3. ToSet(list) \in SUBSET AllPosts
    BY <1>1, <2>2, OnlyFollowedAreListed
  <2>4. snap' \in Snapshot
    BY <1>1, <2>1, <2>3, PostsKept
  <2>5. QED
    BY <2>1, <2>4, DrainTypes DEF CacheTypes
<1>3. ASSUME NEW p \in AllPosts, PostByURL(p)
      PROVE  CacheTypes'
  <2> DEFINE list == <<p>>
  <2>1. Drain /\ snap' \in KeepPosts(snap, list) /\ ToSet(list) \in SUBSET AllPosts
    BY <1>3 DEF PostByURL, ToSet
  <2> HIDE DEF list
  <2>2. snap' \in Snapshot
    BY <1>1, <2>1, PostsKept
  <2>3. QED
    BY <2>1, <2>2, DrainTypes DEF CacheTypes
<1>4. CASE AskMarks
  <2>1. Drain
    BY <1>4 DEF AskMarks
  <2>2. snap' \in Snapshot
    <3>1. \/ snap' = KeepMarked(snap, shelf)
          \/ snap' = KeepSaved(snap, shelf)
          \/ snap' = KeepRead(snap, shelf)
          \/ snap' = KeepUnread(snap, shelf)
          \/ snap' = KeepSubs(snap, shelf)
      BY <1>4 DEF AskMarks
    <3>2. QED
      BY <1>1, <3>1, MarksKept
  <2>3. QED
    BY <2>1, <2>2, DrainTypes DEF CacheTypes
<1>5. CASE Sync
  <2>1. Drain
    BY <1>5 DEF Sync
  <2>2. shelf' \in Shelf /\ queue' \in Seq(Change)
    BY <2>1, DrainTypes
  <2>3. PICK list \in Posts(shelf', Everything) :
           \E sn \in KeepPosts(KeepSubs(snap, shelf'), list) :
              snap' = KeepUnread(KeepRead(KeepSaved(KeepMarked(sn, shelf'),
                                                    shelf'), shelf'), shelf')
    BY <1>5 DEF Sync
  <2>4. PICK sn \in KeepPosts(KeepSubs(snap, shelf'), list) :
           snap' = KeepUnread(KeepRead(KeepSaved(KeepMarked(sn, shelf'),
                                                 shelf'), shelf'), shelf')
    BY <2>3
  <2>5. Everything \in Query
    <3>1. MaxPosts \in Nat
      BY CacheAssumption
    <3>2. <<>> \in Text
      BY DEF Text
    <3>3. QED
      BY <3>1, <3>2 DEF Everything, Query
  <2>6. ToSet(list) \in SUBSET AllPosts
    BY <2>2, <2>5, OnlyFollowedAreListed
  <2> DEFINE first == KeepSubs(snap, shelf')
             sh == shelf'
  <2>7. first \in Snapshot
    BY <1>1, <2>2, MarksKept
  <2>8. sn \in KeepPosts(first, list)
    OBVIOUS
  <2> HIDE DEF first
  <2>9. sn \in Snapshot
    BY <2>6, <2>7, <2>8, PostsKept
  <2>10. sh \in Shelf /\ snap' = KeepUnread(KeepRead(KeepSaved(KeepMarked(sn, sh), sh), sh), sh)
    BY <2>2, <2>4
  <2> HIDE DEF sh
  <2>11. snap' \in Snapshot
    BY <2>9, <2>10, SyncIs
  <2>12. QED
    BY <2>2, <2>11 DEF CacheTypes
<1>6. ASSUME NEW c \in Offered, WriteOnline(c)
      PROVE  CacheTypes'
  <2>1. c \in Change
    BY DEF Offered
  <2>2. snap' = snap
    BY <1>6 DEF WriteOnline
  <2>3. CASE Refused(c, shelf)
    BY <1>1, <1>6, <2>2, <2>3 DEF WriteOnline, CacheTypes
  <2>4. CASE ~Refused(c, shelf)
    <3>1. shelf' = Replay(queue, Carried(c, shelf)) /\ queue' = <<>>
      BY <1>6, <2>4 DEF WriteOnline
    <3>2. Carried(c, shelf) \in Shelf
      BY <1>1, <2>1, CarriedIs
    <3>3. shelf' \in Shelf
      BY <1>1, <3>1, <3>2, ReplayKeeps
    <3>4. QED
      BY <1>1, <2>2, <3>1, <3>3 DEF CacheTypes
  <2>5. QED
    BY <2>3, <2>4
<1>7. ASSUME NEW c \in Offered, WriteOffline(c)
      PROVE  CacheTypes'
  <2>1. c \in Change
    BY DEF Offered
  <2>2. shelf' = shelf /\ queue' = Append(queue, c) /\ snap' = Apply(c, snap)
    BY <1>7 DEF WriteOffline
  <2>3. snap' \in Snapshot
    BY <1>1, <2>1, <2>2, ApplyIsASnapshot
  <2>4. QED
    BY <1>1, <2>1, <2>2, <2>3 DEF CacheTypes
<1>8. CASE Elsewhere
  BY <1>1, <1>8, MovedIsAShelf DEF Elsewhere, CacheTypes
<1>9. CASE Outage
  BY <1>9 DEF Outage, CacheTypes
<1>10. CASE UNCHANGED cacheVars
  BY <1>10 DEF cacheVars, CacheTypes
<1>11. QED
  BY <1>2, <1>3, <1>4, <1>5, <1>6, <1>7, <1>8, <1>9, <1>10 DEF CacheNext, Event

-----------------------------------------------------------------------------
(* The theorems *)

\* The shelf, the snapshot and the queue hold what they are meant to: marks of
\* posts there are, folders of feeds there are, counts that never go below
\* zero (countUnread, cache.go), changes that can be sent.
THEOREM CacheTypesHold == CacheSpec => []CacheTypes
<1>1. CacheInit => CacheTypes
  BY StartTypes
<1>2. CacheTypes /\ [CacheNext]_cacheVars => CacheTypes'
  BY StepTypes
<1>3. QED
  BY <1>1, <1>2, PTL DEF CacheSpec

\* Whenever the snapshot holds what the server will hold once it has the
\* queue, and the name and the word asked for have no _ % or \, every list
\* the snapshot answers (filter.go) is one the SQL may answer (posts.sql):
\* they select, order, digest and page alike, however many posts are of one
\* time.  Of a digest this is so where the database's collation and
\* strings.Compare put the names of tied feeds alike.  With _ or % the
\* snapshot finds no post that the server does not.
THEOREM SameAnswersHold == CacheSpec => []SameAnswers
<1>1. CacheTypes => SameAnswers
  <2> SUFFICES ASSUME CacheTypes, Agrees(snap, Coming), NEW q \in Asked
               PROVE  /\ /\ Plain(q.name) /\ Plain(q.word)
                         /\ q.perFeed > 0 => TiesAlike(Found(snap, q))
                         => SelectPosts(snap, q) \subseteq Posts(Coming, q)
                      /\ NoEscape(q.name) /\ NoEscape(q.word)
                         => Found(snap, q) \subseteq
                               IF q.word # <<>> THEN Searched(Coming, q)
                               ELSE Selected(Coming, q)
    BY DEF SameAnswers
  <2>1. Coming \in Shelf
    BY ReplayKeeps DEF Coming, CacheTypes
  <2>2. Coming.posts \in SUBSET AllPosts
    BY <2>1 DEF Shelf
  <2> DEFINE there == IF q.word # <<>> THEN Searched(Coming, q) ELSE Selected(Coming, q)
  <2> HIDE DEF Coming
  <2>3. ASSUME Plain(q.name), Plain(q.word),
               q.perFeed > 0 => TiesAlike(Found(snap, q)),
               NEW answer \in SelectPosts(snap, q)
        PROVE  answer \in Posts(Coming, q)
    BY <2>2, <2>3, SameLists
  <2>4. NoEscape(q.name) /\ NoEscape(q.word) => Found(snap, q) \subseteq there
    BY <2>2, FoundAlike
  <2>5. QED
    BY <2>3, <2>4
<1>2. QED
  BY <1>1, CacheTypesHold, PTL

\* Whatever part of the queue the server already has when a drain starts over
\* (flush, offline.go), it ends up with the marks and folders one drain would
\* have left it; only the order of the bookmarks may be another.
THEOREM ResendingHolds == CacheSpec => []ResendingChangesNothing
<1>1. CacheTypes => ResendingChangesNothing
  BY ResendingAStart DEF ResendingChangesNothing, Coming, CacheTypes
<1>2. QED
  BY <1>1, CacheTypesHold, PTL

\* A sync (offline.go) with room for every post there is, and nothing held
\* that the server has dropped, leaves the snapshot equal to the server, the
\* bookmarks in its order.
THEOREM SyncAgreesHolds == CacheSpec => SyncAgrees
<1>1. CacheTypes /\ [CacheNext]_cacheVars =>
        [/\ Sync
         /\ Cardinality(Followed(shelf')) <= MaxPosts
         /\ snap.posts \subseteq Followed(shelf')
         => /\ Agrees(snap', shelf')
            /\ snap'.above = GetBookmarksForUser(shelf').order]_cacheVars
  <2> SUFFICES ASSUME CacheTypes, Sync,
                      Cardinality(Followed(shelf')) <= MaxPosts,
                      snap.posts \subseteq Followed(shelf')
               PROVE  /\ Agrees(snap', shelf')
                      /\ snap'.above = GetBookmarksForUser(shelf').order
    OBVIOUS
  <2> DEFINE sh == shelf'
  <2>1. sh \in Shelf /\ snap \in Snapshot
    BY DrainTypes DEF Sync, CacheTypes
  <2>2. PICK list \in Posts(sh, Everything) :
           \E sn \in KeepPosts(KeepSubs(snap, sh), list) :
              snap' = KeepUnread(KeepRead(KeepSaved(KeepMarked(sn, sh), sh), sh), sh)
    BY DEF Sync
  <2>3. PICK sn \in KeepPosts(KeepSubs(snap, sh), list) :
           snap' = KeepUnread(KeepRead(KeepSaved(KeepMarked(sn, sh), sh), sh), sh)
    BY <2>2
  <2>4. Cardinality(Followed(sh)) <= MaxPosts /\ snap.posts \subseteq Followed(sh)
    OBVIOUS
  <2> HIDE DEF sh
  <2>5. Agrees(snap', sh) /\ snap'.above = GetBookmarksForUser(sh).order
    BY <2>1, <2>3, <2>4, SyncLeavesAll
  <2>6. QED
    BY <2>5 DEF sh
<1>2. QED
  BY <1>1, CacheTypesHold, PTL DEF CacheSpec, SyncAgrees

\* A change made while the server is away (queue.go, cache.go: apply) keeps
\* what the snapshot holds equal to what the server will hold once it has
\* been sent, and puts no two bookmarks out of order but those of which the
\* lower was saved just now: that one is shown last, and listed first later.
THEOREM ChangesForeseenHolds == CacheSpec => ChangesForeseen
<1>1. CacheTypes /\ [CacheNext]_cacheVars =>
        [\A c \in Offered :
            /\ WriteOffline(c)
            /\ Agrees(snap, Coming)
            /\ c.op \in {"read", "bookmark"} => c.post \in Followed(shelf)
            /\ c.op = "read_all" => c.posts \subseteq Followed(shelf)
            => /\ Agrees(snap', Coming')
               /\ \A pr \in OutOfOrder(snap', Coming') :
                     \/ pr \in OutOfOrder(snap, Coming)
                     \/ c.op = "bookmark" /\ pr[2] = c.post]_cacheVars
  <2> SUFFICES ASSUME CacheTypes, NEW c \in Offered, WriteOffline(c),
                      Agrees(snap, Coming),
                      c.op \in {"read", "bookmark"} => c.post \in Followed(shelf),
                      c.op = "read_all" => c.posts \subseteq Followed(shelf)
               PROVE  /\ Agrees(snap', Coming')
                      /\ \A pr \in OutOfOrder(snap', Coming') :
                            \/ pr \in OutOfOrder(snap, Coming)
                            \/ c.op = "bookmark" /\ pr[2] = c.post
    OBVIOUS
  <2>1. shelf \in Shelf /\ snap \in Snapshot /\ queue \in Seq(Change) /\ c \in Change
    BY DEF CacheTypes, Offered
  <2>2. Coming \in Shelf /\ Followed(Coming) = Followed(shelf)
    BY <2>1, ReplayKeeps DEF Coming
  <2>3. snap' = Apply(c, snap) /\ shelf' = shelf /\ queue' = Append(queue, c)
    BY DEF WriteOffline
  <2>4. Coming' = Carried(c, Coming)
    BY <2>1, <2>3, ReplayOneMore DEF Coming
  <2> HIDE DEF Coming
  <2>5. Agrees(Apply(c, snap), Carried(c, Coming))
    BY <2>1, <2>2, ChangeForeseen
  <2>6. \A pr \in OutOfOrder(Apply(c, snap), Carried(c, Coming)) :
           pr \in OutOfOrder(snap, Coming) \/ (c.op = "bookmark" /\ pr[2] = c.post)
    BY <2>1, <2>2, OrderForeseen
  <2> DEFINE there == Coming'
  <2>7. there = Carried(c, Coming)
    BY <2>4
  <2> HIDE DEF there
  <2>8. /\ Agrees(snap', there)
        /\ \A pr \in OutOfOrder(snap', there) :
              pr \in OutOfOrder(snap, Coming) \/ (c.op = "bookmark" /\ pr[2] = c.post)
    BY <2>3, <2>5, <2>6, <2>7
  <2>9. QED
    BY <2>8 DEF there
<1>2. QED
  BY <1>1, CacheTypesHold, PTL DEF CacheSpec, ChangesForeseen

-----------------------------------------------------------------------------
(* The server of the offline store is one account's view of the library *)

(* The tables of Library keep no created_at of the bookmarks: order is what *)
(* they say of it, whatever it is.                                          *)
PostOrders == SUBSET (AllPosts \X AllPosts)

ShelfOf(u, order) == [posts |-> posts, subs |-> subs[u], read |-> read[u],
                      saved |-> saved[u], after |-> order]

Moves(u, order) ==
    \E later \in PostOrders : Moved(ShelfOf(u, order), ShelfOf(u, later)')

SeesMove(u, order) == ShelfOf(u, order)' = ShelfOf(u, order) \/ Moves(u, order)

LEMMA OrderGrows ==
  ASSUME NEW l \in PostOrders, NEW a \in SUBSET AllPosts, NEW b \in SUBSET AllPosts
  PROVE  l \cup (a \X b) \in PostOrders
  BY DEF PostOrders

LEMMA ViewIs ==
  ASSUME Inv, NEW u \in Users, NEW l \in PostOrders
  PROVE  /\ Followed(ShelfOf(u, l)) = Within(u)
         /\ Within(u) \subseteq AllPosts
         /\ subs[u] \in Follows(listed) /\ listed \subseteq Feeds
         /\ read \in [Users -> SUBSET posts] /\ saved \in [Users -> SUBSET posts]
         /\ subs \in [Users -> Follows(listed)]
  BY InvParts DEF Tables, Within, Followed, ShelfOf

LEMMA ViewStands ==
  ASSUME NEW u \in Users, NEW l \in PostOrders, posts' = posts, subs'[u] = subs[u],
         read'[u] = read[u], saved'[u] = saved[u]
  PROVE  SeesMove(u, l)
<1>1. ShelfOf(u, l)' = ShelfOf(u, l)
  BY DEF ShelfOf
<1>2. QED
  BY <1>1 DEF SeesMove

LEMMA ViewMoves ==
  ASSUME NEW u \in Users, NEW l \in PostOrders, NEW later \in PostOrders,
         Moved(ShelfOf(u, l), ShelfOf(u, later)')
  PROVE  SeesMove(u, l)
  BY DEF SeesMove, Moves

LEMMA ViewReads ==
  ASSUME Inv, NEW u \in Users, NEW l \in PostOrders, NEW ps \in SUBSET AllPosts,
         posts' = posts, subs'[u] = subs[u], saved'[u] = saved[u],
         read'[u] = read[u] \cup (ps \cap Within(u))
  PROVE  SeesMove(u, l)
<1>1. ShelfOf(u, l)' = [ShelfOf(u, l) EXCEPT !.read = read[u] \cup (ps \cap Within(u))]
  BY DEF ShelfOf
<1>2. ShelfOf(u, l).read = read[u]
  BY DEF ShelfOf
<1>3. ShelfOf(u, l)' = [ShelfOf(u, l) EXCEPT !.read = @ \cup (ps \cap Followed(ShelfOf(u, l)))]
  BY <1>1, <1>2, ViewIs
<1>4. Moved(ShelfOf(u, l), ShelfOf(u, l)')
  BY <1>3 DEF Moved
<1>5. QED
  BY <1>4, ViewMoves

LEMMA ViewChanges ==
  ASSUME Inv, NEW u \in Users, NEW l \in PostOrders, NEW later \in PostOrders,
         NEW c \in Change, c.op # "read_all",
         ShelfOf(u, later)' = Carried(c, ShelfOf(u, l))
  PROVE  SeesMove(u, l)
<1>1. Moved(ShelfOf(u, l), ShelfOf(u, later)')
  BY DEF Moved
<1>2. QED
  BY <1>1, ViewMoves

LEMMA MarkMoves ==
  ASSUME Inv, NEW v \in Users, NEW u \in Users, NEW l \in PostOrders,
         \/ \E p \in AllPosts : MarkPostRead(v, p)
         \/ \E p \in AllPosts : MarkPostUnread(v, p)
         \/ \E p \in AllPosts : CreateBookmark(v, p)
         \/ \E p \in AllPosts : DeleteBookmark(v, p)
         \/ \E ps \in SUBSET AllPosts : MarkPostsRead(v, ps)
  PROVE  SeesMove(u, l)
<1>1. /\ Followed(ShelfOf(u, l)) = Within(u)
      /\ read \in [Users -> SUBSET posts] /\ saved \in [Users -> SUBSET posts]
  BY ViewIs
<1>2. CASE \E p \in AllPosts : MarkPostRead(v, p)
  <2>1. PICK p \in AllPosts : MarkPostRead(v, p)
    BY <1>2
  <2>2. posts' = posts /\ subs' = subs /\ saved' = saved
    BY <2>1 DEF MarkPostRead
  <2>3. CASE v = u
    <3>1. read'[u] = read[u] \cup ({p} \cap Within(u))
      BY <1>1, <2>1, <2>3 DEF MarkPostRead
    <3>2. {p} \in SUBSET AllPosts
      OBVIOUS
    <3>3. QED
      BY <2>2, <3>1, <3>2, ViewReads
  <2>4. CASE v # u
    <3>1. read'[u] = read[u]
      BY <1>1, <2>1, <2>4 DEF MarkPostRead
    <3>2. QED
      BY <2>2, <3>1, ViewStands
  <2>5. QED
    BY <2>3, <2>4
<1>3. CASE \E p \in AllPosts : MarkPostUnread(v, p)
  <2>1. PICK p \in AllPosts : MarkPostUnread(v, p)
    BY <1>3
  <2>2. posts' = posts /\ subs' = subs /\ saved' = saved
    BY <2>1 DEF MarkPostUnread
  <2>3. CASE v = u
    <3> DEFINE c == [op |-> "read", post |-> p, value |-> FALSE]
    <3>1. c \in Change /\ c.op = "read" /\ c.post = p /\ c.value = FALSE
      BY DEF Change
    <3>2. read'[u] = read[u] \ {p}
      BY <1>1, <2>1, <2>3 DEF MarkPostUnread
    <3> HIDE DEF c
    <3>3. ShelfOf(u, l)' = Carried(c, ShelfOf(u, l))
      <4>1. Carried(c, ShelfOf(u, l)) = [ShelfOf(u, l) EXCEPT !.read = ShelfOf(u, l).read \ {p}]
        BY <3>1 DEF Carried, Without
      <4>2. QED
        BY <2>2, <3>2, <4>1 DEF ShelfOf
    <3>4. QED
      BY <3>1, <3>3, ViewChanges
  <2>4. CASE v # u
    <3>1. read'[u] = read[u]
      BY <1>1, <2>1, <2>4 DEF MarkPostUnread
    <3>2. QED
      BY <2>2, <3>1, ViewStands
  <2>5. QED
    BY <2>3, <2>4
<1>4. CASE \E p \in AllPosts : CreateBookmark(v, p)
  <2>1. PICK p \in AllPosts : CreateBookmark(v, p)
    BY <1>4
  <2>2. posts' = posts /\ subs' = subs /\ read' = read
    BY <2>1 DEF CreateBookmark
  <2>3. CASE v = u
    <3> DEFINE c == [op |-> "bookmark", post |-> p, value |-> TRUE]
               new == ({p} \cap Within(u)) \ saved[u]
               all == saved[u] \cup new
               later == l \cup (new \X saved[u])
    <3>1. c \in Change /\ c.op = "bookmark" /\ c.post = p /\ c.value = TRUE
      BY DEF Change
    <3>2. saved'[u] = all
      BY <1>1, <2>1, <2>3 DEF CreateBookmark
    <3>3. later \in PostOrders
      <4>1. new \subseteq AllPosts
        BY ViewIs
      <4>2. saved[u] \subseteq AllPosts
        BY <1>1, InvParts DEF Tables
      <4> HIDE DEF new
      <4>3. QED
        BY <4>1, <4>2, OrderGrows
    <3>4. /\ ShelfOf(u, l).saved = saved[u] /\ ShelfOf(u, l).after = l
      BY DEF ShelfOf
    <3> HIDE DEF c
    <3>5. Carried(c, ShelfOf(u, l)) = Bookmarked(p, ShelfOf(u, l))
      BY <3>1 DEF Carried
    <3>6. Bookmarked(p, ShelfOf(u, l)) = [ShelfOf(u, l) EXCEPT !.saved = all, !.after = later]
      <4> DEFINE sh == ShelfOf(u, l)
      <4>1. Followed(sh) = Within(u) /\ sh.saved = saved[u] /\ sh.after = l
        BY <1>1, <3>4
      <4> HIDE DEF sh
      <4>2. ({p} \cap Followed(sh)) \ sh.saved = new
        BY <4>1
      <4> HIDE DEF new
      <4>3. Bookmarked(p, sh) = [sh EXCEPT !.saved = @ \cup new, !.after = @ \cup (new \X sh.saved)]
        BY <4>2 DEF Bookmarked
      <4>4. Bookmarked(p, sh) = [sh EXCEPT !.saved = all, !.after = later]
        BY <4>1, <4>3
      <4>5. QED
        BY <4>4 DEF sh
    <3> HIDE DEF all, later
    <3>7. PICK order \in PostOrders : order = later
      BY <3>3
    <3> DEFINE half == [ShelfOf(u, l) EXCEPT !.saved = all]
    <3>8. half = [posts |-> posts, subs |-> subs[u], read |-> read[u],
                  saved |-> all, after |-> l]
      BY DEF ShelfOf
    <3>9. [half EXCEPT !.after = later] = [ShelfOf(u, l) EXCEPT !.saved = all, !.after = later]
      OBVIOUS
    <3> HIDE DEF half
    <3>10. ShelfOf(u, order)' = [half EXCEPT !.after = later]
      BY <2>2, <3>2, <3>7, <3>8 DEF ShelfOf
    <3>11. ShelfOf(u, order)' = Carried(c, ShelfOf(u, l))
      BY <3>5, <3>6, <3>9, <3>10
    <3>12. QED
      BY <3>1, <3>11, ViewChanges
  <2>4. CASE v # u
    <3>1. saved'[u] = saved[u]
      BY <1>1, <2>1, <2>4 DEF CreateBookmark
    <3>2. QED
      BY <2>2, <3>1, ViewStands
  <2>5. QED
    BY <2>3, <2>4
<1>5. CASE \E p \in AllPosts : DeleteBookmark(v, p)
  <2>1. PICK p \in AllPosts : DeleteBookmark(v, p)
    BY <1>5
  <2>2. posts' = posts /\ subs' = subs /\ read' = read
    BY <2>1 DEF DeleteBookmark
  <2>3. CASE v = u
    <3> DEFINE c == [op |-> "bookmark", post |-> p, value |-> FALSE]
               all == saved[u] \ {p}
               later == Leaving(l, p)
    <3>1. c \in Change /\ c.op = "bookmark" /\ c.post = p /\ c.value = FALSE
      BY DEF Change
    <3>2. saved'[u] = all
      BY <1>1, <2>1, <2>3 DEF DeleteBookmark
    <3>3. later \in PostOrders
      BY DEF PostOrders, Leaving
    <3>4. /\ ShelfOf(u, l).saved = saved[u] /\ ShelfOf(u, l).after = l
      BY DEF ShelfOf
    <3> HIDE DEF c
    <3>5. Carried(c, ShelfOf(u, l)) = Unbookmarked(p, ShelfOf(u, l))
      BY <3>1 DEF Carried
    <3>6. Unbookmarked(p, ShelfOf(u, l)) = [ShelfOf(u, l) EXCEPT !.saved = all, !.after = later]
      <4> DEFINE sh == ShelfOf(u, l)
      <4>1. Without(sh.saved, p) = all /\ Leaving(sh.after, p) = later
        BY <3>4 DEF Without
      <4> HIDE DEF sh, all, later
      <4>2. Unbookmarked(p, sh) = [sh EXCEPT !.saved = all, !.after = later]
        BY <4>1 DEF Unbookmarked
      <4>3. QED
        BY <4>2 DEF sh
    <3> HIDE DEF all, later
    <3>7. PICK order \in PostOrders : order = later
      BY <3>3
    <3> DEFINE half == [ShelfOf(u, l) EXCEPT !.saved = all]
    <3>8. half = [posts |-> posts, subs |-> subs[u], read |-> read[u],
                  saved |-> all, after |-> l]
      BY DEF ShelfOf
    <3>9. [half EXCEPT !.after = later] = [ShelfOf(u, l) EXCEPT !.saved = all, !.after = later]
      OBVIOUS
    <3> HIDE DEF half
    <3>10. ShelfOf(u, order)' = [half EXCEPT !.after = later]
      BY <2>2, <3>2, <3>7, <3>8 DEF ShelfOf
    <3>11. ShelfOf(u, order)' = Carried(c, ShelfOf(u, l))
      BY <3>5, <3>6, <3>9, <3>10
    <3>12. QED
      BY <3>1, <3>11, ViewChanges
  <2>4. CASE v # u
    <3>1. saved'[u] = saved[u]
      BY <1>1, <2>1, <2>4 DEF DeleteBookmark
    <3>2. QED
      BY <2>2, <3>1, ViewStands
  <2>5. QED
    BY <2>3, <2>4
<1>6. CASE \E ps \in SUBSET AllPosts : MarkPostsRead(v, ps)
  <2>1. PICK ps \in SUBSET AllPosts : MarkPostsRead(v, ps)
    BY <1>6
  <2>2. posts' = posts /\ subs' = subs /\ saved' = saved
    BY <2>1 DEF MarkPostsRead
  <2>3. CASE v = u
    <3>1. read'[u] = read[u] \cup (ps \cap Within(u))
      BY <1>1, <2>1, <2>3 DEF MarkPostsRead
    <3>2. QED
      BY <2>2, <3>1, ViewReads
  <2>4. CASE v # u
    <3>1. read'[u] = read[u]
      BY <1>1, <2>1, <2>4 DEF MarkPostsRead
    <3>2. QED
      BY <2>2, <3>1, ViewStands
  <2>5. QED
    BY <2>3, <2>4
<1>7. QED
  BY <1>2, <1>3, <1>4, <1>5, <1>6

LEMMA UnfollowMoves ==
  ASSUME Inv, NEW v \in Users, NEW u \in Users, NEW l \in PostOrders, NEW f, DeleteFeedFollow(v, f)
  PROVE  SeesMove(u, l)
<1>1. /\ subs[u] = [g \in DOMAIN subs[u] |-> subs[u][g]]
      /\ subs \in [Users -> Follows(listed)]
  BY ViewIs, FollowsAre
<1>2. posts' = posts /\ read' = read /\ saved' = saved
  BY DEF DeleteFeedFollow
<1>3. CASE v = u /\ f \in DOMAIN subs[u]
  <2>1. subs'[u] = [g \in DOMAIN subs[u] \ {f} |-> subs[u][g]]
    BY <1>1, <1>3 DEF DeleteFeedFollow
  <2>2. ShelfOf(u, l).subs = subs[u]
    BY DEF ShelfOf
  <2>3. ShelfOf(u, l)' = [ShelfOf(u, l) EXCEPT !.subs = [g \in DOMAIN subs[u] \ {f} |-> subs[u][g]]]
    BY <1>2, <2>1 DEF ShelfOf
  <2>4. ShelfOf(u, l)' = [ShelfOf(u, l) EXCEPT !.subs = [g \in DOMAIN @ \ {f} |-> @[g]]]
    BY <2>2, <2>3
  <2>5. f \in DOMAIN ShelfOf(u, l).subs
    BY <1>3, <2>2
  <2>6. Moved(ShelfOf(u, l), ShelfOf(u, l)')
    BY <2>4, <2>5 DEF Moved
  <2>7. QED
    BY <2>6, ViewMoves
<1>4. CASE ~(v = u /\ f \in DOMAIN subs[u])
  <2>1. subs'[u] = subs[u]
    <3>1. CASE v = u
      <4>1. DOMAIN subs[u] \ {f} = DOMAIN subs[u]
        BY <1>4, <3>1
      <4>2. subs'[u] = [g \in DOMAIN subs[u] \ {f} |-> subs[u][g]]
        BY <1>1, <3>1 DEF DeleteFeedFollow
      <4>3. QED
        BY <1>1, <4>1, <4>2
    <3>2. CASE v # u
      BY <1>1, <3>2 DEF DeleteFeedFollow
    <3>3. QED
      BY <3>1, <3>2
  <2>2. QED
    BY <1>2, <2>1, ViewStands
<1>5. QED
  BY <1>3, <1>4

LEMMA FollowMoves ==
  ASSUME Inv, NEW c \in Calls, NEW u \in Users, NEW l \in PostOrders, CreateFeedFollow(c)
  PROVE  SeesMove(u, l)
<1> DEFINE k == call[c]
           f == k.feed
<1>1. k \in Filing
  BY InvParts, Kinds DEF CreateFeedFollow
<1>2. k.user \in Users /\ f \in Feeds
  BY <1>1 DEF Filing
<1>3. /\ subs[u] = [g \in DOMAIN subs[u] |-> subs[u][g]]
      /\ subs \in [Users -> Follows(listed)]
  BY ViewIs, FollowsAre
<1>4. /\ posts' = posts /\ read' = read /\ saved' = saved
      /\ subs' = [subs EXCEPT ![k.user] =
                     [g \in DOMAIN subs[k.user] \cup {f} |->
                         IF g \in DOMAIN subs[k.user] THEN subs[k.user][g] ELSE NoFolder]]
  BY DEF CreateFeedFollow
<1> HIDE DEF k, f
<1>5. CASE k.user # u
  <2>1. subs'[u] = subs[u]
    BY <1>3, <1>4, <1>5
  <2>2. QED
    BY <1>4, <2>1, ViewStands
<1>6. CASE k.user = u /\ f \in DOMAIN subs[u]
  <2>1. DOMAIN subs[u] \cup {f} = DOMAIN subs[u]
    BY <1>6
  <2>2. subs'[u] = [g \in DOMAIN subs[u] |->
                       IF g \in DOMAIN subs[u] THEN subs[u][g] ELSE NoFolder]
    BY <1>2, <1>3, <1>4, <1>6, <2>1
  <2>3. subs'[u] = subs[u]
    BY <1>3, <2>2
  <2>4. QED
    BY <1>4, <2>3, ViewStands
<1>7. CASE k.user = u /\ f \notin DOMAIN subs[u]
  <2> DEFINE s == [g \in DOMAIN subs[u] \cup {f} |-> IF g = f THEN NoFolder ELSE subs[u][g]]
  <2>1. subs'[u] = s
    BY <1>2, <1>3, <1>4, <1>7
  <2>2. ShelfOf(u, l).subs = subs[u]
    BY DEF ShelfOf
  <2>3. ShelfOf(u, l)' = [ShelfOf(u, l) EXCEPT !.subs = s]
    <3> HIDE DEF s
    <3>1. QED
      BY <1>4, <2>1 DEF ShelfOf
  <2>4. ShelfOf(u, l)' = [ShelfOf(u, l) EXCEPT !.subs =
                          [g \in DOMAIN @ \cup {f} |-> IF g = f THEN NoFolder ELSE @[g]]]
    BY <2>2, <2>3
  <2>5. f \in Feeds \ DOMAIN ShelfOf(u, l).subs
    BY <1>2, <1>7, <2>2
  <2>6. Moved(ShelfOf(u, l), ShelfOf(u, l)')
    BY <2>4, <2>5 DEF Moved
  <2>7. QED
    BY <2>6, ViewMoves
<1>8. QED
  BY <1>5, <1>6, <1>7

LEMMA FileMoves ==
  ASSUME Inv, NEW c \in Calls, NEW u \in Users, NEW l \in PostOrders, SetFeedFollowCategory(c)
  PROVE  SeesMove(u, l)
<1> DEFINE k == call[c]
<1>1. k \in Filing
  BY InvParts, Kinds DEF SetFeedFollowCategory
<1>2. k.user \in Users /\ k.feed \in Feeds /\ k.folder \in Folders
  BY <1>1 DEF Filing
<1>3. subs \in [Users -> Follows(listed)]
  BY ViewIs
<1>4. /\ posts' = posts /\ read' = read /\ saved' = saved
      /\ subs' = [subs EXCEPT ![k.user] =
                     [g \in DOMAIN subs[k.user] |->
                         IF g = k.feed THEN k.folder ELSE subs[k.user][g]]]
  BY DEF SetFeedFollowCategory
<1> HIDE DEF k
<1>5. CASE k.user # u
  <2>1. subs'[u] = subs[u]
    BY <1>3, <1>4, <1>5
  <2>2. QED
    BY <1>4, <2>1, ViewStands
<1>6. CASE k.user = u
  <2> DEFINE d == [op |-> "categorize", feed |-> k.feed, folder |-> k.folder]
  <2>1. d \in Change /\ d.op = "categorize" /\ d.feed = k.feed /\ d.folder = k.folder
    BY <1>2 DEF Change
  <2>2. subs'[u] = FileUnder(subs[u], k.feed, k.folder)
    BY <1>2, <1>3, <1>4, <1>6 DEF FileUnder
  <2> HIDE DEF d
  <2>3. ShelfOf(u, l)' = Carried(d, ShelfOf(u, l))
    <3>1. ShelfOf(u, l).subs = subs[u]
      BY DEF ShelfOf
    <3>2. Carried(d, ShelfOf(u, l)) =
            [ShelfOf(u, l) EXCEPT !.subs = FileUnder(subs[u], k.feed, k.folder)]
      BY <2>1, <3>1 DEF Carried
    <3>3. QED
      BY <1>4, <2>2, <3>2 DEF ShelfOf
  <2>4. QED
    BY <2>1, <2>3, ViewChanges
<1>7. QED
  BY <1>5, <1>6

LEMMA ServerMoves ==
  ASSUME Inv, NEW u \in Users, NEW l \in PostOrders,
         \/ \E p \in AllPosts : CreatePost(p)
         \/ \E ps \in SUBSET AllPosts : PrunePosts(ps)
  PROVE  SeesMove(u, l)
<1>1. CASE \E p \in AllPosts : CreatePost(p)
  <2>1. PICK p \in AllPosts : CreatePost(p)
    BY <1>1
  <2>2. posts' = posts \cup {p} /\ UNCHANGED <<subs, read, saved>>
    BY <2>1 DEF CreatePost
  <2>3. CASE p \in posts
    <3>1. posts' = posts
      BY <2>2, <2>3
    <3>2. QED
      BY <2>2, <3>1, ViewStands
  <2>4. CASE p \notin posts
    <3>1. ShelfOf(u, l).posts = posts
      BY DEF ShelfOf
    <3>2. ShelfOf(u, l)' = [ShelfOf(u, l) EXCEPT !.posts = posts \cup {p}]
      BY <2>2 DEF ShelfOf
    <3>3. Moved(ShelfOf(u, l), ShelfOf(u, l)')
      BY <2>4, <3>1, <3>2 DEF Moved
    <3>4. QED
      BY <3>3, ViewMoves
  <2>5. QED
    BY <2>3, <2>4
<1>2. CASE \E ps \in SUBSET AllPosts : PrunePosts(ps)
  <2>1. PICK ps \in SUBSET AllPosts : PrunePosts(ps)
    BY <1>2
  <2>2. /\ ps \in SUBSET (posts \ saved[u])
        /\ posts' = posts \ ps /\ read'[u] = read[u] \ ps
        /\ UNCHANGED <<subs, saved>>
    BY <2>1 DEF PrunePosts
  <2>3. ShelfOf(u, l).posts = posts /\ ShelfOf(u, l).saved = saved[u] /\ ShelfOf(u, l).read = read[u]
    BY DEF ShelfOf
  <2>4. ShelfOf(u, l)' = [ShelfOf(u, l) EXCEPT !.posts = posts \ ps, !.read = read[u] \ ps]
    <3> DEFINE kept == posts \ ps
               rs == read[u] \ ps
    <3>1. posts' = kept /\ read'[u] = rs /\ subs'[u] = subs[u] /\ saved'[u] = saved[u]
      BY <2>2
    <3> HIDE DEF kept, rs
    <3> DEFINE half == [ShelfOf(u, l) EXCEPT !.posts = kept]
    <3>2. half = [posts |-> kept, subs |-> subs[u], read |-> read[u], saved |-> saved[u],
                    after |-> l]
      BY DEF ShelfOf
    <3>3. [half EXCEPT !.read = rs] = [ShelfOf(u, l) EXCEPT !.posts = kept, !.read = rs]
      OBVIOUS
    <3> HIDE DEF half
    <3>4. ShelfOf(u, l)' = [half EXCEPT !.read = rs]
      BY <3>1, <3>2 DEF ShelfOf
    <3>5. QED
      BY <3>3, <3>4 DEF kept, rs
  <2>5. ShelfOf(u, l)' = [ShelfOf(u, l) EXCEPT !.posts = @ \ ps, !.read = @ \ ps]
    BY <2>3, <2>4
  <2>6. Moved(ShelfOf(u, l), ShelfOf(u, l)')
    BY <2>2, <2>3, <2>5 DEF Moved
  <2>7. QED
    BY <2>6, ViewMoves
<1>3. QED
  BY <1>1, <1>2

\* Whatever the accounts of a server and its aggregator do to the tables they
\* share, and however the statements of several requests interleave, one
\* account sees its shelf stay as it is or make one of the moves the offline
\* store is shown to cope with (Elsewhere in OfflineCache): the server there
\* is this one (internal/store/local), not a guess at it.  The tables here
\* hold no created_at of a bookmark, so this is said of every order of them.
THEOREM AccountsSeeMoves ==
  Spec => [][\A u \in Users, l \in PostOrders : SeesMove(u, l)]_vars
<1>1. Inv /\ [Next]_vars =>
        [\A u \in Users, l \in PostOrders : SeesMove(u, l)]_vars
  <2> SUFFICES ASSUME Inv, Next, NEW u \in Users, NEW l \in PostOrders
               PROVE  SeesMove(u, l)
    OBVIOUS
  <2>1. ASSUME UNCHANGED <<subs, posts, read, saved>>
        PROVE  SeesMove(u, l)
    BY <2>1, ViewStands
  <2>2. ASSUME NEW v \in Users, Request(v)
        PROVE  SeesMove(u, l)
    <3>1. CASE \/ \E p \in AllPosts : MarkPostRead(v, p)
               \/ \E p \in AllPosts : MarkPostUnread(v, p)
               \/ \E p \in AllPosts : CreateBookmark(v, p)
               \/ \E p \in AllPosts : DeleteBookmark(v, p)
               \/ \E ps \in SUBSET AllPosts : MarkPostsRead(v, ps)
      BY <3>1, MarkMoves
    <3>2. CASE \E f \in Feeds : DeleteFeedFollow(v, f)
      BY <3>2, UnfollowMoves
    <3>3. CASE \E c \in Calls :
                  \/ \E f \in Feeds, folder \in Folders :
                        AddFeed(c, v, f, folder) \/ Categorize(c, v, f, folder)
                  \/ \E f \in Feeds : FollowURL(c, v, f)
                  \/ \E p \in AllPosts : FullText(c, v, p)
      BY <2>1, <3>3 DEF AddFeed, Categorize, FollowURL, FullText, Begin, tables
    <3>4. CASE \E c \in Calls : Continue(c)
      <4>1. PICK c \in Calls : Continue(c)
        BY <3>4
      <4>2. CASE CreateFeedFollow(c)
        BY <4>2, FollowMoves
      <4>3. CASE SetFeedFollowCategory(c)
        BY <4>3, FileMoves
      <4>4. CASE \/ CreateFeed(c) \/ CheckFollows(c) \/ StatementFails(c)
                 \/ SetPostFullText(c) \/ Answer(c)
        BY <2>1, <4>4
           DEF CreateFeed, CheckFollows, StatementFails, SetPostFullText, Answer,
               tables
      <4>5. QED
        BY <4>1, <4>2, <4>3, <4>4 DEF Continue
    <3>5. QED
      BY <2>2, <3>1, <3>2, <3>3, <3>4 DEF Request
  <2>3. QED
    BY <2>2, ServerMoves DEF Next
<1>2. QED
  BY <1>1, InvHolds, PTL DEF Spec

=============================================================================
