-------------------------- MODULE ReaderMarksProofs --------------------------
(***************************************************************************)
(* Theorems about what the reader shows of posts, for any posts, any       *)
(* number of keys and any number of commands in flight.                    *)
(*                                                                         *)
(* The argument never counts commands.  A post whose commands did not      *)
(* cross has, in flight, only writes that say what its last key wanted;    *)
(* so where the store or the reader differs from that, the write or the    *)
(* load that will mend it is still under way.                              *)
(***************************************************************************)
EXTENDS ReaderMarks, FiniteSetTheorems, TLAPS

Kinds == {"read", "save"}
Shown(kind)  == IF kind = "read" THEN reads ELSE saved
LoadOf(kind) == IF kind = "read" THEN "reads" ELSE "saves"

\* A write of this mark of this post.
About(c, kind, p) == c.op \in Writes /\ Field(c) = kind /\ p \in c.posts

Loading(op) == \E c \in InFlight : c.op = op

Types ==
    /\ stored \in [read : SUBSET Posts, save : SUBSET Posts, text : SUBSET Posts]
    /\ reads \subseteq Posts /\ saved \subseteq Posts /\ unread \in Nat
    /\ open \in Posts \cup {NoPost}
    /\ listed \subseteq Posts
    /\ shown \in BOOLEAN /\ fetchingText \in BOOLEAN
    /\ IsABag(asked) /\ IsABag(answers)
    /\ wanted \in Marks
    /\ crossed \subseteq Posts /\ lost \subseteq Posts \cup {NoPost}
    /\ BagToSet(asked) \subseteq Commands
    /\ BagToSet(answers) \subseteq
          [cmd : Commands, ok : BOOLEAN, ids : SUBSET Posts, n : Nat]

\* What commands and answers say of themselves.
Honest ==
    /\ \A c \in InFlight : c.op \in Writes => c.posts # {}
    /\ \A a \in BagToSet(answers) :
          /\ a.ok /\ a.cmd.op \notin Loads \cup {"list"} => a.ids = a.cmd.posts
          /\ ~a.ok => IF a.cmd.op \in Loads THEN NoPost \in lost
                      ELSE a.cmd.posts \subseteq lost

TextInv ==
    /\ texts \subseteq stored.text
    /\ shown => open \in stored.text
    /\ \A a \in BagToSet(answers) :
          a.cmd.op \in {"text", "list"} => a.ids \subseteq stored.text

\* One mark of one post follows what the user wants of it.
Follows(kind, p) ==
    /\ \A c \in InFlight : About(c, kind, p) => c.on = (p \in wanted[kind])
    /\ \/ (p \in stored[kind]) = (p \in wanted[kind])
       \/ \E c \in BagToSet(asked) : About(c, kind, p)
    /\ Loading(LoadOf(kind)) => /\ p \in Shown(kind) => p \in wanted[kind]
                                /\ \A c \in InFlight : ~About(c, kind, p)
    /\ \A a \in BagToSet(answers) :
          a.ok /\ a.cmd.op = LoadOf(kind) => (p \in a.ids) = (p \in wanted[kind])
    /\ \/ Loading(LoadOf(kind))
       \/ (p \in Shown(kind)) = (p \in wanted[kind])
       \/ kind = "save" /\ \E c \in InFlight : About(c, kind, p)

MarksInv ==
    NoPost \notin lost =>
        \A p \in Posts \ (crossed \cup lost), kind \in Kinds : Follows(kind, p)

Unread == Cardinality(Posts \ wanted.read)

CountInv ==
    crossed = {} /\ lost = {} =>
        /\ Loading("counts") => \A c \in InFlight : c.op \notin Writes
        /\ Loading("counts") \/ unread = Unread
        /\ \A a \in BagToSet(answers) : a.ok /\ a.cmd.op = "counts" => a.n = Unread

-----------------------------------------------------------------------------
(* Bags, as sets *)

LEMMA BagGains ==
  ASSUME NEW B, IsABag(B), NEW e
  PROVE  /\ IsABag(B (+) SetToBag({e}))
         /\ BagToSet(B (+) SetToBag({e})) = BagToSet(B) \cup {e}
  BY DEF IsABag, BagToSet, SetToBag, (+)

LEMMA BagLoses ==
  ASSUME NEW B, IsABag(B), NEW e
  PROVE  /\ IsABag(B (-) SetToBag({e}))
         /\ BagToSet(B (-) SetToBag({e})) \subseteq BagToSet(B)
         /\ BagToSet(B) \ {e} \subseteq BagToSet(B (-) SetToBag({e}))
  BY DEF IsABag, BagToSet, SetToBag, (-)

LEMMA EmptyIsEmpty ==
  /\ IsABag(EmptyBag) /\ BagToSet(EmptyBag) = {}
  /\ \A S : IsABag(SetToBag(S)) /\ BagToSet(SetToBag(S)) = S
  BY DEF IsABag, BagToSet, SetToBag, EmptyBag

LEMMA AskAdds ==
  ASSUME Types, NEW c, Ask(c), answers' = answers
  PROVE  /\ IsABag(asked') /\ BagToSet(asked') = BagToSet(asked) \cup {c}
         /\ InFlight' = InFlight \cup {c}
<1>1. IsABag(asked') /\ BagToSet(asked') = BagToSet(asked) \cup {c}
  BY BagGains DEF Types, Ask
<1>2. QED
  BY <1>1 DEF InFlight

LEMMA LeaveMoves ==
  ASSUME Types, NEW c \in BagToSet(asked), NEW a, a.cmd = c, Leave(c, a)
  PROVE  /\ IsABag(asked') /\ IsABag(answers')
         /\ BagToSet(asked') \subseteq BagToSet(asked)
         /\ BagToSet(asked) \ {c} \subseteq BagToSet(asked')
         /\ BagToSet(answers') = BagToSet(answers) \cup {a}
         /\ InFlight' = InFlight
<1>1. /\ IsABag(asked') /\ IsABag(answers')
      /\ BagToSet(asked') \subseteq BagToSet(asked)
      /\ BagToSet(asked) \ {c} \subseteq BagToSet(asked')
      /\ BagToSet(answers') = BagToSet(answers) \cup {a}
  BY BagGains, BagLoses DEF Types, Leave
<1>2. {b.cmd : b \in BagToSet(answers')} = {b.cmd : b \in BagToSet(answers)} \cup {c}
  BY <1>1
<1>3. InFlight' = BagToSet(asked') \cup {b.cmd : b \in BagToSet(answers)} \cup {c}
  BY <1>2 DEF InFlight
<1>4. QED
  BY <1>1, <1>3 DEF InFlight

LEMMA HandledTakes ==
  ASSUME Types, NEW a, Handled(a)
  PROVE  /\ IsABag(answers')
         /\ BagToSet(answers') \subseteq BagToSet(answers)
         /\ BagToSet(answers) \ {a} \subseteq BagToSet(answers')
         /\ InFlight' \subseteq InFlight
         /\ InFlight \ {a.cmd} \subseteq InFlight'
         /\ a.cmd \in InFlight
<1>1. /\ IsABag(answers')
      /\ BagToSet(answers') \subseteq BagToSet(answers)
      /\ BagToSet(answers) \ {a} \subseteq BagToSet(answers')
  BY BagLoses DEF Types, Handled
<1>2. QED
  BY <1>1 DEF InFlight, Handled

-----------------------------------------------------------------------------
(* Types *)

LEMMA CommandIs ==
  ASSUME NEW c \in Commands
  PROVE  /\ c.op \in Loads \cup Writes \cup {"text", "list"}
         /\ c.posts \subseteq Posts /\ c.on \in BOOLEAN
         /\ c.op \in Loads \cup {"list"} => c.posts = {}
         /\ c.op = "text" => c.on = TRUE
  BY DEF Commands, Loads, Writes

LEMMA WriteIs ==
  ASSUME NEW op \in Writes, NEW ps \in SUBSET Posts, NEW on \in BOOLEAN
  PROVE  /\ Write(op, ps, on) \in Commands
         /\ Write(op, ps, on).op = op /\ Write(op, ps, on).posts = ps
         /\ Write(op, ps, on).on = on
  BY DEF Commands, Write

LEMMA FieldIs ==
  ASSUME NEW c \in Commands, c.op \notin Loads \cup {"list"}
  PROVE  /\ Field(c) \in {"read", "save", "text"}
         /\ Field(c) = "text" <=> c.op = "text"
         /\ Field(c) \in Kinds <=> c.op \in Writes
  BY CommandIs DEF Field, Loads, Writes, Kinds

(* What a key that writes a mark does, whichever key it is. *)
Marked(kind, ps, on, c) ==
    /\ kind \in Kinds /\ ps \subseteq Posts /\ ps # {} /\ on \in BOOLEAN
    /\ c \in Commands /\ c.op \in Writes /\ Field(c) = kind
    /\ c.posts = ps /\ c.on = on
    /\ Ask(c) /\ Want(kind, ps, on)
    /\ UNCHANGED <<stored, saved, answers, lost, listed, texts>>
    /\ reads' = IF kind = "save" THEN reads
                ELSE IF on THEN reads \cup ps ELSE reads \ ps

(* A key, as far as the marks go: it writes one, it asks for something     *)
(* else, or it changes what is on the screen.                              *)
Asked(c) ==
    /\ c \in Commands /\ c.op \in {"text", "list", "counts"} /\ c.op \notin Writes
    /\ Ask(c)
    /\ UNCHANGED <<stored, saved, answers, lost, listed, texts, reads, unread, wanted>>
    /\ \/ c.op \in {"text", "list"} /\ UNCHANGED crossed
       \/ /\ c.op = "counts"
          /\ crossed' = crossed \cup UNION {d.posts : d \in InFlight}

Looked == UNCHANGED <<stored, saved, answers, lost, listed, texts, reads, unread, wanted,
                      asked, crossed>>

LEMMA OpenIs ==
  ASSUME Types, NEW p \in Posts, OpenPost(p)
  PROVE  Looked \/ Marked("read", {p}, TRUE, Write("read", {p}, TRUE))
<1>1. CASE p \in reads
  BY <1>1 DEF OpenPost, Key, ApplyRead, Counted, Looked
<1>2. CASE p \notin reads
  <2>1. reads' = reads \cup {p}
    BY <1>2 DEF OpenPost, ApplyRead, Counted
  <2>2. Field(Write("read", {p}, TRUE)) = "read"
    BY DEF Field, Write
  <2>3. Ask(Write("read", {p}, TRUE)) /\ Want("read", {p}, TRUE)
        /\ UNCHANGED <<stored, saved, answers, lost, listed, texts>>
    BY <1>2 DEF OpenPost, Key
  <2>4. "read" \in Writes /\ {p} \in SUBSET Posts
    BY DEF Writes
  <2>5. QED
    BY <2>1, <2>2, <2>3, <2>4, WriteIs DEF Marked, Kinds
<1>3. QED
  BY <1>1, <1>2

LEMMA ToggleReadIs ==
  ASSUME Types, NEW p \in Posts, ToggleRead(p)
  PROVE  Marked("read", {p}, p \notin reads, Write("read", {p}, p \notin reads))
<1> DEFINE on == p \notin reads
<1>1. reads' = IF on THEN reads \cup {p} ELSE reads \ {p}
  BY DEF ToggleRead, ApplyRead, Counted
<1>2. on \in BOOLEAN
  OBVIOUS
<1> HIDE DEF on
<1>3. Field(Write("read", {p}, on)) = "read"
  BY DEF Field, Write
<1>4. Ask(Write("read", {p}, on)) /\ Want("read", {p}, on)
  BY DEF ToggleRead, on
<1>5. Marked("read", {p}, on, Write("read", {p}, on))
  BY <1>1, <1>2, <1>3, <1>4, WriteIs DEF ToggleRead, Key, Marked, Kinds, Writes
<1>6. QED
  BY <1>5 DEF on

LEMMA MarkListReadIs ==
  ASSUME Types, MarkListRead
  PROVE  Marked("read", listed \ reads, TRUE, Write("readall", listed \ reads, TRUE))
<1> DEFINE ps == listed \ reads
<1>1. ps # {} /\ ps \in SUBSET Posts /\ reads' = reads \cup ps
  BY DEF Types, MarkListRead, ListMarked
<1>2. Ask(Write("readall", ps, TRUE)) /\ Want("read", ps, TRUE)
  BY DEF MarkListRead, ListMarked
<1> HIDE DEF ps
<1>3. Field(Write("readall", ps, TRUE)) = "read"
  BY DEF Field, Write
<1>4. Marked("read", ps, TRUE, Write("readall", ps, TRUE))
  BY <1>1, <1>2, <1>3, WriteIs DEF MarkListRead, ListMarked, Key, Marked, Kinds, Writes
<1>5. QED
  BY <1>4 DEF ps

LEMMA ToggleBookmarkIs ==
  ASSUME Types, NEW p \in Posts, ToggleBookmark(p)
  PROVE  /\ Marked("save", {p}, p \notin saved, Write("save", {p}, p \notin saved))
         /\ unread' = unread
<1> DEFINE on == p \notin saved
<1>1. on \in BOOLEAN
  OBVIOUS
<1>2. Ask(Write("save", {p}, on)) /\ Want("save", {p}, on)
  BY DEF ToggleBookmark
<1> HIDE DEF on
<1>3. Field(Write("save", {p}, on)) = "save"
  BY DEF Field, Write
<1>4. Marked("save", {p}, on, Write("save", {p}, on))
  BY <1>1, <1>2, <1>3, WriteIs DEF ToggleBookmark, Key, Marked, Kinds, Writes
<1>5. QED
  BY <1>4 DEF on, ToggleBookmark

LEMMA LoadFullTextIs ==
  ASSUME Types, LoadFullText
  PROVE  Asked(Write("text", {open}, TRUE))
<1>1. Write("text", {open}, TRUE) \in Commands
  <2>1. open \in Posts
    BY DEF Types, LoadFullText
  <2>2. QED
    BY <2>1 DEF Commands, Write
<1>2. Write("text", {open}, TRUE).op = "text"
  BY DEF Write
<1>3. QED
  BY <1>1, <1>2 DEF LoadFullText, Key, Asked, Writes

LEMMA ReloadFeedsIs ==
  ASSUME ReloadFeeds
  PROVE  Asked(Load("counts"))
<1>1. Load("counts") \in Commands /\ Load("counts").op = "counts"
  BY DEF Commands, Loads, Load
<1>2. QED
  BY <1>1 DEF ReloadFeeds, Key, Asked, Writes

LEMMA ReloadListIs ==
  ASSUME ReloadList
  PROVE  Asked(Load("list"))
<1>1. Load("list") \in Commands /\ Load("list").op = "list"
  BY DEF Commands, Load
<1>2. QED
  BY <1>1 DEF ReloadList, Key, Asked, Writes

LEMMA KeyIs ==
  ASSUME Types, Press
  PROVE  \/ Looked
         \/ \E c : Asked(c)
         \/ \E kind, ps, on, c : Marked(kind, ps, on, c)
<1>1. CASE Back
  BY <1>1 DEF Back, Key, Looked
<1>2. QED
  BY <1>1, OpenIs, ToggleReadIs, MarkListReadIs, ToggleBookmarkIs, LoadFullTextIs,
     ReloadFeedsIs, ReloadListIs DEF Press

Good == Types /\ Honest /\ TextInv

LEMMA CountsAreNumbers ==
  ASSUME NEW S \in SUBSET Posts
  PROVE  Cardinality(S) \in Nat /\ IsFiniteSet(S)
  BY FS_Subset, FS_CardinalityType, ReaderMarksAssumption

LEMMA CountedTypes ==
  ASSUME Types, NEW p \in Posts, NEW on \in BOOLEAN, ApplyRead(p, on)
  PROVE  reads' \subseteq Posts /\ unread' \in Nat
<1>1. CASE (p \in reads) = on
  BY <1>1 DEF ApplyRead, Counted, Types
<1>2. CASE (p \in reads) # on
  BY <1>2 DEF ApplyRead, Counted, Types
<1>3. QED
  BY <1>1, <1>2

LEMMA PressGood ==
  ASSUME Good, Press
  PROVE  Good'
<1>1. Types /\ Honest /\ TextInv
  BY DEF Good
<1>2. reads' \subseteq Posts /\ unread' \in Nat
  <2>1. CASE Back \/ LoadFullText \/ ReloadFeeds \/ ReloadList
    BY <1>1, <2>1 DEF Types, Back, LoadFullText, ReloadFeeds, ReloadList
  <2>2. CASE MarkListRead
    <3>1. Cardinality(listed \ reads) \in Nat
      BY <1>1, CountsAreNumbers DEF Types
    <3>2. QED
      BY <1>1, <2>2, <3>1 DEF Types, MarkListRead, ListMarked
  <2>3. ASSUME NEW p \in Posts, OpenPost(p) \/ ToggleRead(p)
        PROVE  reads' \subseteq Posts /\ unread' \in Nat
    <3>1. PICK on \in BOOLEAN : ApplyRead(p, on)
      BY <2>3 DEF OpenPost, ToggleRead
    <3>2. QED
      BY <1>1, <3>1, CountedTypes
  <2>4. ASSUME NEW p \in Posts, ToggleBookmark(p)
        PROVE  reads' \subseteq Posts /\ unread' \in Nat
    BY <1>1, <2>4 DEF Types, ToggleBookmark
  <2>5. QED
    BY <2>1, <2>2, <2>3, <2>4 DEF Press
<1>3. /\ open' \in Posts \cup {NoPost} /\ shown' \in BOOLEAN
      /\ fetchingText' \in BOOLEAN
      /\ shown' => open' \in stored.text
  <2>1. open \in Posts \cup {NoPost} /\ shown \in BOOLEAN /\ fetchingText \in BOOLEAN
        /\ (shown => open \in stored.text) /\ texts \subseteq stored.text
    BY <1>1 DEF Types, TextInv
  <2>2. CASE MarkListRead \/ ReloadFeeds \/ ReloadList \/ \E p \in Posts : ToggleRead(p) \/ ToggleBookmark(p)
    <3>1. UNCHANGED <<open, shown, fetchingText>>
      BY <2>2 DEF MarkListRead, ListMarked, ReloadFeeds, ReloadList, ToggleRead, ToggleBookmark
    <3>2. QED
      BY <2>1, <3>1
  <2>3. CASE LoadFullText
    <3>1. UNCHANGED <<open, shown>> /\ fetchingText' = TRUE
      BY <2>3 DEF LoadFullText
    <3>2. QED
      BY <2>1, <3>1
  <2>4. CASE Back
    <3>1. open' = NoPost /\ shown' = FALSE /\ UNCHANGED fetchingText
      BY <2>4 DEF Back
    <3>2. QED
      BY <2>1, <3>1
  <2>5. ASSUME NEW p \in Posts, OpenPost(p)
        PROVE  /\ open' \in Posts \cup {NoPost} /\ shown' \in BOOLEAN
               /\ fetchingText' \in BOOLEAN
               /\ shown' => open' \in stored.text
    <3>1. open' = p /\ shown' = (p \in texts) /\ UNCHANGED fetchingText
      BY <2>5 DEF OpenPost
    <3>2. CASE p \in texts
      <4>1. shown' = TRUE
        BY <3>1, <3>2
      <4>2. QED
        BY <2>1, <3>1, <3>2, <4>1
    <3>3. CASE p \notin texts
      <4>1. (p \in texts) = FALSE
        BY <3>3
      <4>2. shown' = FALSE
        BY <3>1, <4>1, Zenon
      <4>3. QED
        BY <2>1, <3>1, <4>2
    <3>4. QED
      BY <3>2, <3>3
  <2>6. QED
    BY <2>2, <2>3, <2>4, <2>5 DEF Press
<1>4. UNCHANGED <<stored, saved, answers, lost, listed, texts>>
  BY DEF Press, Key, Back, MarkListRead, ListMarked, LoadFullText, ReloadFeeds,
         ReloadList, OpenPost,
         ToggleRead, ToggleBookmark
<1>5. CASE Looked
  BY <1>1, <1>2, <1>3, <1>4, <1>5
     DEF Looked, Good, Types, Honest, TextInv, InFlight
<1>6. ASSUME NEW c, Asked(c)
      PROVE  Good'
  <2>1. /\ IsABag(asked') /\ BagToSet(asked') = BagToSet(asked) \cup {c}
        /\ InFlight' = InFlight \cup {c}
    BY <1>1, <1>6, AskAdds DEF Asked
  <2>2. \A d \in InFlight : d \in Commands
    BY <1>1 DEF InFlight, Types
  <2>3. crossed' \subseteq Posts
    <3>1. \A d \in InFlight : d.posts \subseteq Posts
      BY <2>2, CommandIs
    <3>2. QED
      BY <1>1, <1>6, <3>1 DEF Asked, Types
  <2>4. Types'
    BY <1>1, <1>2, <1>3, <1>4, <1>6, <2>1, <2>3 DEF Types, Asked
  <2>5. Honest'
    BY <1>1, <1>4, <1>6, <2>1 DEF Honest, Asked
  <2>6. QED
    BY <1>1, <1>3, <1>4, <2>4, <2>5 DEF Good, TextInv
<1>7. ASSUME NEW kind, NEW ps, NEW on, NEW c, Marked(kind, ps, on, c)
      PROVE  Good'
  <2>1. /\ IsABag(asked') /\ BagToSet(asked') = BagToSet(asked) \cup {c}
        /\ InFlight' = InFlight \cup {c}
    BY <1>1, <1>7, AskAdds DEF Marked
  <2>2. wanted' \in Marks /\ crossed' \subseteq Posts
    BY <1>1, <1>7 DEF Marked, Want, Kinds, Types, Marks
  <2>3. Types'
    BY <1>1, <1>2, <1>3, <1>4, <1>7, <2>1, <2>2 DEF Types, Marked
  <2>4. Honest'
    BY <1>1, <1>4, <1>7, <2>1 DEF Honest, Marked
  <2>5. QED
    BY <1>1, <1>3, <1>4, <2>3, <2>4 DEF Good, TextInv
<1>8. QED
  BY <1>1, <1>5, <1>6, <1>7, KeyIs

-----------------------------------------------------------------------------
(* What the store does with a command, whether it says so or not. *)
Done(c) ==
    /\ c.op \notin Loads \cup {"list"}
    /\ stored' = [stored EXCEPT ![Field(c)] = IF c.on THEN @ \cup c.posts ELSE @ \ c.posts]

(* What its answer says of it: the marks, the count, or the command back.  *)
Says(c, a) ==
    /\ a.cmd = c /\ a.ok \in BOOLEAN /\ a.ids \subseteq Posts /\ a.n \in Nat
    /\ a \in [cmd : Commands, ok : BOOLEAN, ids : SUBSET Posts, n : Nat]
    /\ a.ok => CASE c.op = "reads"  -> a.ids = stored.read
                 [] c.op = "saves"  -> a.ids = stored.save
                 [] c.op = "counts" -> a.n = Cardinality(Posts \ stored.read)
                 [] c.op = "list"   -> a.ids = stored.text
                 [] OTHER           -> a.ids = c.posts

LEMMA ServeIs ==
  ASSUME Types, NEW c \in BagToSet(asked), Carry(c) \/ Fail(c)
  PROVE  \E a : /\ Leave(c, a) /\ Says(c, a)
                /\ Done(c) \/ UNCHANGED stored
                /\ a.ok /\ c.op \notin Loads \cup {"list"} => Done(c)
                /\ a.ok => UNCHANGED lost
                /\ ~a.ok => /\ lost' = lost \cup IF c.op \in Loads THEN {NoPost}
                                                 ELSE c.posts
                            /\ a.ids = {}
<1>1. /\ c \in Commands /\ c.op \in Loads \cup Writes \cup {"text", "list"}
      /\ c.posts \subseteq Posts
  BY CommandIs DEF Types
<1>2. Cardinality(Posts \ stored.read) \in Nat
  BY CountsAreNumbers
<1>3. /\ stored.read \subseteq Posts /\ stored.save \subseteq Posts
      /\ stored.text \subseteq Posts
  BY DEF Types
<1>4. CASE Carry(c) /\ c.op = "reads"
  <2> WITNESS Reply(c, TRUE, stored.read, 0)
  <2>1. QED
    BY <1>1, <1>3, <1>4 DEF Carry, Reply, Says, Loads
<1>5. CASE Carry(c) /\ c.op = "saves"
  <2> WITNESS Reply(c, TRUE, stored.save, 0)
  <2>1. QED
    BY <1>1, <1>3, <1>5 DEF Carry, Reply, Says, Loads
<1>6. CASE Carry(c) /\ c.op = "counts"
  <2> WITNESS Reply(c, TRUE, {}, Cardinality(Posts \ stored.read))
  <2>1. QED
    BY <1>1, <1>2, <1>6 DEF Carry, Reply, Says, Loads
<1>6a. CASE Carry(c) /\ c.op = "list"
  <2> WITNESS Reply(c, TRUE, stored.text, 0)
  <2>1. QED
    BY <1>1, <1>3, <1>6a DEF Carry, Reply, Says, Loads
<1>7. CASE Carry(c) /\ c.op \notin Loads \cup {"list"}
  <2> WITNESS Reply(c, TRUE, c.posts, 0)
  <2>1. QED
    BY <1>1, <1>7 DEF Carry, Reply, Says, Loads, Done
<1>8. CASE Fail(c)
  <2> WITNESS Reply(c, FALSE, {}, 0)
  <2>1. QED
    BY <1>1, <1>8 DEF Fail, Reply, Says, Loads, Done
<1>9. QED
  BY <1>1, <1>4, <1>5, <1>6, <1>6a, <1>7, <1>8 DEF Loads

LEMMA DoneIs ==
  ASSUME Types, NEW c \in Commands, Done(c)
  PROVE  /\ stored' \in [read : SUBSET Posts, save : SUBSET Posts, text : SUBSET Posts]
         /\ \A kind \in Kinds : stored'[kind] =
               IF Field(c) # kind THEN stored[kind]
               ELSE IF c.on THEN stored[kind] \cup c.posts ELSE stored[kind] \ c.posts
         /\ stored'.text = IF c.op = "text" THEN stored.text \cup c.posts ELSE stored.text
<1>1. Field(c) \in {"read", "save", "text"} /\ (Field(c) = "text" <=> c.op = "text")
  BY FieldIs DEF Done
<1>2. c.posts \subseteq Posts /\ (c.op = "text" => c.on = TRUE)
  BY CommandIs
<1>3. QED
  BY <1>1, <1>2 DEF Done, Types, Kinds

LEMMA ServeGood ==
  ASSUME Good, Serve
  PROVE  Good'
<1>1. Types /\ Honest /\ TextInv
  BY DEF Good
<1>2. PICK c \in BagToSet(asked) : Carry(c) \/ Fail(c)
  BY DEF Serve
<1>3. PICK a : /\ Leave(c, a) /\ Says(c, a)
               /\ Done(c) \/ UNCHANGED stored
               /\ a.ok /\ c.op \notin Loads \cup {"list"} => Done(c)
               /\ a.ok => UNCHANGED lost
               /\ ~a.ok => /\ lost' = lost \cup IF c.op \in Loads THEN {NoPost}
                                                ELSE c.posts
                           /\ a.ids = {}
  BY <1>1, <1>2, ServeIs
<1>4. /\ IsABag(asked') /\ IsABag(answers')
      /\ BagToSet(asked') \subseteq BagToSet(asked)
      /\ BagToSet(answers') = BagToSet(answers) \cup {a}
      /\ InFlight' = InFlight
  BY <1>1, <1>3, LeaveMoves DEF Says
<1>5. /\ c \in Commands /\ c.posts \subseteq Posts
      /\ c.op \in Loads \cup Writes \cup {"text", "list"}
  BY <1>1, CommandIs DEF Types
<1>6. /\ stored' \in [read : SUBSET Posts, save : SUBSET Posts, text : SUBSET Posts]
      /\ stored.text \subseteq stored'.text
      /\ Done(c) /\ c.op = "text" => c.posts \subseteq stored'.text
  BY <1>1, <1>3, <1>5, DoneIs DEF Types
<1>7. lost' \subseteq Posts \cup {NoPost} /\ lost \subseteq lost'
  BY <1>1, <1>3, <1>5 DEF Types
<1>8. UNCHANGED <<reads, saved, unread, open, listed, texts, shown, fetchingText, wanted,
                  crossed>>
  BY <1>3 DEF Leave
<1>9. Types'
  BY <1>1, <1>3, <1>4, <1>6, <1>7, <1>8 DEF Types, Says
<1>10. Honest'
  <2>1. a.ok /\ c.op \notin Loads \cup {"list"} => a.ids = c.posts
    BY <1>3 DEF Says, Loads
  <2>2. a.cmd = c
    BY <1>3 DEF Says
  <2>3. QED
    BY <1>1, <1>3, <1>4, <1>7, <2>1, <2>2 DEF Honest
<1>11. TextInv'
  <2>1. a.cmd = c /\ (c.op \in {"text", "list"} => a.ids \subseteq stored'.text)
    BY <1>3, <1>6 DEF Says, Loads
  <2>2. QED
    BY <1>1, <1>4, <1>6, <1>8, <2>1 DEF TextInv
<1>12. QED
  BY <1>9, <1>10, <1>11 DEF Good

-----------------------------------------------------------------------------
(* What the reader makes of an answer: the marks it shows. *)
LEMMA AnswerIs ==
  ASSUME Good, NEW a \in BagToSet(answers),
         \/ ReadsLoaded(a) \/ BookmarksLoaded(a) \/ UnreadCounts(a) \/ ReadToggled(a)
         \/ AllRead(a) \/ BookmarkToggled(a) \/ FullTextLoaded(a) \/ ListLoaded(a) \/ Failed(a)
  PROVE  /\ Handled(a)
         /\ UNCHANGED <<stored, open, asked, wanted, crossed, lost>>
         /\ reads' \subseteq Posts /\ saved' \subseteq Posts /\ unread' \in Nat
         /\ listed' \subseteq Posts /\ texts' \subseteq stored.text
         /\ shown' \in BOOLEAN
         /\ shown' => open \in stored.text
         /\ fetchingText' \in BOOLEAN
<1>1. /\ Types /\ Honest /\ TextInv
      /\ a \in [cmd : Commands, ok : BOOLEAN, ids : SUBSET Posts, n : Nat]
  BY DEF Good, Types
<1>2. Handled(a) /\ UNCHANGED <<stored, open, asked, wanted, crossed, lost>>
  BY DEF ReadsLoaded, BookmarksLoaded, UnreadCounts, ReadToggled, AllRead,
         BookmarkToggled, FullTextLoaded, ListLoaded, Failed, Handled, history
<1>3. reads' \subseteq Posts /\ unread' \in Nat
  <2>1. CASE ReadToggled(a)
    <3>1. PICK p \in a.cmd.posts : ApplyRead(p, a.cmd.on)
      BY <2>1 DEF ReadToggled
    <3>2. p \in Posts /\ a.cmd.on \in BOOLEAN
      BY <1>1, <3>1, CommandIs
    <3>3. QED
      BY <1>1, <3>1, <3>2, CountedTypes
  <2>2. CASE ~ReadToggled(a)
    BY <1>1, <2>2 DEF ReadsLoaded, BookmarksLoaded, UnreadCounts, AllRead,
                      BookmarkToggled, FullTextLoaded, ListLoaded, Failed, Types
  <2>3. QED
    BY <2>1, <2>2
<1>4. /\ saved' \subseteq Posts
      /\ listed' \subseteq Posts /\ texts' \subseteq stored.text
      /\ shown' \in BOOLEAN
      /\ shown' => open \in stored.text
      /\ fetchingText' \in BOOLEAN
  <2>1. CASE FullTextLoaded(a)
    <3>1. a.ids \subseteq stored.text
      BY <1>1, <2>1 DEF TextInv, FullTextLoaded
    <3>2. QED
      BY <1>1, <2>1, <3>1 DEF FullTextLoaded, Types, TextInv
  <2>2. CASE BookmarksLoaded(a) \/ BookmarkToggled(a)
    BY <1>1, <2>2 DEF BookmarksLoaded, BookmarkToggled, Types, TextInv
  <2>3. CASE ReadsLoaded(a) \/ UnreadCounts(a) \/ ReadToggled(a) \/ AllRead(a) \/ Failed(a)
    <3>1. UNCHANGED <<saved, listed, texts, shown>> /\ (fetchingText' = FALSE \/ UNCHANGED fetchingText)
      BY <2>3 DEF ReadsLoaded, UnreadCounts, ReadToggled, AllRead, Failed
    <3>2. QED
      BY <1>1, <3>1 DEF Types, TextInv
  <2>4. CASE ListLoaded(a)
    <3>1. a.ids \subseteq stored.text
      BY <1>1, <2>4 DEF TextInv, ListLoaded
    <3>2. QED
      BY <1>1, <2>4, <3>1 DEF ListLoaded, Types, TextInv
  <2>5. QED
    BY <2>1, <2>2, <2>3, <2>4
<1>5. QED
  BY <1>2, <1>3, <1>4

LEMMA AnswerGood ==
  ASSUME Good, Answer
  PROVE  Good'
<1>1. PICK a \in BagToSet(answers) :
        \/ ReadsLoaded(a) \/ BookmarksLoaded(a) \/ UnreadCounts(a) \/ ReadToggled(a)
        \/ AllRead(a) \/ BookmarkToggled(a) \/ FullTextLoaded(a) \/ ListLoaded(a) \/ Failed(a)
  BY DEF Answer
<1>2. /\ Handled(a)
      /\ UNCHANGED <<stored, open, asked, wanted, crossed, lost>>
      /\ reads' \subseteq Posts /\ saved' \subseteq Posts /\ unread' \in Nat
      /\ listed' \subseteq Posts /\ texts' \subseteq stored.text
      /\ shown' \in BOOLEAN
      /\ shown' => open \in stored.text
      /\ fetchingText' \in BOOLEAN
  BY <1>1, AnswerIs
<1>3. /\ IsABag(answers') /\ BagToSet(answers') \subseteq BagToSet(answers)
      /\ InFlight' \subseteq InFlight
  BY <1>2, HandledTakes DEF Good
<1>4. Types' /\ Honest' /\ TextInv'
  BY <1>2, <1>3 DEF Good, Types, Honest, TextInv
<1>5. QED
  BY <1>4 DEF Good

LEMMA GoodInductive == Good /\ [Next]_vars => Good'
<1>1. ASSUME Good, UNCHANGED vars
      PROVE  Good'
  BY <1>1 DEF vars, Good, Types, Honest, TextInv, InFlight
<1>2. QED
  BY <1>1, PressGood, ServeGood, AnswerGood DEF Next

LEMMA InitGood ==
  ASSUME Init
  PROVE  /\ Good
         /\ BagToSet(asked) = {Load("reads"), Load("saves"), Load("counts")}
         /\ BagToSet(answers) = {} /\ InFlight = BagToSet(asked)
<1>1. /\ IsABag(asked) /\ IsABag(answers) /\ BagToSet(answers) = {}
      /\ BagToSet(asked) = {Load("reads"), Load("saves"), Load("counts")}
  BY EmptyIsEmpty DEF Init
<1>2. InFlight = BagToSet(asked)
  BY <1>1 DEF InFlight
<1>3. BagToSet(asked) \subseteq Commands /\ \A c \in BagToSet(asked) : c.op \in Loads
  BY <1>1 DEF Commands, Loads, Load
<1>4. Types
  BY <1>1, <1>3 DEF Init, Types, Marks
<1>5. Honest
  BY <1>1, <1>2, <1>3 DEF Honest, Loads, Writes
<1>6. TextInv
  BY <1>1, <1>4 DEF Init, TextInv
<1>7. QED
  BY <1>1, <1>2, <1>4, <1>5, <1>6 DEF Good

-----------------------------------------------------------------------------
(* Marks *)

LEMMA LoadIsNoWrite ==
  ASSUME NEW kind \in Kinds
  PROVE  LoadOf(kind) \in Loads /\ LoadOf(kind) \notin Writes
         /\ LoadOf(kind) # "counts" /\ LoadOf(kind) # "text"
  BY DEF Kinds, LoadOf, Loads, Writes

(* A command that does not matter to this mark of this post is asked for.  *)
LEMMA FollowsBeside ==
  ASSUME Types, NEW kind \in Kinds, NEW p \in Posts, Follows(kind, p),
         NEW c, Ask(c), UNCHANGED <<answers, stored>>,
         c.op # LoadOf(kind), ~About(c, kind, p),
         (p \in Shown(kind)') = (p \in Shown(kind)),
         (p \in wanted'[kind]) = (p \in wanted[kind])
  PROVE  Follows(kind, p)'
<1>1. BagToSet(asked') = BagToSet(asked) \cup {c} /\ InFlight' = InFlight \cup {c}
  BY AskAdds
<1>2. Loading(LoadOf(kind))' <=> Loading(LoadOf(kind))
  BY <1>1 DEF Loading, LoadOf
<1>3. \A d : About(d, kind, p)' <=> About(d, kind, p)
  BY DEF About, Field
<1>4. QED
  BY <1>1, <1>2, <1>3 DEF Follows, About, LoadOf

LEMMA MarkedKeepsMarks ==
  ASSUME Good, MarksInv, NEW kind, NEW ps, NEW on, NEW c, Marked(kind, ps, on, c)
  PROVE  MarksInv'
<1> SUFFICES ASSUME NoPost \notin lost',
                    NEW p \in Posts, p \notin crossed' \cup lost',
                    NEW k \in Kinds
             PROVE  Follows(k, p)'
  BY DEF MarksInv
<1>1. Types /\ UNCHANGED <<lost, answers, stored>> /\ crossed \subseteq crossed'
  BY DEF Good, Marked, Want
<1>2. Follows(k, p)
  BY <1>1 DEF MarksInv
<1>3. /\ kind \in Kinds /\ on \in BOOLEAN /\ c.op \in Writes /\ Field(c) = kind
      /\ c.posts = ps /\ c.on = on /\ Ask(c)
  BY DEF Marked
<1>4. c.op # LoadOf(k)
  BY <1>3, LoadIsNoWrite
<1>5. wanted'[kind] = (IF on THEN wanted[kind] \cup ps ELSE wanted[kind] \ ps)
      /\ \A j \in Kinds : j # kind => wanted'[j] = wanted[j]
  BY <1>1, <1>3 DEF Marked, Want, Types, Marks, Kinds
<1>6. CASE k # kind \/ p \notin ps
  <2>1. ~About(c, k, p)
    BY <1>3, <1>6 DEF About
  <2>2. (p \in wanted'[k]) = (p \in wanted[k])
    BY <1>3, <1>5, <1>6
  <2>3. (p \in Shown(k)') = (p \in Shown(k))
    <3>1. CASE k = "read"
      BY <1>3, <1>6, <3>1 DEF Marked, Shown, Kinds
    <3>2. CASE k = "save"
      BY <3>2 DEF Marked, Shown
    <3>3. QED
      BY <3>1, <3>2 DEF Kinds
  <2>4. QED
    BY <1>1, <1>2, <1>3, <1>4, <2>1, <2>2, <2>3, FollowsBeside
<1>7. CASE k = kind /\ p \in ps
  <2>1. ~Busy(p)
    BY <1>7 DEF Marked, Want
  <2>2. \A d \in InFlight : d.op \notin Loads /\ ~About(d, k, p)
    BY <2>1 DEF Busy, About
  <2>3. BagToSet(asked') = BagToSet(asked) \cup {c} /\ InFlight' = InFlight \cup {c}
    BY <1>1, <1>3, AskAdds
  <2>4. ~Loading(LoadOf(k))'
    BY <1>3, <1>4, <2>2, <2>3, LoadIsNoWrite DEF Loading, LoadOf
  <2>5. (p \in wanted'[k]) = on
    BY <1>3, <1>5, <1>7
  <2>6. About(c, k, p)
    BY <1>3, <1>7 DEF About
  <2>7. \A d \in InFlight' : About(d, k, p) => d.on = (p \in wanted'[k])
    BY <1>3, <2>2, <2>3, <2>5
  <2>8. \A a \in BagToSet(answers) : a.cmd.op # LoadOf(k)
    BY <2>2, LoadIsNoWrite DEF InFlight
  <2>9. k = "read" => (p \in Shown(k)') = on
    BY <1>3, <1>7 DEF Marked, Shown
  <2>10. \E d \in BagToSet(asked') : About(d, k, p)
    BY <2>3, <2>6
  <2>11. \E d \in InFlight' : About(d, k, p)
    BY <2>3, <2>6
  <2>12. \A d : About(d, k, p)' <=> About(d, k, p)
    BY DEF About, Field
  <2>13. \/ (p \in Shown(k)') = (p \in wanted'[k])
         \/ k = "save" /\ \E d \in InFlight' : About(d, k, p)
    BY <2>5, <2>9, <2>11 DEF Kinds
  <2>14. QED
    BY <1>1, <2>4, <2>7, <2>8, <2>10, <2>12, <2>13 DEF Follows, LoadOf
<1>8. QED
  BY <1>6, <1>7

LEMMA ServeKeepsMarks ==
  ASSUME Good, MarksInv, Serve
  PROVE  MarksInv'
<1>1. Types
  BY DEF Good
<1>2. PICK c \in BagToSet(asked) : Carry(c) \/ Fail(c)
  BY DEF Serve
<1>3. PICK a : /\ Leave(c, a) /\ Says(c, a)
               /\ Done(c) \/ UNCHANGED stored
               /\ a.ok /\ c.op \notin Loads \cup {"list"} => Done(c)
               /\ a.ok => UNCHANGED lost
               /\ ~a.ok => /\ lost' = lost \cup IF c.op \in Loads THEN {NoPost}
                                                ELSE c.posts
                           /\ a.ids = {}
  BY <1>1, <1>2, ServeIs
<1> SUFFICES ASSUME NoPost \notin lost',
                    NEW p \in Posts, p \notin crossed' \cup lost',
                    NEW k \in Kinds
             PROVE  Follows(k, p)'
  BY DEF MarksInv
<1>4. /\ BagToSet(asked) \ {c} \subseteq BagToSet(asked')
      /\ BagToSet(answers') = BagToSet(answers) \cup {a}
      /\ InFlight' = InFlight /\ a.cmd = c
  BY <1>1, <1>3, LeaveMoves DEF Says
<1>5. c \in Commands /\ c \in InFlight
  BY <1>1 DEF Types, InFlight
<1>6. lost \subseteq lost' /\ UNCHANGED <<reads, saved, wanted, crossed>>
  BY <1>3 DEF Leave
<1>7. Follows(k, p)
  BY <1>6 DEF MarksInv
<1>8. About(c, k, p) => a.ok
  <2> SUFFICES ASSUME About(c, k, p), ~a.ok PROVE FALSE
    BY <1>3 DEF Says
  <2>1. c.op \notin Loads /\ p \in c.posts
    BY DEF About, Writes, Loads
  <2>2. QED
    BY <1>3, <2>1
<1>9. About(c, k, p) => (p \in stored'[k]) = (p \in wanted[k])
  <2> SUFFICES ASSUME About(c, k, p) PROVE (p \in stored'[k]) = (p \in wanted[k])
    OBVIOUS
  <2>1. c.op \notin Loads \cup {"list"} /\ p \in c.posts /\ Field(c) = k
    BY DEF About, Writes, Loads
  <2>2. stored'[k] = IF c.on THEN stored[k] \cup c.posts ELSE stored[k] \ c.posts
    BY <1>1, <1>3, <1>5, <1>8, <2>1, DoneIs
  <2>3. c.on = (p \in wanted[k]) /\ c.on \in BOOLEAN
    BY <1>5, <1>7, CommandIs DEF Follows
  <2>4. CASE p \in wanted[k]
    BY <2>1, <2>2, <2>3, <2>4
  <2>5. CASE p \notin wanted[k]
    <3>1. (p \in wanted[k]) = FALSE
      BY <2>5
    <3>2. c.on = FALSE
      BY <2>3, <3>1, Zenon
    <3>3. p \notin stored'[k]
      BY <2>1, <2>2, <3>2
    <3>4. QED
      BY <2>5, <3>3
  <2>6. QED
    BY <2>4, <2>5
<1>10. ~About(c, k, p) => (p \in stored'[k]) = (p \in stored[k])
  <2> SUFFICES ASSUME ~About(c, k, p), Done(c)
               PROVE  (p \in stored'[k]) = (p \in stored[k])
    BY <1>3
  <2>1. stored'[k] = IF Field(c) # k THEN stored[k]
                     ELSE IF c.on THEN stored[k] \cup c.posts ELSE stored[k] \ c.posts
    BY <1>1, <1>5, DoneIs
  <2>2. Field(c) = k => p \notin c.posts
    BY <1>5, FieldIs DEF Done, About
  <2>3. QED
    BY <2>1, <2>2
<1>11. \/ (p \in stored'[k]) = (p \in wanted[k])
       \/ \E d \in BagToSet(asked') : About(d, k, p)
  BY <1>4, <1>7, <1>9, <1>10 DEF Follows
<1>12. a.ok /\ c.op = LoadOf(k) => (p \in a.ids) = (p \in wanted[k])
  <2> SUFFICES ASSUME a.ok, c.op = LoadOf(k)
               PROVE  (p \in a.ids) = (p \in wanted[k])
    OBVIOUS
  <2>1. Loading(LoadOf(k))
    BY <1>5 DEF Loading
  <2>2. (p \in stored[k]) = (p \in wanted[k])
    BY <1>7, <2>1 DEF Follows, InFlight
  <2>3. a.ids = stored[k]
    BY <1>3 DEF Says, LoadOf, Kinds
  <2>4. QED
    BY <2>2, <2>3
<1>13. \A d : About(d, k, p)' <=> About(d, k, p)
  BY DEF About, Field
<1>14. Loading(LoadOf(k))' <=> Loading(LoadOf(k))
  BY <1>4 DEF Loading, LoadOf
<1>15. Shown(k)' = Shown(k) /\ LoadOf(k)' = LoadOf(k)
  BY <1>6 DEF Shown, LoadOf
<1>16. QED
  BY <1>4, <1>6, <1>7, <1>11, <1>12, <1>13, <1>14, <1>15 DEF Follows

(* What an answer changes of one mark of one post.                         *)
LEMMA ShownAfter ==
  ASSUME Good, NEW a \in BagToSet(answers),
         \/ ReadsLoaded(a) \/ BookmarksLoaded(a) \/ UnreadCounts(a) \/ ReadToggled(a)
         \/ AllRead(a) \/ BookmarkToggled(a) \/ FullTextLoaded(a) \/ ListLoaded(a) \/ Failed(a),
         NEW k \in Kinds, NEW p \in Posts
  PROVE  \/ a.ok /\ a.cmd.op = LoadOf(k) /\ Shown(k)' = Shown(k) \cup a.ids
         \/ /\ a.ok /\ About(a.cmd, k, p)
            /\ \/ (p \in Shown(k)') = a.cmd.on
               \/ k = "read" /\ (p \in Shown(k)') = (p \in Shown(k))
         \/ /\ a.ok => a.cmd.op # LoadOf(k) /\ ~About(a.cmd, k, p)
            /\ (p \in Shown(k)') = (p \in Shown(k))
<1>1. /\ Types /\ Honest
      /\ a.cmd \in Commands /\ a.ok \in BOOLEAN
  BY DEF Good, Types
<1>2. a.cmd.op \in Loads \cup Writes \cup {"text", "list"} /\ a.cmd.on \in BOOLEAN
      /\ a.cmd.posts \subseteq Posts
  BY <1>1, CommandIs
<1>3. CASE ~a.ok
  <2>1. UNCHANGED <<reads, saved>>
    BY <1>3 DEF ReadsLoaded, BookmarksLoaded, UnreadCounts, ReadToggled, AllRead,
                BookmarkToggled, FullTextLoaded, ListLoaded, Failed
  <2>2. QED
    BY <1>3, <2>1 DEF Shown
<1>4. CASE ReadsLoaded(a)
  <2>1. a.ok /\ a.cmd.op = "reads" /\ reads' = reads \cup a.ids /\ saved' = saved
    BY <1>4 DEF ReadsLoaded
  <2>2. QED
    BY <2>1 DEF Shown, LoadOf, Kinds, About, Writes
<1>5. CASE BookmarksLoaded(a)
  <2>1. a.ok /\ a.cmd.op = "saves" /\ saved' = saved \cup a.ids /\ reads' = reads
    BY <1>5 DEF BookmarksLoaded
  <2>2. QED
    BY <2>1 DEF Shown, LoadOf, Kinds, About, Writes
<1>6. CASE UnreadCounts(a) \/ FullTextLoaded(a) \/ ListLoaded(a)
  <2>1. a.cmd.op \in {"counts", "text", "list"} /\ reads' = reads /\ saved' = saved
    BY <1>6 DEF UnreadCounts, FullTextLoaded, ListLoaded
  <2>2. QED
    BY <2>1 DEF Shown, LoadOf, Kinds, About, Writes
<1>7. CASE AllRead(a)
  <2>1. a.ok /\ a.cmd.op = "readall" /\ reads' = reads /\ saved' = saved
    BY <1>7 DEF AllRead
  <2>2. QED
    BY <2>1 DEF Shown, LoadOf, Kinds, About, Field
<1>8. CASE ReadToggled(a)
  <2>1. a.ok /\ a.cmd.op = "read" /\ saved' = saved /\ Field(a.cmd) = "read"
    BY <1>8 DEF ReadToggled, Field
  <2>2. PICK q \in a.cmd.posts : ApplyRead(q, a.cmd.on)
    BY <1>8 DEF ReadToggled
  <2>3. reads' = IF (q \in reads) = a.cmd.on THEN reads
                 ELSE IF a.cmd.on THEN reads \cup {q} ELSE reads \ {q}
    BY <2>2 DEF ApplyRead, Counted
  <2>4. CASE k = "read" /\ p = q
    <3>1. About(a.cmd, k, p)
      BY <2>1, <2>2, <2>4 DEF About, Writes
    <3>2. (p \in Shown(k)') = a.cmd.on
      BY <1>2, <2>3, <2>4 DEF Shown
    <3>3. QED
      BY <2>1, <3>1, <3>2
  <2>5. CASE k = "read" /\ p # q
    <3>1. (p \in Shown(k)') = (p \in Shown(k))
      BY <2>3, <2>5 DEF Shown
    <3>2. QED
      BY <2>1, <2>5, <3>1 DEF LoadOf
  <2>6. CASE k = "save"
    BY <2>1, <2>6 DEF Shown, LoadOf, About
  <2>7. QED
    BY <2>4, <2>5, <2>6 DEF Kinds
<1>9. CASE BookmarkToggled(a)
  <2>1. /\ a.ok /\ a.cmd.op = "save" /\ reads' = reads /\ Field(a.cmd) = "save"
        /\ saved' = IF a.cmd.on THEN saved \cup a.ids ELSE saved \ a.ids
    BY <1>9 DEF BookmarkToggled, Field
  <2>2. a.ids = a.cmd.posts
    BY <1>1, <2>1 DEF Honest, Loads
  <2>3. CASE k = "save" /\ p \in a.ids
    <3>1. About(a.cmd, k, p)
      BY <2>1, <2>2, <2>3 DEF About, Writes
    <3>2. (p \in Shown(k)') = a.cmd.on
      BY <1>2, <2>1, <2>3 DEF Shown
    <3>3. QED
      BY <2>1, <3>1, <3>2
  <2>4. CASE k = "save" /\ p \notin a.ids
    BY <2>1, <2>2, <2>4 DEF Shown, LoadOf, About
  <2>5. CASE k = "read"
    BY <2>1, <2>5 DEF Shown, LoadOf, About
  <2>6. QED
    BY <2>3, <2>4, <2>5 DEF Kinds
<1>10. CASE Failed(a)
  BY <1>3, <1>10 DEF Failed
<1>11. QED
  BY <1>4, <1>5, <1>6, <1>7, <1>8, <1>9, <1>10

LEMMA AnswerKeepsMarks ==
  ASSUME Good, MarksInv, Answer
  PROVE  MarksInv'
<1>1. PICK a \in BagToSet(answers) :
        \/ ReadsLoaded(a) \/ BookmarksLoaded(a) \/ UnreadCounts(a) \/ ReadToggled(a)
        \/ AllRead(a) \/ BookmarkToggled(a) \/ FullTextLoaded(a) \/ ListLoaded(a) \/ Failed(a)
  BY DEF Answer
<1>2. Types /\ Honest
  BY DEF Good
<1>3. Handled(a) /\ UNCHANGED <<stored, asked, wanted, crossed, lost>>
  BY <1>1, AnswerIs
<1>4. /\ BagToSet(answers') \subseteq BagToSet(answers)
      /\ InFlight' \subseteq InFlight /\ InFlight \ {a.cmd} \subseteq InFlight'
      /\ a.cmd \in InFlight
  BY <1>2, <1>3, HandledTakes
<1> SUFFICES ASSUME NoPost \notin lost',
                    NEW p \in Posts, p \notin crossed' \cup lost',
                    NEW k \in Kinds
             PROVE  Follows(k, p)'
  BY DEF MarksInv
<1>5. Follows(k, p)
  BY <1>3 DEF MarksInv
<1>6. ~a.ok => a.cmd.op \notin Loads /\ ~About(a.cmd, k, p)
  BY <1>2, <1>3 DEF Honest, About
<1>7. \A d : About(d, k, p)' <=> About(d, k, p)
  BY DEF About, Field
<1>8. LoadOf(k)' = LoadOf(k) /\ (Loading(LoadOf(k))' => Loading(LoadOf(k)))
  BY <1>4 DEF LoadOf, Loading
<1>9. a.cmd.op # LoadOf(k) => (Loading(LoadOf(k))' <=> Loading(LoadOf(k)))
  BY <1>4 DEF LoadOf, Loading
<1>10. a.cmd.op = LoadOf(k) => Loading(LoadOf(k))
  BY <1>4 DEF Loading
<1>11. /\ Loading(LoadOf(k))' => (p \in Shown(k)' => p \in wanted[k])
       /\ \/ Loading(LoadOf(k))'
          \/ (p \in Shown(k)') = (p \in wanted[k])
          \/ k = "save" /\ \E c \in InFlight' : About(c, k, p)
  <2>1. CASE a.ok /\ a.cmd.op = LoadOf(k) /\ Shown(k)' = Shown(k) \cup a.ids
    <3>1. (p \in a.ids) = (p \in wanted[k]) /\ (p \in Shown(k) => p \in wanted[k])
      BY <1>5, <1>10, <2>1 DEF Follows
    <3>2. QED
      BY <2>1, <3>1
  <2>2. CASE /\ a.ok /\ About(a.cmd, k, p)
             /\ \/ (p \in Shown(k)') = a.cmd.on
                \/ k = "read" /\ (p \in Shown(k)') = (p \in Shown(k))
    <3>1. a.cmd.on = (p \in wanted[k]) /\ ~Loading(LoadOf(k))
      BY <1>4, <1>5, <2>2 DEF Follows
    <3>2. k = "read" => (p \in Shown(k)) = (p \in wanted[k])
      BY <1>5, <3>1 DEF Follows
    <3>3. (p \in Shown(k)') = (p \in wanted[k])
      BY <2>2, <3>1, <3>2
    <3>4. QED
      BY <1>8, <3>1, <3>3
  <2>3. CASE /\ a.ok => a.cmd.op # LoadOf(k) /\ ~About(a.cmd, k, p)
             /\ (p \in Shown(k)') = (p \in Shown(k))
    <3>1. a.cmd.op # LoadOf(k) /\ ~About(a.cmd, k, p)
      BY <1>6, <2>3, LoadIsNoWrite
    <3>2. \A c \in InFlight : About(c, k, p) => c \in InFlight'
      BY <1>4, <3>1
    <3>3. QED
      BY <1>5, <1>9, <2>3, <3>1, <3>2 DEF Follows
  <2>4. QED
    BY <1>1, <2>1, <2>2, <2>3, ShownAfter
<1>12. QED
  BY <1>3, <1>4, <1>5, <1>7, <1>8, <1>11 DEF Follows

LEMMA MarksInductive == Good /\ MarksInv /\ [Next]_vars => MarksInv'
<1> SUFFICES ASSUME Good, MarksInv, [Next]_vars PROVE MarksInv'
  OBVIOUS
<1>1. CASE Looked \/ UNCHANGED vars
  <2>1. UNCHANGED <<stored, reads, saved, asked, answers, wanted, crossed, lost>>
    BY <1>1 DEF Looked, vars
  <2>2. QED
    BY <2>1 DEF MarksInv, Follows, Shown, Loading, InFlight, About, Field, LoadOf
<1>2. ASSUME NEW c, Asked(c)
      PROVE  MarksInv'
  <2> SUFFICES ASSUME NoPost \notin lost',
                      NEW p \in Posts, p \notin crossed' \cup lost',
                      NEW k \in Kinds
               PROVE  Follows(k, p)'
    BY DEF MarksInv
  <2>1. /\ Types /\ Follows(k, p) /\ Ask(c)
        /\ UNCHANGED <<answers, stored, reads, saved, wanted>>
    BY <1>2 DEF Good, MarksInv, Asked
  <2>2. c.op # LoadOf(k) /\ ~About(c, k, p)
    BY <1>2 DEF Asked, About, LoadOf
  <2>3. Shown(k)' = Shown(k)
    BY <2>1 DEF Shown
  <2>4. QED
    BY <2>1, <2>2, <2>3, FollowsBeside
<1>3. ASSUME NEW kind, NEW ps, NEW on, NEW c, Marked(kind, ps, on, c)
      PROVE  MarksInv'
  BY <1>3, MarkedKeepsMarks
<1>4. QED
  BY <1>1, <1>2, <1>3, KeyIs, ServeKeepsMarks, AnswerKeepsMarks DEF Good, Next

LEMMA InitMarks == Init => MarksInv
<1> SUFFICES ASSUME Init, NEW p \in Posts, NEW k \in Kinds PROVE Follows(k, p)
  BY DEF MarksInv
<1>1. /\ BagToSet(asked) = {Load("reads"), Load("saves"), Load("counts")}
      /\ BagToSet(answers) = {} /\ InFlight = BagToSet(asked)
  BY InitGood
<1>2. \A c \in InFlight : ~About(c, k, p)
  BY <1>1 DEF Load, About, Writes
<1>3. Loading(LoadOf(k))
  BY <1>1 DEF Loading, LoadOf, Load
<1>4. stored[k] = wanted[k] /\ p \notin Shown(k)
  BY DEF Init, Kinds, Shown
<1>5. QED
  BY <1>1, <1>2, <1>3, <1>4 DEF Follows

LEMMA AlwaysGood == Spec => [](Good /\ MarksInv)
<1>1. Init => Good /\ MarksInv
  BY InitGood, InitMarks
<1>2. Good /\ MarksInv /\ [Next]_vars => (Good /\ MarksInv)'
  BY GoodInductive, MarksInductive
<1>3. QED
  BY <1>1, <1>2, PTL DEF Spec

(* For any posts, keys and commands in flight, whatever overtakes what:    *)
(* when everything is answered, a post whose commands did not cross and    *)
(* did not fail is read, and saved, on the screen, in the store and in the *)
(* user's last key alike (applyRead, readToggled and bookmarkToggled of    *)
(* update.go, the keys of actions.go).                                     *)
THEOREM ReaderAndStoreAgree == Spec => []MarksAgree
<1>1. ASSUME Good, MarksInv PROVE MarksAgree
  <2> SUFFICES ASSUME Quiet, NoPost \notin lost,
                      NEW p \in Posts, p \notin crossed \cup lost
               PROVE  /\ (p \in reads) = (p \in stored.read)
                      /\ (p \in saved) = (p \in stored.save)
                      /\ (p \in stored.read) = (p \in wanted.read)
                      /\ (p \in stored.save) = (p \in wanted.save)
    BY DEF MarksAgree
  <2>1. BagToSet(asked) = {} /\ InFlight = {}
    BY EmptyIsEmpty DEF Quiet, InFlight
  <2>2. Follows("read", p) /\ Follows("save", p)
    BY <1>1 DEF MarksInv, Kinds
  <2>3. QED
    BY <2>1, <2>2 DEF Follows, Loading, Shown
<1>2. QED
  BY <1>1, AlwaysGood, PTL

(* The text on a page is of the post the page is about, and one the store  *)
(* has, however often the user steps on while it is fetched (fullTextLoaded *)
(* and showPost of update.go and actions.go).                              *)
THEOREM TextIsOfTheOpenPost == Spec => []FullTextIsOfTheOpenPost
<1>1. Good => FullTextIsOfTheOpenPost
  BY DEF Good, TextInv, FullTextIsOfTheOpenPost
<1>2. QED
  BY <1>1, AlwaysGood, PTL

-----------------------------------------------------------------------------
(* The count *)

(* A key that writes a mark while nothing has crossed: no load is in       *)
(* flight, the reads are what the user wants, and they are what is counted. *)
LEMMA MarkedIsCounted ==
  ASSUME Good, MarksInv, CountInv, crossed' = {}, lost' = {},
         NEW kind, NEW ps, NEW on, NEW c, Marked(kind, ps, on, c)
  PROVE  /\ reads = wanted.read /\ unread = Cardinality(Posts \ reads)
         /\ unread' = Unread' => CountInv'
<1>1. Types /\ crossed = {} /\ lost = {} /\ answers' = answers
  BY DEF Good, Marked, Want
<1>2. \A d \in InFlight : d.op \notin Loads
  <2>1. PICK p \in ps : TRUE
    BY DEF Marked
  <2>2. ~Busy(p)
    BY <2>1 DEF Marked, Want
  <2>3. QED
    BY <2>2 DEF Busy
<1>3. ~Loading("counts") /\ ~Loading("reads")
  BY <1>2 DEF Loading, Loads
<1>4. \A p \in Posts : (p \in reads) = (p \in wanted.read)
  <2> SUFFICES ASSUME NEW p \in Posts PROVE (p \in reads) = (p \in wanted.read)
    OBVIOUS
  <2>1. Follows("read", p)
    BY <1>1 DEF MarksInv, Kinds
  <2>2. QED
    BY <1>3, <2>1 DEF Follows, LoadOf, Shown
<1>5. reads = wanted.read
  <2>1. reads \subseteq Posts /\ wanted.read \subseteq Posts
    BY <1>1 DEF Types, Marks
  <2>2. QED
    BY <1>4, <2>1
<1>6. unread = Cardinality(Posts \ reads)
  BY <1>1, <1>3, <1>5 DEF CountInv, Unread
<1>7. ASSUME unread' = Unread'
      PROVE  CountInv'
  <2>1. BagToSet(asked') = BagToSet(asked) \cup {c} /\ InFlight' = InFlight \cup {c}
    BY <1>1, AskAdds DEF Marked
  <2>2. c.op # "counts"
    BY DEF Marked, Writes
  <2>3. ~Loading("counts")'
    BY <1>3, <2>1, <2>2 DEF Loading
  <2>4. \A a \in BagToSet(answers) : a.cmd.op # "counts"
    BY <1>2 DEF InFlight, Loads
  <2>5. QED
    BY <1>1, <1>7, <2>3, <2>4 DEF CountInv
<1>8. QED
  BY <1>5, <1>6, <1>7

(* One post more, or one less, that is read. *)
LEMMA OneMore ==
  ASSUME NEW S \in SUBSET Posts, NEW p \in Posts \ S
  PROVE  /\ Cardinality(Posts \ S) \in Nat /\ Cardinality(Posts \ S) > 0
         /\ Cardinality(Posts \ (S \cup {p})) = Cardinality(Posts \ S) - 1
<1>1. Posts \ (S \cup {p}) = (Posts \ S) \ {p}
  OBVIOUS
<1>2. IsFiniteSet(Posts \ S) /\ Cardinality(Posts \ S) \in Nat
  BY CountsAreNumbers
<1>3. Cardinality((Posts \ S) \ {p}) = Cardinality(Posts \ S) - 1
  BY <1>2, FS_RemoveElement
<1>4. Cardinality(Posts \ S) # 0
  BY <1>2, FS_EmptySet
<1>5. Cardinality(Posts \ (S \cup {p})) = Cardinality(Posts \ S) - 1
  BY <1>1, <1>3, Zenon
<1>6. Cardinality(Posts \ S) > 0
  <2> DEFINE n == Cardinality(Posts \ S)
  <2> HIDE DEF n
  <2>1. n \in Nat /\ n # 0
    BY <1>2, <1>4 DEF n
  <2>2. n > 0
    BY <2>1
  <2>3. QED
    BY <2>2 DEF n
<1>7. QED
  BY <1>2, <1>5, <1>6

LEMMA CountedRight ==
  ASSUME Types, unread = Cardinality(Posts \ reads), NEW p \in Posts,
         NEW on \in BOOLEAN, ApplyRead(p, on)
  PROVE  unread' = Cardinality(Posts \ reads')
<1>1. CASE (p \in reads) = on
  BY <1>1 DEF ApplyRead, Counted
<1>2. CASE p \notin reads /\ on
  <2>1. reads' = reads \cup {p} /\ unread' = (IF unread > 0 THEN unread - 1 ELSE 0)
    BY <1>2 DEF ApplyRead, Counted
  <2>2. reads \in SUBSET Posts /\ p \in Posts \ reads
    BY <1>2 DEF Types
  <2>3. QED
    BY <2>1, <2>2, OneMore
<1>3. CASE p \in reads /\ ~on
  <2>1. reads' = reads \ {p} /\ unread' = unread + 1
    BY <1>3 DEF ApplyRead, Counted
  <2>2. reads' \in SUBSET Posts /\ p \in Posts \ reads' /\ reads = reads' \cup {p}
    BY <1>3, <2>1 DEF Types
  <2>3. /\ Cardinality(Posts \ reads') \in Nat
        /\ Cardinality(Posts \ reads) = Cardinality(Posts \ reads') - 1
    BY <2>2, OneMore
  <2>4. QED
    BY <2>1, <2>3
<1>4. QED
  BY <1>1, <1>2, <1>3

(* The posts of the list, at once. *)
LEMMA ListCounted ==
  ASSUME Types, unread = Cardinality(Posts \ reads), ListMarked
  PROVE  unread' = Cardinality(Posts \ reads')
<1> DEFINE S == Posts \ reads
           T == listed \ reads
<1>1. T \subseteq S /\ S \in SUBSET Posts /\ T \in SUBSET Posts /\ S \cap T = T
  BY DEF Types
<1>2. Posts \ reads' = S \ T
  BY DEF ListMarked
<1>3. unread = Cardinality(S)
      /\ unread' = IF unread > Cardinality(T) THEN unread - Cardinality(T) ELSE 0
  BY DEF ListMarked
<1> HIDE DEF S, T
<1>4. /\ IsFiniteSet(S) /\ Cardinality(S) \in Nat /\ Cardinality(T) \in Nat
      /\ Cardinality(S \ T) \in Nat
  <2>1. S \ T \in SUBSET Posts
    BY <1>1
  <2>2. QED
    BY <1>1, <2>1, CountsAreNumbers
<1>5. Cardinality(S \ T) = Cardinality(S) - Cardinality(S \cap T)
  BY <1>4, FS_Difference
<1>6. Cardinality(S \ T) = Cardinality(S) - Cardinality(T)
  BY <1>1, <1>5, Zenon
<1>7. unread' = Cardinality(S \ T)
  <2> DEFINE m == Cardinality(S)
             n == Cardinality(T)
             d == Cardinality(S \ T)
  <2>1. m \in Nat /\ n \in Nat /\ d \in Nat /\ d = m - n
        /\ unread = m /\ unread' = IF unread > n THEN unread - n ELSE 0
    BY <1>3, <1>4, <1>6
  <2> HIDE DEF m, n, d
  <2>2. unread' = d
    BY <2>1
  <2>3. QED
    BY <2>2 DEF d
<1>8. QED
  BY <1>2, <1>7

LEMMA PressKeepsCount ==
  ASSUME Good, MarksInv, CountInv, Press
  PROVE  CountInv'
<1> SUFFICES ASSUME crossed' = {}, lost' = {} PROVE CountInv'
  BY DEF CountInv
<1>1. Types /\ Honest
  BY DEF Good
<1>2. CASE Looked
  BY <1>2 DEF Looked, CountInv, Loading, InFlight, Unread
<1>3. ASSUME NEW c, Asked(c)
      PROVE  CountInv'
  <2>1. /\ BagToSet(asked') = BagToSet(asked) \cup {c} /\ InFlight' = InFlight \cup {c}
        /\ answers' = answers /\ unread' = unread /\ wanted' = wanted /\ lost = {}
        /\ c.op \notin Writes
    BY <1>1, <1>3, AskAdds DEF Asked
  <2>2. crossed = {}
    BY <1>3 DEF Asked
  <2>3. CASE c.op \in {"text", "list"}
    BY <2>1, <2>2, <2>3 DEF CountInv, Loading, Unread
  <2>4. CASE c.op = "counts"
    <3>1. \A d \in InFlight : d.posts = {}
      BY <1>3, <2>4 DEF Asked
    <3>2. \A d \in InFlight : d.op \notin Writes
      BY <1>1, <3>1 DEF Honest
    <3>3. QED
      BY <2>1, <2>2, <2>4, <3>2 DEF CountInv, Loading, Unread
  <2>5. QED
    BY <1>3, <2>3, <2>4 DEF Asked
<1>4. ASSUME NEW ps, NEW on, NEW c, Marked("read", ps, on, c),
             unread = Cardinality(Posts \ reads) => unread' = Cardinality(Posts \ reads')
      PROVE  CountInv'
  <2>1. reads = wanted.read /\ unread = Cardinality(Posts \ reads)
        /\ (unread' = Unread' => CountInv')
    BY <1>4, MarkedIsCounted
  <2>2. wanted'.read = reads'
    BY <1>1, <1>4, <2>1 DEF Marked, Want, Types, Marks
  <2>3. QED
    BY <1>4, <2>1, <2>2 DEF Unread
<1>5. ASSUME NEW p \in Posts, OpenPost(p), ~Looked
      PROVE  CountInv'
  <2>1. Marked("read", {p}, TRUE, Write("read", {p}, TRUE))
    BY <1>1, <1>5, OpenIs
  <2>2. unread = Cardinality(Posts \ reads) => unread' = Cardinality(Posts \ reads')
    BY <1>1, <1>5, CountedRight DEF OpenPost
  <2>3. QED
    BY <1>4, <2>1, <2>2
<1>6. ASSUME NEW p \in Posts, ToggleRead(p)
      PROVE  CountInv'
  <2>1. Marked("read", {p}, p \notin reads, Write("read", {p}, p \notin reads))
    BY <1>1, <1>6, ToggleReadIs
  <2>2. unread = Cardinality(Posts \ reads) => unread' = Cardinality(Posts \ reads')
    BY <1>1, <1>6, CountedRight DEF ToggleRead
  <2>3. QED
    BY <1>4, <2>1, <2>2
<1>7. CASE MarkListRead
  <2>1. Marked("read", listed \ reads, TRUE, Write("readall", listed \ reads, TRUE))
    BY <1>1, <1>7, MarkListReadIs
  <2>2. unread = Cardinality(Posts \ reads) => unread' = Cardinality(Posts \ reads')
    BY <1>1, <1>7, ListCounted DEF MarkListRead
  <2>3. QED
    BY <1>4, <2>1, <2>2
<1>8. ASSUME NEW p \in Posts, ToggleBookmark(p)
      PROVE  CountInv'
  <2>1. /\ Marked("save", {p}, p \notin saved, Write("save", {p}, p \notin saved))
        /\ unread' = unread
    BY <1>1, <1>8, ToggleBookmarkIs
  <2>2. reads = wanted.read /\ unread = Cardinality(Posts \ reads)
        /\ (unread' = Unread' => CountInv')
    BY <2>1, MarkedIsCounted
  <2>3. wanted'.read = wanted.read
    BY <1>1, <2>1 DEF Marked, Want, Types, Marks
  <2>4. QED
    BY <2>1, <2>2, <2>3 DEF Unread
<1>9. CASE Back
  BY <1>2, <1>9 DEF Back, Key, Looked
<1>10. CASE LoadFullText \/ ReloadFeeds \/ ReloadList
  BY <1>1, <1>3, <1>10, LoadFullTextIs, ReloadFeedsIs, ReloadListIs
<1>11. QED
  BY <1>2, <1>5, <1>6, <1>7, <1>8, <1>9, <1>10 DEF Press

LEMMA ServeKeepsCount ==
  ASSUME Good, MarksInv, CountInv, Serve
  PROVE  CountInv'
<1> SUFFICES ASSUME crossed' = {}, lost' = {} PROVE CountInv'
  BY DEF CountInv
<1>1. Types
  BY DEF Good
<1>2. PICK c \in BagToSet(asked) : Carry(c) \/ Fail(c)
  BY DEF Serve
<1>3. PICK a : /\ Leave(c, a) /\ Says(c, a)
               /\ Done(c) \/ UNCHANGED stored
               /\ a.ok /\ c.op \notin Loads \cup {"list"} => Done(c)
               /\ a.ok => UNCHANGED lost
               /\ ~a.ok => /\ lost' = lost \cup IF c.op \in Loads THEN {NoPost}
                                                ELSE c.posts
                           /\ a.ids = {}
  BY <1>1, <1>2, ServeIs
<1>4. /\ BagToSet(answers') = BagToSet(answers) \cup {a}
      /\ InFlight' = InFlight /\ a.cmd = c /\ c \in InFlight
  BY <1>1, <1>3, LeaveMoves DEF Says, InFlight
<1>5. UNCHANGED <<unread, wanted, crossed>> /\ lost = {}
  BY <1>3 DEF Leave, Says
<1>6. a.ok /\ c.op = "counts" => a.n = Unread
  <2> SUFFICES ASSUME a.ok, c.op = "counts" PROVE a.n = Unread
    OBVIOUS
  <2>1. \A d \in InFlight : d.op \notin Writes
    BY <1>4, <1>5 DEF CountInv, Loading
  <2>2. \A p \in Posts : (p \in stored.read) = (p \in wanted.read)
    <3> SUFFICES ASSUME NEW p \in Posts PROVE (p \in stored.read) = (p \in wanted.read)
      OBVIOUS
    <3>1. Follows("read", p)
      BY <1>5 DEF MarksInv, Kinds
    <3>2. QED
      BY <2>1, <3>1 DEF Follows, About, InFlight
  <2>3. stored.read = wanted.read
    BY <1>1, <2>2 DEF Types, Marks
  <2>4. QED
    BY <1>3, <2>3 DEF Says, Unread
<1>7. QED
  BY <1>4, <1>5, <1>6 DEF CountInv, Loading, Unread

LEMMA AnswerKeepsCount ==
  ASSUME Good, MarksInv, CountInv, Answer
  PROVE  CountInv'
<1> SUFFICES ASSUME crossed' = {}, lost' = {} PROVE CountInv'
  BY DEF CountInv
<1>1. PICK a \in BagToSet(answers) :
        \/ ReadsLoaded(a) \/ BookmarksLoaded(a) \/ UnreadCounts(a) \/ ReadToggled(a)
        \/ AllRead(a) \/ BookmarkToggled(a) \/ FullTextLoaded(a) \/ ListLoaded(a) \/ Failed(a)
  BY DEF Answer
<1>2. Types /\ Honest /\ a.cmd \in Commands
  BY DEF Good, Types
<1>3. Handled(a) /\ UNCHANGED <<wanted, crossed, lost>>
  BY <1>1, AnswerIs
<1>4. /\ BagToSet(answers') \subseteq BagToSet(answers)
      /\ InFlight' \subseteq InFlight /\ InFlight \ {a.cmd} \subseteq InFlight'
      /\ a.cmd \in InFlight
  BY <1>2, <1>3, HandledTakes
<1>5. Loading("counts")' => Loading("counts")
  BY <1>4 DEF Loading
<1>6. Loading("counts")' \/ unread' = Unread'
  <2>1. CASE UnreadCounts(a)
    <3>1. unread' = a.n /\ a.ok /\ a.cmd.op = "counts"
      BY <2>1 DEF UnreadCounts
    <3>2. QED
      BY <1>3, <3>1 DEF CountInv, Unread
  <2>2. CASE ~a.ok
    <3>1. a.cmd.op \notin Loads /\ unread' = unread
      BY <1>1, <1>2, <1>3, <2>2 DEF Honest, ReadsLoaded, BookmarksLoaded, UnreadCounts,
         ReadToggled, AllRead, BookmarkToggled, FullTextLoaded, ListLoaded, Failed
    <3>2. Loading("counts") => Loading("counts")'
      BY <1>4, <3>1 DEF Loading, Loads
    <3>3. QED
      BY <1>3, <3>1, <3>2 DEF CountInv, Unread
  <2>3. CASE a.ok /\ ~UnreadCounts(a)
    <3>1. a.cmd.op # "counts"
      BY <1>1, <2>3 DEF ReadsLoaded, BookmarksLoaded, ReadToggled,
         AllRead, BookmarkToggled, FullTextLoaded, ListLoaded, Failed
    <3>2. Loading("counts") => Loading("counts")'
      BY <1>4, <3>1 DEF Loading
    <3>3. CASE ~ReadToggled(a)
      <4>1. unread' = unread
        BY <1>1, <2>3, <3>3 DEF ReadsLoaded, BookmarksLoaded, AllRead,
           BookmarkToggled, FullTextLoaded, ListLoaded, Failed
      <4>2. QED
        BY <1>3, <3>2, <4>1 DEF CountInv, Unread
    <3>4. CASE ReadToggled(a)
      <4>1. PICK p \in a.cmd.posts : ApplyRead(p, a.cmd.on)
        BY <3>4 DEF ReadToggled
      <4>2. p \in Posts /\ a.cmd.on \in BOOLEAN /\ About(a.cmd, "read", p)
        BY <1>2, <3>4, <4>1, CommandIs DEF About, Field, Writes, ReadToggled
      <4>3. Follows("read", p)
        BY <1>3, <4>2 DEF MarksInv, Kinds
      <4>4. a.cmd.on = (p \in wanted.read) /\ (p \in reads) = (p \in wanted.read)
        BY <1>4, <4>2, <4>3 DEF Follows, LoadOf, Shown
      <4>5. unread' = unread
        BY <4>1, <4>4 DEF ApplyRead, Counted
      <4>6. QED
        BY <1>3, <3>2, <4>5 DEF CountInv, Unread
    <3>5. QED
      BY <3>3, <3>4
  <2>4. QED
    BY <1>2, <2>1, <2>2, <2>3
<1>7. QED
  BY <1>3, <1>4, <1>5, <1>6 DEF CountInv, Unread

LEMMA AlwaysCounted == Spec => [](Good /\ MarksInv /\ CountInv)
<1>1. Init => CountInv
  <2> SUFFICES ASSUME Init PROVE CountInv
    OBVIOUS
  <2>1. /\ BagToSet(asked) = {Load("reads"), Load("saves"), Load("counts")}
        /\ BagToSet(answers) = {} /\ InFlight = BagToSet(asked)
    BY InitGood
  <2>2. Loading("counts") /\ \A c \in InFlight : c.op \notin Writes
    BY <2>1 DEF Loading, Load, Writes
  <2>3. QED
    BY <2>1, <2>2 DEF CountInv
<1>2. Good /\ MarksInv /\ CountInv /\ [Next]_vars => CountInv'
  <2>1. ASSUME CountInv, UNCHANGED vars
        PROVE  CountInv'
    BY <2>1 DEF vars, CountInv, Loading, InFlight, Unread
  <2>2. QED
    BY <2>1, PressKeepsCount, ServeKeepsCount, AnswerKeepsCount DEF Next
<1>3. QED
  BY <1>1, <1>2, AlwaysGood, PTL DEF Spec

(* The count of unread posts, counted up and down beside the reads, is the *)
(* number of posts the store has as unread once everything is answered, if *)
(* nothing crossed or failed (applyRead, markListRead and unreadCounts).   *)
THEOREM CountIsRight == Spec => []CountAgrees
<1>1. ASSUME Good, MarksInv, CountInv PROVE CountAgrees
  <2> SUFFICES ASSUME Quiet, crossed = {}, lost = {}
               PROVE  unread = Cardinality(Posts \ stored.read)
    BY DEF CountAgrees
  <2>1. BagToSet(asked) = {} /\ InFlight = {}
    BY EmptyIsEmpty DEF Quiet, InFlight
  <2>2. \A p \in Posts : (p \in stored.read) = (p \in wanted.read)
    <3> SUFFICES ASSUME NEW p \in Posts PROVE (p \in stored.read) = (p \in wanted.read)
      OBVIOUS
    <3>1. Follows("read", p)
      BY <1>1 DEF MarksInv, Kinds
    <3>2. QED
      BY <2>1, <3>1 DEF Follows
  <2>3. stored.read = wanted.read
    BY <1>1, <2>2 DEF Good, Types, Marks
  <2>4. unread = Unread
    BY <1>1, <2>1 DEF CountInv, Loading
  <2>5. QED
    BY <2>3, <2>4 DEF Unread
<1>2. QED
  BY <1>1, AlwaysCounted, PTL

=============================================================================
