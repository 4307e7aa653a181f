---------------------------- MODULE ReaderMarks ----------------------------
(***************************************************************************)
(* What the terminal reader (internal/tui) shows about posts: which are    *)
(* read, which are saved, how many are unread, and the full text of the    *)
(* one that is open.  The store has all of it; the reader keeps its own    *)
(* maps, writes to them before the store has answered (applyRead) or after *)
(* (bookmarks), and never reads them again after its start, save the       *)
(* unread counts.                                                          *)
(*                                                                         *)
(* A command is carried out by the store in one step and its answer is     *)
(* handled by the reader in another; between the two anything may happen,  *)
(* and commands overtake each other in either.                             *)
(*                                                                         *)
(* The posts are those of one feed; which of them the list holds is up to  *)
(* the filter, and a load of the list replaces every item it had.          *)
(***************************************************************************)
EXTENDS Integers, FiniteSets, Bags

CONSTANTS
    Posts,
    NoPost,     \* nothing is open
    MaxKeys,    \* bound: keys the user presses
    MaxAtOnce   \* bound: commands in flight when a key is pressed

ASSUME ReaderMarksAssumption == NoPost \notin Posts /\ IsFiniteSet(Posts)

VARIABLES
    stored,     \* the store: posts read and posts saved; texts fetched
    reads, saved, unread,   \* m.reads, m.bookmarks, m.unread of the feed
    open,       \* m.selected while the screen is a post, else NoPost
    listed,     \* posts in m.list
    texts,      \* those whose full text is in their item
    shown,      \* the text on the open post's page is the full one
    fetchingText,
    asked,      \* commands the store has not carried out
    answers,    \* answers the reader has not handled
    keys,       \* keys pressed so far
    \* history, read by the properties and never by an action
    wanted,     \* what the user's last key about each post wants it to be
    crossed,    \* posts whose commands were in flight together with another
                \* command they matter to
    lost        \* posts with a write that failed, and NoPost for a load

vars == <<stored, reads, saved, unread, open, listed, texts, shown, fetchingText, asked,
          answers, keys, wanted, crossed, lost>>
history == <<wanted, crossed, lost>>

(* Commands and, under the same op, their answers.                         *)
Load(op) == [op |-> op, posts |-> {}, on |-> TRUE]
Write(op, ps, on) == [op |-> op, posts |-> ps, on |-> on]

Loads == {"reads", "saves", "counts"}
Writes == {"read", "readall", "save"}
Field(c) == IF c.op = "readall" THEN "read" ELSE c.op
Commands == [op : Loads, posts : {{}}, on : {TRUE}]
            \cup [op : Writes, posts : SUBSET Posts, on : BOOLEAN]
            \cup [op : {"text"}, posts : SUBSET Posts, on : {TRUE}]
            \cup [op : {"list"}, posts : {{}}, on : {TRUE}]

Marks == [read : SUBSET Posts, save : SUBSET Posts]

Init ==
    /\ stored \in [read : SUBSET Posts, save : SUBSET Posts, text : SUBSET Posts]
    /\ reads = {} /\ saved = {} /\ unread = 0
    /\ open = NoPost /\ shown = FALSE /\ fetchingText = FALSE
    /\ listed = Posts /\ texts = stored.text
    /\ asked = SetToBag({Load("reads"), Load("saves"), Load("counts")})
    /\ answers = EmptyBag
    /\ keys = 0
    /\ wanted = [read |-> stored.read, save |-> stored.save]
    /\ crossed = {} /\ lost = {}

-----------------------------------------------------------------------------
(* Keys *)

InFlight == BagToSet(asked) \cup {a.cmd : a \in BagToSet(answers)}
Busy(p) == \E c \in InFlight : c.op \in Loads \/ p \in c.posts

Key ==
    /\ keys < MaxKeys
    /\ BagCardinality(asked) + BagCardinality(answers) < MaxAtOnce
    /\ keys' = keys + 1
    /\ UNCHANGED <<stored, saved, listed, texts, answers, lost>>

Ask(c) == asked' = asked (+) SetToBag({c})

(* The user wants the posts ps read (or saved) or not.                     *)
Want(kind, ps, on) ==
    /\ wanted' = [wanted EXCEPT ![kind] = IF on THEN @ \cup ps ELSE @ \ ps]
    /\ crossed' = crossed \cup {p \in ps : Busy(p)}

(* Seeded bug: applyRead does not look at what the reader already shows.   *)
CountedAnyway(rs, n, p, on) ==
    [reads |-> IF on THEN rs \cup {p} ELSE rs \ {p},
     unread |-> IF on THEN IF n > 0 THEN n - 1 ELSE 0 ELSE n + 1]

(* applyRead, on the reader's reads rs and unread count n.                 *)
Counted(rs, n, p, on) ==
    IF (p \in rs) = on THEN [reads |-> rs, unread |-> n]
    ELSE [reads |-> IF on THEN rs \cup {p} ELSE rs \ {p},
          unread |-> IF on THEN IF n > 0 THEN n - 1 ELSE 0 ELSE n + 1]

ApplyRead(p, on) ==
    LET c == Counted(reads, unread, p, on)
    IN reads' = c.reads /\ unread' = c.unread

(* openPost, from the list or by stepping from the post that is open: a    *)
(* post not known to be read is marked read at once and written.           *)
OpenPost(p) ==
    /\ Key /\ p \in listed
    /\ open' = p
    /\ shown' = (p \in texts)
    /\ ApplyRead(p, TRUE)
    /\ IF p \in reads
       THEN UNCHANGED <<asked, wanted, crossed>>
       ELSE Ask(Write("read", {p}, TRUE)) /\ Want("read", {p}, TRUE)
    /\ UNCHANGED fetchingText

Back ==
    /\ Key
    /\ open # NoPost
    /\ open' = NoPost /\ shown' = FALSE
    /\ UNCHANGED <<reads, unread, fetchingText, asked, wanted, crossed>>

(* u: toggleSelectedRead.                                                  *)
ToggleRead(p) ==
    /\ Key /\ open = NoPost /\ p \in listed
    /\ ApplyRead(p, p \notin reads)
    /\ Ask(Write("read", {p}, p \notin reads))
    /\ Want("read", {p}, p \notin reads)
    /\ UNCHANGED <<open, shown, fetchingText>>

(* A: the posts of the list not known to be read are marked, and counted.  *)
ListMarked ==
    /\ Key /\ open = NoPost
    /\ ~(listed \subseteq reads)
    /\ reads' = reads \cup listed
    /\ LET n == Cardinality(listed \ reads) IN unread' = IF unread > n THEN unread - n ELSE 0
    /\ Want("read", listed \ reads, TRUE)
    /\ UNCHANGED <<open, shown, fetchingText>>

(* Seeded bug: none of them is written.                                    *)
MarkListOnly == ListMarked /\ UNCHANGED asked

(* markListRead: they are written together.                                *)
MarkListRead == ListMarked /\ Ask(Write("readall", listed \ reads, TRUE))

(* b, about the open post or else the selected one: the bookmark that the  *)
(* reader shows is removed, or made; its map waits for the answer.         *)
ToggleBookmark(p) ==
    /\ Key
    /\ \/ open = p
       \/ open = NoPost /\ p \in listed
    /\ Ask(Write("save", {p}, p \notin saved))
    /\ Want("save", {p}, p \notin saved)
    /\ UNCHANGED <<reads, unread, open, shown, fetchingText>>

(* f: loadFullText, one at a time.                                         *)
LoadFullText ==
    /\ Key
    /\ open # NoPost /\ ~fetchingText /\ ~shown
    /\ fetchingText' = TRUE
    /\ Ask(Write("text", {open}, TRUE))
    /\ UNCHANGED <<reads, unread, open, shown, wanted, crossed>>

(* Following or moving a feed, anywhere in the reader: the counts again.   *)
ReloadFeeds ==
    /\ Key
    /\ Load("counts") \notin InFlight
    /\ Ask(Load("counts"))
    /\ crossed' = crossed \cup UNION {c.posts : c \in InFlight}
    /\ UNCHANGED <<reads, unread, open, shown, fetchingText, wanted>>

(* startLoad: any key that asks for the list again.                        *)
ReloadList ==
    /\ Key
    /\ Ask(Load("list"))
    /\ UNCHANGED <<reads, unread, open, shown, fetchingText, wanted, crossed>>

Press ==
    \/ ReloadList \/ Back \/ MarkListRead \/ LoadFullText \/ ReloadFeeds
    \/ \E p \in Posts : OpenPost(p) \/ ToggleRead(p) \/ ToggleBookmark(p)

-----------------------------------------------------------------------------
(* The store *)

Reply(c, ok, ids, n) == [cmd |-> c, ok |-> ok, ids |-> ids, n |-> n]

Leave(c, a) ==
    /\ asked' = asked (-) SetToBag({c})
    /\ answers' = answers (+) SetToBag({a})
    /\ UNCHANGED <<reads, saved, unread, open, listed, texts, shown, fetchingText,
                   keys, wanted, crossed>>

Carry(c) ==
    /\ CASE c.op = "reads" -> Leave(c, Reply(c, TRUE, stored.read, 0)) /\ UNCHANGED stored
         [] c.op = "saves" -> Leave(c, Reply(c, TRUE, stored.save, 0)) /\ UNCHANGED stored
         [] c.op = "counts" ->
              /\ Leave(c, Reply(c, TRUE, {}, Cardinality(Posts \ stored.read)))
              /\ UNCHANGED stored
         [] c.op = "list" -> Leave(c, Reply(c, TRUE, stored.text, 0)) /\ UNCHANGED stored
         [] OTHER ->
              /\ Leave(c, Reply(c, TRUE, c.posts, 0))
              /\ stored' = [stored EXCEPT ![Field(c)] =
                              IF c.on THEN @ \cup c.posts ELSE @ \ c.posts]
    /\ UNCHANGED lost

(* It fails, carried out or not: the reader cannot tell.                   *)
Fail(c) ==
    /\ Leave(c, Reply(c, FALSE, {}, 0))
    /\ lost' = lost \cup IF c.op \in Loads THEN {NoPost} ELSE c.posts
    /\ \/ UNCHANGED stored
       \/ /\ c.op \notin Loads \cup {"list"}
          /\ stored' = [stored EXCEPT ![Field(c)] =
                          IF c.on THEN @ \cup c.posts ELSE @ \ c.posts]

Serve == \E c \in BagToSet(asked) : Carry(c) \/ Fail(c)

-----------------------------------------------------------------------------
(* Answers *)

Handled(a) ==
    /\ a \in BagToSet(answers)
    /\ answers' = answers (-) SetToBag({a})
    /\ UNCHANGED <<stored, open, asked, keys, history>>

(* readsLoaded: the reads are added to the map, which is never emptied.    *)
ReadsLoaded(a) ==
    /\ Handled(a) /\ a.ok /\ a.cmd.op = "reads"
    /\ reads' = reads \cup a.ids
    /\ UNCHANGED <<saved, unread, listed, texts, shown, fetchingText>>

BookmarksLoaded(a) ==
    /\ Handled(a) /\ a.ok /\ a.cmd.op = "saves"
    /\ saved' = saved \cup a.ids
    /\ UNCHANGED <<reads, unread, listed, texts, shown, fetchingText>>

UnreadCounts(a) ==
    /\ Handled(a) /\ a.ok /\ a.cmd.op = "counts"
    /\ unread' = a.n
    /\ UNCHANGED <<reads, saved, listed, texts, shown, fetchingText>>

(* readToggled applies the read again, which does nothing if the reader    *)
(* still shows what it wrote.                                              *)
ReadToggled(a) ==
    /\ Handled(a) /\ a.ok /\ a.cmd.op = "read"
    /\ \E p \in a.cmd.posts : ApplyRead(p, a.cmd.on)
    /\ UNCHANGED <<saved, listed, texts, shown, fetchingText>>

(* allRead: the marks were made when the key was pressed.                  *)
AllRead(a) ==
    /\ Handled(a) /\ a.ok /\ a.cmd.op = "readall"
    /\ UNCHANGED <<reads, saved, unread, listed, texts, shown, fetchingText>>

BookmarkToggled(a) ==
    /\ Handled(a) /\ a.ok /\ a.cmd.op = "save"
    /\ saved' = IF a.cmd.on THEN saved \cup a.ids ELSE saved \ a.ids
    /\ UNCHANGED <<reads, unread, listed, texts, shown, fetchingText>>

(* Seeded bug: the text goes on the page of whichever post is open.        *)
FullTextShown(a) ==
    /\ Handled(a) /\ a.ok /\ a.cmd.op = "text"
    /\ fetchingText' = FALSE
    /\ texts' = texts \cup (a.ids \cap listed)
    /\ shown' = (open # NoPost)
    /\ UNCHANGED <<reads, saved, unread, listed>>

FullTextLoaded(a) ==
    /\ Handled(a) /\ a.ok /\ a.cmd.op = "text"
    /\ fetchingText' = FALSE
    /\ texts' = texts \cup (a.ids \cap listed)
    /\ shown' = (shown \/ open \in a.ids)
    /\ UNCHANGED <<reads, saved, unread, listed>>

(* postsLoaded: new items, of the posts the filter lets through.           *)
ListLoaded(a) ==
    /\ Handled(a) /\ a.ok /\ a.cmd.op = "list"
    /\ listed' \in SUBSET Posts
    /\ texts' = a.ids \cap listed'
    /\ UNCHANGED <<reads, saved, unread, shown, fetchingText>>

(* errMsg: the status line, and no fetch is under way.  What the reader    *)
(* marked before it asked stays marked.                                    *)
Failed(a) ==
    /\ Handled(a) /\ ~a.ok
    /\ fetchingText' = FALSE
    /\ UNCHANGED <<reads, saved, unread, listed, texts, shown>>

Answer ==
    \E a \in BagToSet(answers) :
        \/ ReadsLoaded(a) \/ BookmarksLoaded(a) \/ UnreadCounts(a) \/ ReadToggled(a)
        \/ AllRead(a) \/ BookmarkToggled(a) \/ FullTextLoaded(a) \/ ListLoaded(a)
        \/ Failed(a)

Next == Press \/ Serve \/ Answer

Spec == Init /\ [][Next]_vars

-----------------------------------------------------------------------------
(* Properties *)

Quiet == asked = EmptyBag /\ answers = EmptyBag

(* Once everything is answered, what the reader shows of a post is what    *)
(* the store has and what the user's last key wanted, although the reader  *)
(* marks a read before it asks and a bookmark after -- unless a write      *)
(* about the post failed, or was in flight with another command it matters *)
(* to.                                                                     *)
MarksAgree ==
    (Quiet /\ NoPost \notin lost) =>
        \A p \in Posts \ (crossed \cup lost) :
            /\ (p \in reads) = (p \in stored.read)
            /\ (p \in saved) = (p \in stored.save)
            /\ (p \in stored.read) = (p \in wanted.read)
            /\ (p \in stored.save) = (p \in wanted.save)

(* So does the count of unread posts, counted up and down beside the reads *)
(* and replaced by the store's own whenever the feeds are loaded.          *)
CountAgrees ==
    (Quiet /\ crossed = {} /\ lost = {}) =>
        unread = Cardinality(Posts \ stored.read)

(* The full text on the page is that of the post the page is about, though *)
(* the user may step on while it is fetched, and the list may be replaced  *)
(* under the page; and one the store has.                                  *)
FullTextIsOfTheOpenPost == shown => open \in stored.text

=============================================================================
