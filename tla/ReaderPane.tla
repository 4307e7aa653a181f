----------------------------- MODULE ReaderPane -----------------------------
(***************************************************************************)
(* The feed pane of the terminal reader (internal/tui): the feeds followed *)
(* and their folders, the row under the cursor, the questions asked about  *)
(* it, and the catalog feeds are picked from.                              *)
(*                                                                         *)
(* The pane shows the feeds as they were last loaded.  Every change of     *)
(* them is a command; its answer starts a load, and the answer to that     *)
(* rebuilds the rows, whatever the user is in the middle of.  As in        *)
(* ReaderMarks, the store carries a command out in one step and the reader *)
(* handles the answer in another, in any order.                            *)
(*                                                                         *)
(* Feeds and folders are numbered in the order of their names, feeds of    *)
(* one name in the order they are shown in.  The posts a row shows are in  *)
(* ReaderList.                                                             *)
(***************************************************************************)
EXTENDS Naturals, Sequences, FiniteSets, SequencesExt, Bags

CONSTANTS
    Feeds, Folders,  \* numbers
    Root,            \* no folder, the last of them
    AnyFeed,         \* no feed in particular
    NameOf,          \* the name of each feed; two may have the same
    CategoryOf,      \* the catalog: the category each feed is listed in
    MaxKeys,         \* bound: keys the user presses
    MaxAtOnce        \* bound: commands in flight when a key is pressed

ASSUME ReaderPaneAssumption ==
    /\ Feeds \subseteq Nat /\ Folders \subseteq Nat /\ IsFiniteSet(Feeds)
    /\ Root \notin Folders /\ AnyFeed \notin Feeds
    /\ \A f, g \in Feeds : f < g => NameOf[f] <= NameOf[g]
    /\ CategoryOf \in [Feeds -> Folders]

VARIABLES
    follows,    \* the store: the feeds followed, each with its folder
    feeds,      \* m.feeds, the same as last loaded
    loaded,     \* m.feedsLoaded: they have been loaded once
    expanded,   \* m.expanded
    rows,       \* m.feedList: what the pane shows
    cursor,     \* its index; past the end nothing is selected
    filter,     \* m.filter.feedID
    mode,       \* the pane, a prompt, a question, or the catalog
    about,      \* the feed a question was asked about: the prompt names it
    picked, offered,  \* in the catalog: picked, and not followed when it opened
    opening,    \* m.openOnLoad: the catalog opens with the first load
    asked, answers, keys,
    \* history, read by the properties and never by an action
    raced,      \* a load of feeds was started beside another one
    lost        \* a command failed

pane == <<feeds, loaded, expanded, rows, cursor, filter>>
screen == <<mode, about, picked, offered, opening>>
history == <<raced, lost>>
vars == <<follows, pane, screen, asked, answers, keys, history>>

Categories == Folders \cup {Root}
Follows == UNION {[fs -> Categories] : fs \in SUBSET Feeds}

-----------------------------------------------------------------------------
(* The rows *)

ViewRow(n) == [row |-> "view", of |-> n]    \* newest first, and by feed
FolderRow(n) == [row |-> "folder", of |-> n]
FeedRow(f) == [row |-> "feed", of |-> f]

(* groupFeeds: the folders by name, and those in none after them.          *)
FolderSeq(fs) ==
    LET used == {fs[f] : f \in DOMAIN fs}
    IN SetToSortSeq(used \ {Root}, <) \o IF Root \in used THEN <<Root>> ELSE << >>

HasFolders(fs) == \E f \in DOMAIN fs : fs[f] # Root

(* feedItems: two rows for every feed, then the feeds, below their folders *)
(* if there is one, where a folder is open.                                *)
RowSet(fs, open) ==
    {ViewRow(n) : n \in 1 .. 2}
    \cup {FolderRow(fs[f]) : f \in {g \in DOMAIN fs : HasFolders(fs)}}
    \cup {FeedRow(f) : f \in {g \in DOMAIN fs : HasFolders(fs) => fs[g] \in open}}

(* The order they are appended in.                                         *)
Above(fs, r, q) ==
    LET in(x) == IF x.row = "feed" THEN fs[x.of] ELSE x.of
    IN \/ r.row = "view" /\ (q.row = "view" => r.of < q.of)
       \/ /\ r.row # "view" /\ q.row # "view"
          /\ \/ in(r) # Root /\ (in(q) = Root \/ in(r) < in(q))
             \/ in(r) = in(q) /\ q.row = "feed" /\ (r.row = "feed" => r.of < q.of)

Rows(fs, open) ==
    LET all == RowSet(fs, open)
        place(r) == Cardinality({q \in all : Above(fs, q, r)}) + 1
    IN [i \in 1 .. Cardinality(all) |-> CHOOSE r \in all : place(r) = i]

Selected == IF cursor \in DOMAIN rows THEN rows[cursor] ELSE [row |-> "none", of |-> Root]
SelectedFeed == IF Selected.row = "feed" THEN Selected.of ELSE AnyFeed

(* Where a row is among rs; the cursor stays if it is not.                 *)
IndexOf(rs, row) == IF row \in ToSet(rs) THEN CHOOSE i \in DOMAIN rs : rs[i] = row ELSE cursor

Load == [op |-> "load", feeds |-> {}, folder |-> Root]
Command(op, fs, folder) == [op |-> op, feeds |-> fs, folder |-> folder]

(* The reader comes back with the feed and the folders it was left with.   *)
Init ==
    /\ follows \in Follows
    /\ feeds = << >> /\ loaded = FALSE
    /\ expanded \in SUBSET Categories
    /\ rows = Rows(feeds, {})
    /\ cursor = 1
    /\ filter \in Feeds \cup {AnyFeed}
    /\ mode = "pane" /\ about = AnyFeed /\ picked = {} /\ offered = {}
    /\ opening \in BOOLEAN
    /\ asked = SetToBag({Load})
    /\ answers = EmptyBag
    /\ keys = 0
    /\ raced = FALSE /\ lost = FALSE

-----------------------------------------------------------------------------
(* Keys *)

Key(in) ==
    /\ mode = in
    /\ keys < MaxKeys
    /\ BagCardinality(asked) + BagCardinality(answers) < MaxAtOnce
    /\ keys' = keys + 1
    /\ UNCHANGED <<follows, feeds, loaded, opening, answers, raced, lost>>

Ask(c) == asked' = asked (+) SetToBag({c})
Stay == UNCHANGED <<asked, about, picked, offered>>

Move(i) ==
    /\ Key("pane") /\ Stay
    /\ i \in DOMAIN rows
    /\ cursor' = i
    /\ UNCHANGED <<expanded, rows, filter, mode>>

(* The folders in open are unfolded and the cursor goes to row.            *)
Refold(open, row) ==
    /\ expanded' = open
    /\ rows' = Rows(feeds, open)
    /\ cursor' = IndexOf(rows', row)
    /\ UNCHANGED <<filter, mode>>

(* enter on a folder.                                                      *)
ToggleFolder ==
    /\ Key("pane") /\ Stay
    /\ Selected.row = "folder"
    /\ Refold(IF Selected.of \in expanded THEN expanded \ {Selected.of}
              ELSE expanded \cup {Selected.of}, Selected)

(* 1 to 9, or the palette: the folder, unfolded and under the cursor.      *)
OpenFolder(i) ==
    /\ Key("pane") /\ Stay
    /\ HasFolders(feeds) /\ i \in DOMAIN FolderSeq(feeds)
    /\ Refold(expanded \cup {FolderSeq(feeds)[i]}, FolderRow(FolderSeq(feeds)[i]))

(* 0 and -: every folder, the cursor on the folder it was in.              *)
RefoldAll(expand) ==
    /\ Key("pane") /\ Stay
    /\ HasFolders(feeds)
    /\ Refold(IF expand THEN ToSet(FolderSeq(feeds)) ELSE {},
              IF Selected.row = "feed" THEN FolderRow(feeds[Selected.of]) ELSE Selected)

(* [ and ]: the next folder, up or down.                                   *)
StepFolder(down) ==
    LET beyond == {i \in DOMAIN rows : /\ rows[i].row = "folder"
                                       /\ IF down THEN i > cursor ELSE i < cursor}
    IN /\ Key("pane") /\ Stay
       /\ beyond # {}
       /\ cursor' = CHOOSE i \in beyond :
                       \A j \in beyond : IF down THEN i <= j ELSE i >= j
       /\ UNCHANGED <<expanded, rows, filter, mode>>

(* enter on a feed, or on one of the rows above them.                      *)
SelectFeed ==
    /\ Key("pane") /\ Stay
    /\ Selected.row \in {"feed", "view"}
    /\ filter' = SelectedFeed
    /\ rows' = IF Selected.row = "view" THEN Rows(feeds, expanded) ELSE rows
    /\ UNCHANGED <<expanded, cursor, mode>>

(* d, or "Move this feed to a folder" in the palette.  The prompt of a     *)
(* move keeps the name it was opened with; the question before an unfollow *)
(* is drawn anew from the row that is selected.                            *)
AskAbout(question) ==
    /\ Key("pane")
    /\ Selected.row = "feed"
    /\ mode' = question
    /\ about' = Selected.of
    /\ UNCHANGED <<expanded, rows, cursor, filter, asked, picked, offered>>

(* Any key but y, or esc.                                                  *)
Cancel(question) ==
    /\ Key(question) /\ Stay
    /\ mode' = "pane"
    /\ UNCHANGED <<expanded, rows, cursor, filter>>

(* y unfollows, and the name of a folder moves, the feed that is selected  *)
(* then, if one is.                                                        *)
Confirm(question, folder) ==
    /\ Key(question)
    /\ mode' = "pane"
    /\ IF Selected.row = "feed" THEN Ask(Command(question, {Selected.of}, folder))
       ELSE UNCHANGED asked
    /\ UNCHANGED <<expanded, rows, cursor, filter, about, picked, offered>>

(* a and the address of a feed, which may be one already followed.         *)
AddFeed(f) ==
    /\ Key("pane")
    /\ Ask(Command("add", {f}, Root))
    /\ UNCHANGED <<expanded, rows, cursor, filter, mode, about, picked, offered>>

(* openCatalog: what is followed by now cannot be picked.                  *)
OpenCatalog(fs) == mode' = "catalog" /\ picked' = {} /\ offered' = Feeds \ DOMAIN fs

Catalog ==
    /\ Key("pane")
    /\ OpenCatalog(feeds)
    /\ UNCHANGED <<expanded, rows, cursor, filter, about, asked>>

(* toggleFeed, or toggleCategory for all of those at once.                 *)
Pick(fs) ==
    /\ Key("catalog")
    /\ fs # {} /\ fs \subseteq offered
    /\ picked' = IF fs \subseteq picked THEN picked \ fs ELSE picked \cup fs
    /\ UNCHANGED <<expanded, rows, cursor, filter, mode, about, offered, asked>>

(* confirmCatalog: the feeds picked, each with its category as its folder. *)
ConfirmCatalog ==
    /\ Key("catalog")
    /\ picked # {}
    /\ mode' = "pane"
    /\ Ask(Command("addmany", picked, Root))
    /\ UNCHANGED <<expanded, rows, cursor, filter, about, picked, offered>>

Press ==
    \/ ToggleFolder \/ SelectFeed \/ Catalog \/ ConfirmCatalog
    \/ \E i \in 1 .. Len(rows) : Move(i) \/ OpenFolder(i)
    \/ \E b \in BOOLEAN : RefoldAll(b) \/ StepFolder(b)
    \/ \E question \in {"move", "unfollow"} : AskAbout(question)
    \/ \E question \in {"move", "unfollow", "catalog"} : Cancel(question)
    \/ Confirm("unfollow", Root)
    \/ \E n \in Folders : Confirm("move", n)
    \/ \E f \in Feeds : AddFeed(f)
    \/ \E fs \in SUBSET Feeds : Pick(fs)

-----------------------------------------------------------------------------
(* The store *)

Leave(c, a) ==
    /\ asked' = asked (-) SetToBag({c})
    /\ answers' = answers (+) SetToBag({a})
    /\ UNCHANGED <<pane, screen, keys, raced>>

Answered(c, ok, fs) == [cmd |-> c, ok |-> ok, follows |-> fs]

(* addFeed, AddMany: fs are followed too, in no folder if they were not    *)
(* before, and those of filed in the folder of their category.             *)
Adding(fs, filed) ==
    [f \in DOMAIN follows \cup fs |->
        IF f \in filed THEN CategoryOf[f]
        ELSE IF f \in DOMAIN follows THEN follows[f] ELSE Root]

(* What carrying a command out can leave.  Of the feeds added some can be  *)
(* reached, and of those from the catalog some are filed: that failing is  *)
(* not heard of.                                                           *)
Outcomes(c) ==
    CASE c.op = "load" -> {follows}
      [] c.op = "unfollow" -> {[f \in DOMAIN follows \ c.feeds |-> follows[f]]}
      [] c.op = "move" ->
            {[follows EXCEPT ![f] = c.folder] : f \in c.feeds \cap DOMAIN follows}
      [] c.op = "add" -> {Adding(c.feeds, {})}
      [] c.op = "addmany" ->
            UNION {{Adding(some, filed) : filed \in SUBSET some} :
                      some \in SUBSET c.feeds \ {{}}}

Carry(c) ==
    /\ follows' \in Outcomes(c)
    /\ Leave(c, Answered(c, TRUE, IF c.op = "load" THEN follows ELSE << >>))
    /\ UNCHANGED lost

(* A command that failed may have been carried out all the same.           *)
Fail(c) ==
    /\ follows' \in Outcomes(c) \cup {follows}
    /\ Leave(c, Answered(c, FALSE, << >>))
    /\ lost' = TRUE

Serve == \E c \in BagToSet(asked) : Carry(c) \/ Fail(c)

-----------------------------------------------------------------------------
(* Answers *)

Handled(a) ==
    /\ a \in BagToSet(answers)
    /\ answers' = answers (-) SetToBag({a})
    /\ UNCHANGED <<follows, keys, lost, about>>

LoadInFlight ==
    \/ BagIn(Load, asked)
    \/ \E a \in BagToSet(answers) : a.cmd = Load

(* reloadFeeds *)
Reload ==
    /\ Ask(Load)
    /\ raced' = (raced \/ LoadInFlight)

(* Seeded bug: the filter stays on a feed that is gone.                    *)
SelectStoredAnyway(fs, rs) ==
    cursor' = (IF filter \in DOMAIN fs /\ FeedRow(filter) \in ToSet(rs)
               THEN IndexOf(rs, FeedRow(filter)) ELSE cursor)
    /\ UNCHANGED filter

(* Seeded bug: the cursor stays where it was.                              *)
SelectNothing(fs, rs) ==
    IF filter \in DOMAIN fs THEN UNCHANGED <<filter, cursor>>
    ELSE filter' = AnyFeed /\ UNCHANGED cursor

(* selectStoredFeed: the cursor goes to the feed of the filter, or to the  *)
(* folder it is folded into; if it is followed no more, to every feed.     *)
SelectStoredFeed(fs, rs) ==
    IF filter \in DOMAIN fs
    THEN /\ cursor' = IF FeedRow(filter) \in ToSet(rs) THEN IndexOf(rs, FeedRow(filter))
                      ELSE IndexOf(rs, FolderRow(fs[filter]))
         /\ UNCHANGED filter
    ELSE filter' = AnyFeed /\ UNCHANGED cursor

FeedsLoaded(a) ==
    /\ Handled(a) /\ a.ok /\ a.cmd.op = "load"
    /\ feeds' = a.follows /\ loaded' = TRUE
    /\ rows' = Rows(a.follows, expanded)
    /\ SelectStoredFeed(a.follows, rows')
    /\ opening' = FALSE
    /\ IF opening THEN OpenCatalog(a.follows) ELSE UNCHANGED <<mode, picked, offered>>
    /\ UNCHANGED <<expanded, asked, raced>>

(* The feed of the filter is known by its name here.                       *)
Unfollowed(a) ==
    /\ Handled(a) /\ a.ok /\ a.cmd.op = "unfollow"
    /\ IF filter # AnyFeed /\ \E f \in a.cmd.feeds : NameOf[f] = NameOf[filter]
       THEN filter' = AnyFeed /\ cursor' = 1
       ELSE UNCHANGED <<filter, cursor>>
    /\ Reload
    /\ UNCHANGED <<feeds, loaded, expanded, rows, mode, picked, offered, opening>>

(* feedCategorized: its folder unfolds, once the feeds are loaded.         *)
Moved(a) ==
    /\ Handled(a) /\ a.ok /\ a.cmd.op = "move"
    /\ expanded' = expanded \cup {a.cmd.folder}
    /\ Reload
    /\ UNCHANGED <<feeds, loaded, rows, cursor, filter, mode, picked, offered, opening>>

(* Seeded bug: what was added is not loaded.                               *)
AddedOnly(a) ==
    /\ Handled(a) /\ a.ok /\ a.cmd.op \in {"add", "addmany"}
    /\ UNCHANGED <<pane, mode, picked, offered, opening, asked, raced>>

Added(a) ==
    /\ Handled(a) /\ a.ok /\ a.cmd.op \in {"add", "addmany"}
    /\ Reload
    /\ UNCHANGED <<pane, mode, picked, offered, opening>>

Failed(a) ==
    /\ Handled(a) /\ ~a.ok
    /\ UNCHANGED <<pane, mode, picked, offered, opening, asked, raced>>

Answer ==
    \E a \in BagToSet(answers) :
        FeedsLoaded(a) \/ Unfollowed(a) \/ Moved(a) \/ Added(a) \/ Failed(a)

Next == Press \/ Serve \/ Answer

Spec == Init /\ [][Next]_vars

-----------------------------------------------------------------------------
(* Properties *)

(* Once everything is answered the pane shows the feeds the store has, in  *)
(* their folders -- unless a command failed, or two loads were in flight   *)
(* together and the earlier one came in last.                              *)
PaneAgrees ==
    (asked = EmptyBag /\ answers = EmptyBag /\ ~raced /\ ~lost) =>
        feeds = follows /\ rows = Rows(feeds, expanded)

(* From the first load on, the posts are never those of a feed the pane    *)
(* does not have, where no row could lead the user back.                   *)
FilterIsInThePane == loaded => filter \in DOMAIN feeds \cup {AnyFeed}

(* A question about the feed whose posts are shown is not lost: whatever   *)
(* is loaded while the reader asks where to move it, or whether to         *)
(* unfollow it, the cursor is on it as long as it has a row, and so the    *)
(* answer is about the feed that was asked about.  It says nothing of a    *)
(* question about another feed: a load may put another row under the       *)
(* cursor then.                                                            *)
QuestionOutlivesLoads ==
    (mode \in {"move", "unfollow"} /\ filter = about
        /\ FeedRow(about) \in ToSet(rows)) => SelectedFeed = about

=============================================================================
