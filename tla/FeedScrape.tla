----------------------------- MODULE FeedScrape -----------------------------
(***************************************************************************)
(* One feed in the database, and who touches it: scrapes of it (Scrape in  *)
(* internal/feeds/feeds.go, run by the aggregator and by a local reader's  *)
(* refresh, so two at once), the prune that follows a pass of the          *)
(* aggregator or is a command (prune.go), and refetch (refetch.go).        *)
(*                                                                         *)
(* A scrape reads the feed's row, and later asks the publisher; then every *)
(* step is one statement, with no transaction around them, so other        *)
(* scrapes and prunes interleave with it and it may end between any two.   *)
(*                                                                         *)
(* The publisher is outside: it serves one edition after another, each a   *)
(* list of articles under one validator, and may move to another address.  *)
(* An article stands for its URL, the key of the table posts.              *)
(***************************************************************************)
EXTENDS Naturals, FiniteSets, SequencesExt

CONSTANTS
    Scrapers,       \* processes that scrape the feed
    Aggregator,     \* the one that does so again and again
    Articles,
    Published,      \* the date each article carries, or Undated
    Editions,       \* what the publisher serves, one list of articles after another
    Unstamped,      \* editions served without ETag and Last-Modified
    Shared,         \* articles that another feed lists too
    Savable,        \* articles that somebody bookmarks
    Homes,          \* addresses of the feed, in the order it moves
    Temporary,      \* addresses it is sent to by a temporary redirect
    Occupied,       \* addresses that another row of feeds has
    Retention,      \* DefaultPolicy: how old a post may be pruned,
    Keep,           \* and how many of the newest are kept
    Policies,       \* policies the prune command is given
    MaxTime,        \* bound on the clock
    MaxFaults       \* bound on what goes wrong

Undated == 0
Absent == 0         \* no post
NoCutoff == 0
NotModified == 0    \* no edition
Unknown == 0        \* no validator
DefaultPolicy == [age |-> Retention, keep |-> Keep]
HomeNumbers == 1 .. Homes
EditionNumbers == 1 .. Len(Editions)

ASSUME FeedAssumption ==
    /\ Aggregator \in Scrapers
    /\ IsFiniteSet(Articles)
    /\ Published \in [Articles -> Nat]
    /\ Editions \in Seq(Seq(Articles)) /\ Editions # <<>>
    /\ Shared \subseteq Articles
    /\ Homes \in Nat \ {0} /\ MaxTime \in Nat \ {0} /\ MaxFaults \in Nat
    /\ Retention \in Nat \ {0} /\ Keep \in Nat \ {0}
    /\ Policies \subseteq [age : Nat, keep : Nat]

VARIABLES
    now,        \* the clock
    edition,    \* the edition the publisher serves
    home,       \* and where
    url,        \* feeds.url
    validator,  \* feeds.etag and feeds.last_modified
    broken,     \* feeds.failure_count > 0
    posts,      \* the date each post of the feed is ranked by, or Absent
    saved,      \* posts with a row in bookmarks
    elsewhere,  \* articles of Shared that are posts of another feed
    pc,         \* where each scrape is
    job,        \* and what it holds
    faults,     \* how often something went wrong
    \* history, read by the properties and never by an action
    pruned,     \* articles the retention policy deleted and no scrape put back
    aware,      \* the value of pruned when a scrape looked at the window
    thinned,    \* scrapes during which a stricter prune deleted something
    holed       \* editions not stored in full, or thinned since

publisher == <<edition, home>>
row == <<url, validator, broken>>
table == <<posts, saved, elsewhere>>
history == <<pruned, aware, thinned, holed>>
vars == <<now, publisher, row, table, pc, job, faults, history>>

Holding(e, items, date) ==
    [url |-> 1, known |-> Unknown, got |-> e, landed |-> 1,
     todo |-> items, cutoff |-> date]

Idle == Holding(NotModified, <<>>, NoCutoff)

Job == [url : HomeNumbers, known : {Unknown} \cup EditionNumbers,
        got : {NotModified} \cup EditionNumbers, landed : HomeNumbers,
        todo : Seq(Articles), cutoff : Nat]

TypeOK ==
    /\ now \in 1 .. MaxTime
    /\ edition \in EditionNumbers /\ home \in HomeNumbers
    /\ url \in HomeNumbers
    /\ validator \in {Unknown} \cup EditionNumbers
    /\ broken \in BOOLEAN
    /\ posts \in [Articles -> Nat]
    /\ saved \subseteq {a \in Articles : posts[a] # Absent}
    /\ elsewhere \subseteq {a \in Shared : posts[a] = Absent}
    /\ pc \in [Scrapers -> {"idle", "fetch", "failed", "answered", "move",
                            "validators", "window", "store"}]
    /\ job \in [Scrapers -> Job]
    /\ \A s \in Scrapers :
          /\ pc[s] \in {"validators", "window", "store"} => job[s].got # NotModified
          /\ pc[s] # "store" => job[s].todo = <<>>
    /\ faults \in 0 .. MaxFaults
    /\ pruned \subseteq {a \in Articles : posts[a] = Absent}
    /\ aware \in [Scrapers -> SUBSET Articles]
    /\ thinned \subseteq Scrapers
    /\ holed \subseteq EditionNumbers

\* A feed that was just added: its row holds the address and nothing else.
Init ==
    /\ now = 1 /\ edition = 1 /\ home = 1
    /\ url = 1 /\ validator = Unknown /\ broken = FALSE
    /\ posts = [a \in Articles |-> Absent]
    /\ saved = {} /\ elsewhere = {}
    /\ pc = [s \in Scrapers |-> "idle"]
    /\ job = [s \in Scrapers |-> Idle]
    /\ faults = 0
    /\ pruned = {} /\ thinned = {} /\ holed = {}
    /\ aware = [s \in Scrapers |-> {}]

Stored == {a \in Articles : posts[a] # Absent}

Goto(s, place) == pc' = [pc EXCEPT ![s] = place]
GoHome(s) ==
    /\ Goto(s, "idle")
    /\ job' = [job EXCEPT ![s] = Idle]
    /\ aware' = [aware EXCEPT ![s] = {}]
    /\ thinned' = thinned \ {s}

\* Something goes wrong, one more time.
Mishap == faults < MaxFaults /\ faults' = faults + 1

-----------------------------------------------------------------------------
(* A scrape. *)

\* scrape: the rows of all feeds are read first, and each is fetched later.
Begin(s) ==
    /\ pc[s] = "idle"
    /\ Goto(s, "fetch")
    /\ job' = [job EXCEPT ![s] = [@ EXCEPT !.url = url, !.known = validator]]
    /\ UNCHANGED <<now, publisher, row, table, faults, history>>

\* Where a request for this address ends up, if every hop on the way is for
\* good; a temporary one leaves the scrape with the address it asked for.
Landing(from) == IF home \in Temporary THEN from ELSE home

\* The publisher answers that nothing changed, or in full.
Fetch(s) ==
    /\ pc[s] = "fetch"
    /\ Goto(s, "answered")
    /\ job' = [job EXCEPT ![s] =
                  [@ EXCEPT !.landed = Landing(job[s].url),
                            !.got = IF job[s].known = edition
                                    THEN NotModified ELSE edition]]
    /\ UNCHANGED <<now, publisher, row, table, faults, history>>

\* No answer, an error status, or something that is no feed.
FetchFails(s) ==
    /\ pc[s] = "fetch"
    /\ Mishap
    /\ Goto(s, "failed")
    /\ UNCHANGED <<now, publisher, row, table, job, history>>

\* The errors of markFailed and markHealthy are ignored.
MarkFailed(s) ==
    /\ pc[s] = "failed"
    /\ \/ broken' = TRUE /\ faults' = faults
       \/ broken' = broken /\ Mishap
    /\ GoHome(s)
    /\ UNCHANGED <<now, publisher, url, validator, table, pruned, holed>>

\* Seeded bug: a feed is healthy only when it has something new.
MarkHealthyIfNew(s) ==
    /\ pc[s] = "answered"
    /\ \/ broken' = (broken /\ job[s].got = NotModified) /\ faults' = faults
       \/ broken' = broken /\ Mishap
    /\ Goto(s, "move")
    /\ UNCHANGED <<now, publisher, url, validator, table, job, history>>

MarkHealthy(s) ==
    /\ pc[s] = "answered"
    /\ \/ broken' = FALSE /\ faults' = faults
       \/ broken' = broken /\ Mishap
    /\ Goto(s, "move")
    /\ UNCHANGED <<now, publisher, url, validator, table, job, history>>

\* Seeded bug: an answer without a body ends the scrape before the move.
MoveIfNew(s) ==
    /\ pc[s] = "move"
    /\ url' = IF /\ job[s].got # NotModified
                 /\ job[s].landed # job[s].url /\ job[s].landed \notin Occupied
              THEN job[s].landed ELSE url
    /\ IF job[s].got = NotModified
       THEN GoHome(s)
       ELSE Goto(s, "validators") /\ UNCHANGED <<job, aware, thinned>>
    /\ UNCHANGED <<now, publisher, validator, broken, table, faults, pruned, holed>>

\* rememberMove: the address is compared with the one read at the start.
RememberMove(s) ==
    /\ pc[s] = "move"
    /\ url' = IF job[s].landed # job[s].url /\ job[s].landed \notin Occupied
              THEN job[s].landed ELSE url
    /\ IF job[s].got = NotModified
       THEN GoHome(s)
       ELSE Goto(s, "validators") /\ UNCHANGED <<job, aware, thinned>>
    /\ UNCHANGED <<now, publisher, validator, broken, table, faults, pruned, holed>>

Stamp(e) == IF e \in Unstamped THEN Unknown ELSE e

\* The validators are saved before any post, and only when they differ from
\* the ones read at the start.
SaveValidators(s) ==
    /\ pc[s] = "validators"
    /\ validator' = IF Stamp(job[s].got) # job[s].known
                    THEN Stamp(job[s].got) ELSE validator
    /\ Goto(s, "window")
    /\ UNCHANGED <<now, publisher, url, broken, table, job, faults, history>>

\* Seeded bug: the offset of the cutoff is one too high.
CutoffTooLow(date) ==
    \/ date = NoCutoff /\ Cardinality(Stored) < Keep + 1
    \/ /\ date # NoCutoff
       /\ Cardinality({b \in Stored : posts[b] >= date}) >= Keep + 1
       /\ Cardinality({b \in Stored : posts[b] > date}) < Keep + 1

\* GetFeedKeepCutoff: the date of the keep-th newest post, if there is one.
IsCutoff(date) ==
    \/ date = NoCutoff /\ Cardinality(Stored) < Keep
    \/ /\ date # NoCutoff
       /\ Cardinality({b \in Stored : posts[b] >= date}) >= Keep
       /\ Cardinality({b \in Stored : posts[b] > date}) < Keep

\* What the rest of the scrape does not read is forgotten.
StartsStoring(s, cutoff) ==
    job' = [job EXCEPT ![s] = Holding(@.got, Editions[@.got], cutoff)]

\* prunableBefore, with the items of the answer ahead.  A query that fails
\* leaves the scrape without a cutoff.
LookAtWindow(s) ==
    /\ pc[s] = "window"
    /\ Goto(s, "store")
    /\ \/ /\ \E date \in {NoCutoff} \cup {posts[a] : a \in Stored} :
                IsCutoff(date) /\ StartsStoring(s, date)
          /\ aware' = [aware EXCEPT ![s] = pruned]
          /\ faults' = faults
       \/ StartsStoring(s, NoCutoff) /\ Mishap /\ UNCHANGED aware
    /\ UNCHANGED <<now, publisher, row, table, pruned, thinned, holed>>

\* Seeded bug: an item is judged by its rank alone.
WorthlessIfOutranked(a, cutoff) ==
    /\ Published[a] # Undated
    /\ cutoff # NoCutoff
    /\ Published[a] < cutoff

\* An item that the next prune would delete.
Worthless(a, cutoff) ==
    /\ Published[a] # Undated
    /\ Published[a] + Retention < now
    /\ cutoff # NoCutoff
    /\ Published[a] < cutoff

\* Seeded bug: the URL of a post is unique in its feed only.
PutBeside(a) ==
    IF posts[a] # Absent
    THEN UNCHANGED <<posts, pruned>>
    ELSE /\ posts' = [posts EXCEPT ![a] =
                         IF Published[a] = Undated THEN now ELSE Published[a]]
         /\ pruned' = pruned \ {a}

\* CreatePost, unless the post is there already, in this feed or another.
Put(a) ==
    IF posts[a] # Absent \/ a \in elsewhere
    THEN UNCHANGED <<posts, pruned>>
    ELSE /\ posts' = [posts EXCEPT ![a] =
                         IF Published[a] = Undated THEN now ELSE Published[a]]
         /\ pruned' = pruned \ {a}

\* The next item of the answer.
Store(s) ==
    /\ pc[s] = "store" /\ job[s].todo # <<>>
    /\ LET a == Head(job[s].todo)
       IN  IF Worthless(a, job[s].cutoff) THEN UNCHANGED <<posts, pruned>> ELSE Put(a)
    /\ job' = [job EXCEPT ![s].todo = Tail(@)]
    /\ UNCHANGED <<now, publisher, row, saved, elsewhere, pc, faults, aware,
                   thinned, holed>>

\* The answer is stored in full.
Finish(s) ==
    /\ pc[s] = "store" /\ job[s].todo = <<>>
    /\ holed' = IF s \in thinned THEN holed ELSE holed \ {job[s].got}
    /\ GoHome(s)
    /\ UNCHANGED <<now, publisher, row, table, faults, pruned>>

\* A statement fails, the command is stopped, or its process ends.
GiveUp(s) ==
    /\ pc[s] # "idle"
    /\ Mishap
    /\ holed' = IF pc[s] = "window" \/ job[s].todo # <<>>
                THEN holed \cup {job[s].got} ELSE holed
    /\ GoHome(s)
    /\ UNCHANGED <<now, publisher, row, table, pruned>>

-----------------------------------------------------------------------------
(* The other statements on the feed. *)

\* The newest posts, as many as are kept: posts of one date in any order,
\* as the rank goes by the random id then.
IsNewest(top, n) ==
    /\ Cardinality(top) = n \/ (top = Stored /\ Cardinality(top) < n)
    /\ \A a \in top, b \in Stored \ top : posts[a] >= posts[b]

Stricter(policy) == policy.age < Retention \/ policy.keep < Keep

\* Prune with the policy of the aggregator, which ends each of its passes, or
\* with another given to the command.
Prune(policy) ==
    /\ policy.age > 0
    /\ \E top \in SUBSET Stored :
          /\ IsNewest(top, policy.keep)
          /\ LET gone == {a \in Stored \ (top \cup saved) :
                             posts[a] + policy.age < now}
             IN  /\ gone # {}
                 /\ posts' = [a \in Articles |->
                                 IF a \in gone THEN Absent ELSE posts[a]]
                 /\ IF Stricter(policy)
                    THEN /\ pruned' = {}
                         /\ thinned' = {s \in Scrapers : pc[s] # "idle"}
                         /\ holed' = EditionNumbers
                         /\ aware' = [s \in Scrapers |-> {}]
                    ELSE /\ pruned' = pruned \cup gone
                         /\ UNCHANGED <<thinned, holed, aware>>
    /\ UNCHANGED <<now, publisher, row, saved, elsewhere, pc, job, faults>>

\* Refetch forgets the validators of a feed with few posts, or of all.  (It
\* passes over feeds that nobody follows.)
Forget ==
    /\ validator # Unknown
    /\ validator' = Unknown
    /\ UNCHANGED <<now, publisher, url, broken, table, pc, job, faults, history>>

Bookmark(a) ==
    /\ a \in Savable /\ posts[a] # Absent /\ a \notin saved
    /\ saved' = saved \cup {a}
    /\ UNCHANGED <<now, publisher, row, posts, elsewhere, pc, job, faults, history>>

Unbookmark(a) ==
    /\ a \in saved
    /\ saved' = saved \ {a}
    /\ UNCHANGED <<now, publisher, row, posts, elsewhere, pc, job, faults, history>>

\* A scrape of another feed stores an article both list, and a prune takes it.
OtherFeedStores(a) ==
    /\ a \in Shared /\ posts[a] = Absent
    /\ elsewhere' = elsewhere \cup {a}
    /\ UNCHANGED <<now, publisher, row, posts, saved, pc, job, faults, history>>

OtherFeedPrunes(a) ==
    /\ a \in elsewhere
    /\ elsewhere' = elsewhere \ {a}
    /\ UNCHANGED <<now, publisher, row, posts, saved, pc, job, faults, history>>

Publish ==
    /\ edition < Len(Editions)
    /\ edition' = edition + 1
    /\ UNCHANGED <<now, home, row, table, pc, job, faults, history>>

Relocate ==
    /\ home < Homes
    /\ home' = home + 1
    /\ UNCHANGED <<now, edition, row, table, pc, job, faults, history>>

Tick ==
    /\ now < MaxTime
    /\ now' = now + 1
    /\ UNCHANGED <<publisher, row, table, pc, job, faults, history>>

Proceed(s) ==
    \/ Fetch(s) \/ MarkFailed(s) \/ MarkHealthy(s) \/ RememberMove(s)
    \/ SaveValidators(s) \/ LookAtWindow(s) \/ Store(s) \/ Finish(s)

Next ==
    \/ \E s \in Scrapers : Begin(s) \/ Proceed(s) \/ FetchFails(s) \/ GiveUp(s)
    \/ \E policy \in Policies \cup {DefaultPolicy} : Prune(policy)
    \/ \E a \in Articles :
          Bookmark(a) \/ Unbookmark(a) \/ OtherFeedStores(a) \/ OtherFeedPrunes(a)
    \/ Forget \/ Publish \/ Relocate \/ Tick

Spec == Init /\ [][Next]_vars

\* A scrape under way goes on, as its queries and its request have timeouts,
\* and the aggregator's ticker starts the next one.
FairSpec ==
    /\ Spec
    /\ \A s \in Scrapers : WF_vars(Proceed(s))
    /\ WF_vars(Begin(Aggregator))

-----------------------------------------------------------------------------
(* Properties. *)

\* Deleting the article could be right: it is past the retention and as many
\* posts as are kept are at least as new.
Prunable(a) ==
    /\ Published[a] # Undated /\ Published[a] + Retention < now
    /\ Cardinality({b \in Stored : posts[b] >= Published[a]}) >= Keep

Accounted(a) ==
    \/ posts[a] # Absent
    \/ Prunable(a)
    \/ Published[a] = Undated /\ a \in pruned
    \/ a \in Shared

Storing(e) == \E s \in Scrapers : pc[s] \in {"window", "store"} /\ job[s].got = e

\* What the next conditional request will not ask for again is there: each
\* article of the edition whose validators are saved is a post, or one that the
\* retention policy does not keep, unless a scrape of that edition was cut off
\* or a stricter prune came, and until it is scraped in full again.
NothingMissed ==
    \A e \in EditionNumbers :
        validator = e /\ ~Storing(e) /\ e \notin holed
        => \A a \in ToSet(Editions[e]) : Accounted(a)

\* What the retention policy deleted does not come back: a scrape that looked
\* at the window after the prune does not insert it, except an article without
\* a date, or one of the date of the cutoff.
PrunedStaysOut ==
    [][\A s \in Scrapers :
          Store(s) => LET a == Head(job[s].todo)
                      IN  a \in aware[s] /\ posts[a] # posts'[a]
                          => Published[a] \in {Undated, job[s].cutoff}]_vars

\* What the publisher serves in the end is accounted for, with all scrapes
\* under way done, unless the edition was cut off.
NewsArrives == <>[](edition \in holed \/ \A a \in ToSet(Editions[edition]) : Accounted(a))

\* A feed that is answered again is not left marked as failing, whichever of
\* two scrapes wrote last.
HealthHeals == <>[](~broken)

\* A feed that has moved for good is in the end asked for where it lives now.
FollowsMoves ==
    <>[](url = home \/ home \in Occupied \cup Temporary)
=============================================================================
