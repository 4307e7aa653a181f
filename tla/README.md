# gator: specifications and proofs

gator is a feed reader for the terminal. It runs against a local database, or
against a gator server over HTTP, in which case it keeps an offline cache and a
queue of changes. This directory holds TLA+ models of its parts, the TLC
configurations that check them, and proofs checked by TLAPS.

    tlc -config offline_core.cfg MCOfflineStore.tla     # one run
    tlapm OfflineStoreProofs.tla                        # one module of proofs

## The system

| Part | State | Operations | Hard to test | Modelled in |
| --- | --- | --- | --- | --- |
| Offline store (`store/offline`) | snapshot, queue, `online`, `flushing` in memory; `.gator-cache.json` and `.gator-queue.jsonl` | every method of the store, `Sync`, `State` | calls overlap; the queue moves while a flush holds a clone of it; two files written in turn; the process may end anywhere | `OfflineStore` |
| Its cache (`cache.go`, `filter.go`) | posts, follows, marks, counts | merge, apply, select | Go must answer as SQL does; marks made twice, or of posts it lacks | `OfflineCache`, `PostQueries`, `Patterns` |
| Remote store (`store/remote`) | address, token, cached user | one HTTP request a method; `AddFeeds` with eight workers | a request carried out whose answer is lost | `OfflineStore` (what a request comes to) |
| Registration and invites (`api/auth.go`, `cli/invite.go`) | tables `invites`, `users`, `api_tokens` | register, log in; create, list, revoke a link | several statements and no transaction; a client that hangs up; a server that stops | `Registration` |
| Session (`cli/remote.go`, `cli/users.go`, `config`, `credentials`) | two files in the home directory, tokens | login, register, logout, init, opening | files written in turn, from several terminals | `Session` |
| API server and local store (`api`, `store/local`, `database`) | the database | feeds, follows, posts, reads, bookmarks | operations of several statements and no transaction, of several accounts | `Library`, `PostQueries` |
| Fake store (`store/storetest`) | one shelf | the same interface | what every layer's tests rely on | `Shelves` |
| Feeds (`feeds`, `rss`) | feeds, posts, validators | scrape, add, prune, refetch | validators saved before posts; two scrapers; retention against re-insertion | `FeedScrape`, `Library` |
| Aggregator, supervisor (`cli/feeds.go`, `cli/service.go`) | the pause | run, restart | backing off, stopping | `FeedScrape` (the passes) |
| Reader (`tui`) | one model, commands under way | keys, messages | answers that arrive out of order | `ReaderList`, `ReaderMarks`, `ReaderPane` |
| Conversions (`article`, `text`, `opml`, `catalog`, `wire`, `auth`, `theme`) | none | pure | nothing concurrent | |

The reader and the commands call a `store.Store`. Locally that is the local
store. Remotely it is the offline store around the remote store, which talks to
the API server, which calls a local store of its own. The server and the
operator's commands (`invite`, `reset`, `agg`, `prune`) share the database and
nothing else. Session decides which of the two stores a command gets.

What makes each part correct:

- offline store: a change the user was told is saved reaches the server, in
  order, or its loss is reported; ending the process loses nothing; one flush at
  a time; the queue is bounded; once the server is back the queue drains and the
  cache converges.
- its cache: offline the reader sees what the server would say, and keeps seeing
  it after marking things.
- registration: a link makes one account; a revoked one makes none; a link is
  not spent for nothing; an account can be traced to its link.
- session: the token and the address go together; a command that succeeded has
  done what it says.
- library: accounts share tables and do not notice each other.
- feeds: what was fetched is stored; what is pruned does not come back; what is
  bookmarked stays.
- reader: what is on screen is what was asked for last, and what the store has.

## Modules

| Module | What it is |
| --- | --- |
| `OfflineStore` | the offline store, its files, the server behind it and the calls inside it |
| `Outbox` | abstract: what the store promises about queued changes |
| `OfflineOutbox` | the refinement mapping from the store to the outbox |
| `OfflineStoreProofs` | theorems about the store |
| `Patterns` | what a name or a word finds: `ILIKE` for the database, `strings.Contains` for the snapshot |
| `PostQueries` | the SQL that reads posts, as operators on one account's shelf, and the Go that stands in for it |
| `OfflineCache` | the contents of the snapshot, and its answers beside the server's |
| `Library` | the local store and the API on tables that several accounts share |
| `StoreProofs` | theorems about `Library` and `OfflineCache`, and about what one is to the other |
| `Shelves` | abstract: the fake store, one shelf an account |
| `Registration`, `RegistrationProofs` | invites and registrations, and theorems about them |
| `Session`, `SessionProofs` | who gator is signed in as, and theorems about it |
| `FeedScrape` | one feed: scrapes of it, prunes, refetches, bookmarks, and its publisher |
| `FeedScrapeProofs` | theorems about the feed |
| `ReaderList`, `ReaderMarks`, `ReaderPane` | the reader: the list of posts, what is shown about a post, the feeds |
| `ReaderListProofs`, `ReaderMarksProofs`, `ReaderPaneProofs` | theorems about each of them |
| `MC...` | each of them on small instances |

Definitions whose comment begins "Seeded bug" are faulty variants of the
definition that follows them. No specification uses them; a property is known to
bite because putting the variant in its place violates it.

### OfflineStore

A call is a goroutine inside the store. `pc` says where it is, and its steps are
the critical sections of the code and the requests between them:

| Action | Code |
| --- | --- |
| `Write`, `Read`, `Other` | the call to the inner store that opens every method |
| `Answered`, `AnsweredCancelled` | `answered`, up to the drain |
| `Drain`, `Unflag` | the two critical sections of `drain` |
| `Clone`, `Send`, `SendsOver`, `Settle` | `flush`: the clone, one request each, the end of the loop, `queue.sent` with its rewrite |
| `FinishRead` | the end of a read the server answered: `update` and its save |
| `FinishPlain` | the end of a call that leaves nothing behind: a write the server answered, a read from the cache |
| `Enqueue` | `enqueue`, with `queue.add`, `snapshot.apply` and the save |
| `EnqueueTorn`, `EnqueueUnclosed`, `EnqueueUnwritten` | `enqueue` when the append stops part-way, the file does not close (the whole line is in it, and the caller is told that it failed), or the rewrite fails |
| `StartSync` ... `SyncEnd` | `Sync`, which drains, notes the counts, reads every view and clears the count of losses |
| `Restart` | the process ends anywhere; `Wrap` reads the files |
| `Outage` | the server goes away or comes back |

The data is abstract. A change is a number and the set of items it sets: an item
is the read mark or the bookmark of a post, or the folder of a feed. A value is
the number of the change that set it, so "newer" is "greater". A read answers
for a set of items (`Views`). The opposite marks that two changes leave on one
item are thereby told apart without saying which is which.

`sync` is a command of its own, so no other call starts beside it. The requests
follow `remote.do`: a transport error of any kind is "unreachable", whether or
not the server acted on the request, and a broken body is an error.

Faults are a constant, a set of kinds, so that a run says which of them it
allows: `outage`, `lostreply`, `error`, `gone`, `cancel`, `torn`, `close`,
`rewrite`, `halfsave`.

### Outbox and its refinement

`Outbox` has a sequence of changes owed, the changes ever taken, those settled
and a count of losses admitted. Changes settle oldest first; a settled one may
settle again; the box may let go of its front only if whatever it lets go of is
settled or counted. `OfflineOutbox` maps the queue in memory to the box,
delivered and refused changes to the settled ones, and the count in the snapshot
together with what syncs have reported to the losses admitted.

### Patterns, PostQueries and OfflineCache

A shelf is what the database has for one account: its posts, follows (a feed and
a folder), reads and bookmarks. `PostQueries` gives the lists of the store on it,
each from its SQL statement: filter, digest, order, page. `OfflineCache` holds the
same shelf as the server's truth and beside it the snapshot, with the fields and
the caps of `snapshot`, and translates `mergePosts`, `apply`, `countUnread` and
`selectPosts` from the Go. `Agrees` says that the snapshot holds what a shelf does,
`Coming` is the shelf the server will have once it has the queue. What `OfflineStore`
takes apart (overlapping calls, files, lost answers) is one step here; what it
abstracts (the data) is all here.

| Action | Code |
| --- | --- |
| `WriteOnline`, `WriteOffline` | a mark, a bookmark, a category, a list of reads, with or without the server |
| the reads | one view answered by the server and merged into the snapshot |
| `Sync` | every view in the order `Sync` reads them, after the drain |
| `Elsewhere` | another client of the account, the aggregator, a prune: the moves (`Moved`) that `Library` can make, as one account sees them |
| `Outage` | the server goes away or comes back |

A query has a set of answers, since the time of a post is no key: what an
`ORDER BY` leaves open the database answers as it likes, and a stable sort by what
it was given. An order is a set of pairs (`ByTime`, `ByFeed`), and `Listings` are
the lists of a set that put no post after one it comes before. The digest ranks
the posts of a feed in one listing and shows them in another.

The two sides are translated apart, and disagree:

- `Selected` and `Searched` match as the SQL does, `ILIKE '%' || word || '%'`, in
  which `_`, `%` and `\` of the word are pattern characters (`posts.sql.go:155`,
  `229`, `330`). `Found` matches as the Go does, with `strings.Contains`
  (`filter.go:30`, `94`). A text is a sequence of letters, and the upper and lower
  case of a letter are one.
- `GetPostDigestForUser` breaks a tie between feeds by the place of their names in
  the database's collation (`Collated`, `posts.sql.go:163`), `SelectPosts` by that
  of their names in lower case (`Lowered`, `filter.go:77`).
- The bookmarks have an order: at the server the last saved comes first (`after`,
  `bookmarks.sql.go:112`), in the snapshot one saved offline is appended (`above`,
  `cache.go:128`). The repository's README lists them "newest first" (line 336),
  which a bookmark made offline is not until the next sync.

`SameAnswers` and `ChangesForeseen` name these as their exceptions, and say of
each how far it goes.

### Library and Shelves

An operation of one statement is one action. Adding a feed, following one,
filing one and storing a full text take several statements, and are calls
with a stage: `create`, `follow`, `check`, `set`. Between two stages the
statements of other calls come in; an unfollow, a prune and the same account in
a second client among them. `Shelves` is the fake store that the tests of every
layer run against, one shelf an account. `Library` implements it, variable by
variable; a stage that changes nothing an account can see is a stutter.

### Registration

A registration is one request through `register`, one action a query: `Begin`
(checks, hash, the time), `Claim`, `Refuse`, `Create`, `Release`, `Record`,
`IssueToken`. `CreateInvite`, `Revoke`, `Reset` are the operator's commands,
`Expire` is time, `Crash` stops the server. The account a request makes carries
the request's name, so accounts are a set of requests.

A query ends in three ways: done, failed, or carried out with its answer lost.
Queries in the request's context meet the last two when the client hangs up
(`cancel`); the ones the code takes out of that context meet them only when the
database fails (`db`).

### FeedScrape

One row of `feeds`, its posts, and everybody who touches them. A scrape is a pass
of the aggregator or a reader's refresh; `pc` says where in `Scrape` it is, and
each of its steps is one statement, or the request:

| Action | Code |
| --- | --- |
| `Begin` | the query for all feeds, whose rows the scrapes work from |
| `Fetch`, `FetchFails` | `rss.FetchFeed`: not modified, an edition, an error |
| `MarkHealthy`, `MarkFailed` | the statements of these names, whose errors are ignored |
| `RememberMove` | `rememberMove`, and the return when nothing was modified |
| `SaveValidators` | the comparison with the old validators, `SaveFeedValidators` |
| `LookAtWindow` | `prunableBefore`, `GetFeedKeepCutoff` |
| `Store`, `Finish` | one item of the loop: `worthless`, or `CreatePost`; its end |
| `GiveUp` | any return on an error, a cancelled context, the end of the process |
| `Prune` | `PrunePosts` with the policy of the aggregator or one of the command's |
| `Forget` | `ForgetFeedValidators` (`gator refetch`) |
| `Bookmark`, `Unbookmark`, `OtherFeedStores`, `OtherFeedPrunes` | what other statements do to its posts |
| `Publish`, `Relocate`, `Tick` | the publisher and the clock |

The publisher serves one edition after another, each a list of articles under
one validator (`Unstamped`: under none). An article stands for its URL, the key of
`posts`; one in `Shared` is in another feed too and belongs to whichever stored
it first. Dates are clock readings, all in one zone, as `wallClock` makes them. An
article without a date is `Undated` and ranked by the time it was stored. Which
feeds a refresh picks, and the order of the feeds in a pass, do not matter to one
feed and are left out; so are followers: a refetch and a bookmark, which ask for
one, may happen here at any time. A scrape uses `DefaultPolicy`, as both callers
do; the branches of `prunableBefore` for a policy without retention or without a
number to keep are therefore not reached. A statement is one step, whatever the
database does inside it.

`pruned`, `aware`, `thinned` and `holed` are history: what the retention policy
deleted, what of it a scrape could know of, and whether a stricter prune or a
stop came in between. They are read by properties only. A policy that keeps
fewer posts, or for a shorter time, than the aggregator's is `Stricter`; nothing
is claimed about what it deletes until the editions are scraped in full again.

### Session

A command is a process that reads and writes two files, one write an action:
login (`Login`, `SaveCredentials`, `ReadConfig`, `SaveConfig`), logout (`Logout`,
`Revoke`, `DeleteCredentials`, `ForgetServer`), a login to the own database
(`LoginLocal`, `SetUsername`), a logout from it (`LogoutLocal`, `SetUsername`),
`InitConfig`; and the reader, or any command that
needs the account: `Open`, `AskMe` (the middleware, which falls back on the
snapshot), `AskMarks`. `Exit` ends a process anywhere, so a command may die
between its two writes. A token is a number, `owner` the account it was issued
to, `live` the ones the servers still take. Registering ends in a login and is
one here; what comes before is `Registration`.

### ReaderList, ReaderMarks, ReaderPane

The reader is one loop over one model: a key or an answer is handled to its end,
and the commands it starts run beside the loop until their answers come in, in
any order. In all three modules `Press` is a key, `Answer` the handling of an
answer, and commands under way are a bag, as two can be alike. They part the
model by what its fields are about:

- `ReaderList`: `view`, `offset`, `hasMore` and the three spinners; a page of posts
  is the question it answers, its number, and whether it is full. The store is
  asked and answers in one step, since the page does not depend on when. A feed
  moved to a folder (`FeedCategorized`) loads the feeds again, and no posts.
- `ReaderMarks`: `reads`, `bookmarks`, `unread`, the open post and its full text,
  beside the store's. A command is carried out (`Serve`) and answered apart: a
  read is marked before it is served, a bookmark when it is answered. The list may
  be loaded again at any time and then holds any of the posts (`ListLoaded`), so a
  page can be about a post that its list no longer has.
- `ReaderPane`: the feeds, folders, rows, cursor and filter, the questions asked
  about a row, and the catalog. `Serve` and `Answer` again. Two feeds may have one
  name, by which `feedUnfollowMsg` knows the feed of the filter. Picked from the
  catalog, a feed is filed under its own category there, followed or not before.

A command may fail (`Answer` with an error, of which the reader clears what
`errMsg` clears). The histories `raced`, `crossed`, `lost` say which
commands were under way together or failed; properties read them, actions never.

## Runs

| Run | Shows |
| --- | --- |
| `offline_core` | two overlapping calls against a queue of two, with outages: `OneFlusher`, `WithinCap`, `EveryLossIsAdmitted`; the store implements the outbox; a flush ends, a reader in use drains its queue and its cache converges |
| `offline_replies` | every fault but a snapshot that is not saved (`halfsave`, left to the theorems), with a restart and a sync anywhere: what was promised as saved stays in the file, or joined an unfinished line (`Durable`); the newest change wins (`OfflineWritesWin`) |
| `offline_cache` | `SameAnswers`: with the same data the Go answers every list as the SQL may, if the words asked for are no patterns and tied feeds stand alike; `SyncAgrees`: a sync leaves the server's data; `ChangesForeseen`: after a change made offline the reader sees what the server will say, but for the place of a new bookmark; `ResendingChangesNothing`: a drain that starts over from any of its changes ends the same, but for the order of the bookmarks |
| `register_faults` | three requests for two links, under every fault: one account a link, a revoked link makes none, links are spent and accounts untraceable only where a query that should have settled them failed |
| `session_files` | two terminals and two servers, commands that cross or die between the two files: `ServersStayApart`, no token is held for another server, nothing of another server is shown; `CommandsDoWhatTheySay` |
| `library` | two accounts and the aggregator, statement by statement: `AddedIsFollowed`, a feed added with success is followed under its folder; `ImplementsShelves`, each account sees a fake store of its own |
| `feed_scrape` | two scrapes of a feed beside prunes, a stricter prune, refetches, bookmarks and a stop anywhere: `NothingMissed`, what the saved validators vouch for is stored or not kept; `PrunedStaysOut`, what was pruned is not inserted again |
| `feed_settles` | a feed that keeps being scraped: its last edition arrives, it heals, it follows its publisher's moves |
| `reader_list` | answers in any order, some of them errors: `FlagsAreBacked`, a spinner stands for something under way; `EverySpinnerStops`; `ListIsTheOneAskedFor` |
| `reader_marks` | marks made before and after the store is asked: `MarksAgree`, what is shown of a post is what the store has and the user wanted; `CountAgrees`; `FullTextIsOfTheOpenPost` |
| `reader_pane` | feeds added, moved, unfollowed and picked while loads come in: `PaneAgrees`; `FilterIsInThePane`; `QuestionOutlivesLoads`, a question about the feed whose posts are shown stays about it, whatever is loaded meanwhile |

One run ends in a violation, a disagreement between the code and what its tests
say. `offline_replay_undoes`: a write that gets through is sent before the queue,
whose replay then undoes it. `queue_test.go:402` calls that outcome the failure.

The properties of the passing runs hold under the faults too, because they name
the exception instead of forbidding the fault:

- `Durable` excepts the changes whose own line joined an unfinished one (`stray`).
- `OfflineWritesWin` excepts an overflow that moved the queue under a flush, or
  whose rewrite failed (`spoiled`): the flush then drops a change it did not send.
  And it excepts a change that an overflow pushed out of the queue (`pushed`), even
  one that was delivered before: the process ends after two changes of an item were
  sent and before the file says so; the next one sends the older again, fails at
  the newer, and the cap then pushes the newer out. It is counted as lost. TLC
  finds that with two items, four changes and one restart, beyond the bounds of
  `offline_replies`; the theorem is about every bound.
- `OneAccountPerInvite`, `SpentForAnAccount` and `Traceable` except a request by
  what befell it (`mishaps`): its account was made and the answer lost, its record
  failed, it went away with its link.
- `NothingMissed` excepts an edition of which a scrape was cut off, or which a
  stricter prune has thinned (`holed`), until it is stored in full again;
  `PrunedStaysOut` excepts articles without a date, and those that have the very
  date of the cutoff.
- `ListIsTheOneAskedFor`, `MarksAgree`, `CountAgrees` and `PaneAgrees` except what
  crossed: loads of the same thing under way together, of which the earlier may
  come in last; a command about a post that is under way with another one about
  it; a command that failed. What is left is that each of the many paths that
  change the question, a mark, the count or the feeds does all of its part.
- `SameAnswers` excepts names and words with a pattern character of `ILIKE` in them;
  of those with `_` or `%` it says that the snapshot finds no post that the server
  does not, of those with `\` nothing. It excepts the digests in which the collation
  puts two feeds, whose newest posts are of one time, otherwise than
  `strings.Compare` does (`TiesAlike`).
- `ChangesForeseen` excepts the place of a bookmark made offline, which is shown
  last and which the server lists first; no other two may come out of order.
  `ResendingChangesNothing` excepts the order of the bookmarks: a drain that starts
  over may take one away and make it again, which makes it the newest.
- `QuestionOutlivesLoads` excepts the questions about another feed than the one
  whose posts are shown. A load that comes in then can put another row under the
  cursor; a `y` unfollows the feed of that row, and the question, which is drawn
  anew each time, names it (`input.go:95`). The prompt of a move goes on naming the
  feed it was opened for (`actions.go:250`), and the move is applied to the row.
- `CommandsDoWhatTheySay` excepts a command during which another wrote one of the
  files, or that did not run to its end; `AddedIsFollowed` one during which the same
  account did something else to the feed.
- `SyncAgrees` is about a cache with room, and without posts that were pruned or
  unfollowed since: `mergePosts` only ever drops the oldest.

An exception is not a finding that the code is right there. Those of the store's
files, the registrations, the session, the feeds and the reader are what the code
does not guard against, and no property covers them: `PROJECT.json` says so of each
under `hazards`. Where the code departs from what some of its texts say, and no run
is about it:

- A bookmark made offline is shown last (`cache.go:128`; `README.md:336`: "newest
  first").
- The error of another command clears the flag of a fetch of all feeds, after which
  `R` starts a second one beside it (`update.go:153`; `refresh_test.go:28` rules a
  second one out while the flag is up).
- An append after a line that was cut off joins it, and costs the next change as
  well (`queue.go:77`; `queue_test.go:265` has a cut-off line cost only itself).
- A create of an account whose answer was lost releases its link, which then makes
  a second account (`auth.go:88`; `invite.go:73`: "Good for one account").
- Validators are saved before the posts; a scrape that stops between leaves a feed
  whose publisher answers "not modified" until its next edition (`feeds.go:271`;
  `gator refetch` is the remedy).
- A post without a date is pruned by its age in the database, and inserted again
  as new at the next fetch that is not conditional (`feeds.go:390`).

Also seen, where nothing promises otherwise: a count of losses that was not saved
with the queue is gone after a restart; a context cancelled during a flush is
taken for an offline server; a sync during which the server was away for a moment
succeeds with a view from the cache; a server stopped between the claim and the
account leaves the link spent; a change made online does not show in the cache
before the next answer; the lists are ordered by time with nothing to break a
tie, so that two pages of one list may share a post or miss one; `/posts` without a
limit gives no posts from the server and all of them from the cache (of the clients
only `search --limit 0` asks so); a list of unread posts is paged by offset while
reading shortens it; a list of feeds to add ignores the failure of a folder; a
login whose answer is lost leaves a token nobody holds; `init` over a
configuration leaves the credentials, which open again when it names the same
server; the queue file belongs to no account, and two processes of one home share
it.

### Bounds

`MaxChanges` and `MaxRestarts` bound the changes a user makes and the restarts;
everything else of the store that could grow is bounded by them. `offline_core`
uses two calls, because every hazard of overlap is between a flush and one other
call, and one item, whose marks the opposite changes set in turn; `offline_replies`,
about failing requests and files, uses one, whose failures are between its own
steps and a restart. They use a queue of two, so that three changes overflow it,
also while a flush holds its clone; three changes, so that one is older and one is
newer than the one that is lost or repeated; and one restart, after which
everything is read from the files as it would be after any other.

`offline_cache` has three posts in two feeds, so that a feed has a newer and an
older one and the other's is as new as the newer of them: the lists asked for differ
on some of their subsets by order, digest and page, and some have two answers. One
of the names has a `_`, and the words and names asked for include `_` alone and one
with a `\`. `MaxEvents` bounds the changes, the single answers and the changes elsewhere to
three between syncs and outages, which are free: a change offline, another one, and something elsewhere,
before or after they are sent.

The requests of a registration are three, so that a claim, a release and a claim
again can overlap with a third request, and the links are two, so that one
request's failure could free another's link. `session_files` has two of everything:
one terminal that writes and one that crosses it, a server to come from and one to
go to, and two tokens (`MaxTokens`), so that there is an old and a new one.
`library` has two calls of several statements, beside which every operation of one
statement may happen at any time, two accounts, one feed and one post: nothing in
the statements relates two feeds, or two posts but in a list of reads, which one
post or none is.

A feed has two or three articles and keeps one post, so that one post more is
outranked; the retention is one tick and the clock has two or three, so that an
article is fresh, then old, while a scrape that read the window is still at work;
two scrapes, as every hazard is between one and another or a prune; and one
thing that goes wrong (`MaxFaults`), after which the effects are looked at
undisturbed. `feed_settles` gives up one article and the prune command for a move
of the publisher and a second feed that has one of the articles.

The reader is given three keys (`MaxKeys`: in the pane a question, its answer, and
one before) while at most three commands are under way (`MaxAtOnce`, the start's own apart):
an old load, a new one, and the change between them. A list has two pages, so that
a further page exists and may arrive for the list before. The reader starts as it
was left: the unread posts, or a feed no longer followed (`reader_list`), folders
closed but for the last and at most two of its three feeds, of which two have one
name, followed (`reader_pane`), no full text and reads and bookmarks alike
(`reader_marks`).

Calls, requests, links, names, servers, terminals, accounts and posts are
interchangeable in some safety runs, which use that symmetry; no run of a
liveness property does.

Deadlock is checked for the store, in which a call can always start, for the
feed, whose aggregator can always begin, and for the session. It is not for the
others: each request of a registration happens once, and keys and changes are
bounded, so that they come to rest.

### Fairness

`FairSpec` of the store says that a call inside it moves on: goroutines are
scheduled, and the HTTP client has a timeout. Nothing makes the user act or the
server come back. `UsedSpec` adds that every view is asked for again and again,
strongly fair, since a free call comes and goes: `QueueDrains` and
`CacheConverges` are about a reader somebody uses, as the store has no timer of
its own. Both are stated for a server that stays up from some point on, and
hold without the fault `error`: a server that refuses the oldest change forever
keeps the rest waiting, by design.

Registrations have no liveness property: nothing in the code settles a claim
later, so a crash after it leaves the link spent, and what a handler that runs to
its end has settled is `SpentForAnAccount`.

`FairSpec` of the feed says that a scrape under way goes on, its requests and
queries having timeouts and its process running, and that the aggregator begins
again, which is its ticker. Nothing makes a reader refresh, or a prune come. The
failures are bounded by `MaxFaults`, so the liveness properties are about a feed
that can be fetched and stored from some time on.

The reader's is that answers are handled (`WF_vars(Answer)`): a command ends, with
its answer or an error, as the HTTP client has a timeout, and the loop takes what
has ended. It does not say which answer is next. The user presses no key by
fairness, and only `MaxKeys`; `EverySpinnerStops` is about the time after.

## Proofs

The theorems hold for every value of the constants that the modules assume: any
number of calls, items, views, changes, restarts, requests, links, servers,
accounts, feeds, posts and keys. TLC checked every invariant below on its run
before it was proved. Where a property is not inductive, the text says what has to
be added to it and why.

What the modules assume of their constants is what the code has by its types: a
placeholder (`None`, `Nobody`, `NoPost`, `AnyFeed`, `Root`, `NoFolder`) is none of the
values it stands beside; bounds are numbers; the sets that are counted are finite.
`NoWord` is none of `Words`, as the prompt drops an empty search (`input.go:59`).
`Server`, which stands for the aggregator and the prune, is no account and no call.
The queries the answers are compared on (`Asked`) are the clients': each has a limit,
as the reader's page has one and `browse` refuses less than one post (`feeds.go:101`),
and a search names nothing but its word (`feeds.go:143`). `search --limit 0` is the
one that is not among them.

**`OfflineStoreProofs`**

- `TypeCorrect`, one step an action, and `FlushIsExclusive`. The latter's invariant
  is `OneFlusher` itself: only a drain that finds the flag down raises it, and only
  the call that raised it is in a flush to take it down.
- `QueueIsBounded` if rewrites do not fail and files close, and `AcceptedIsDurable` under every
  fault. A failed rewrite may leave in the file changes that were settled, and a
  file that does not close a line of which the queue in memory knows nothing: the
  bound needs both hypotheses. Neither can take anything that is still owed
  from the file. The invariant adds to `Durable` that a change on its way into the
  queue has a number of its own (`Fresh`).
- `NewestChangeWins`, under every fault. A replay puts older values back before it
  comes to the newer one, and may start over from anywhere, so the property is true
  only between replays. The invariant `Winning` says when it is broken and who will
  mend it: the last change of an item is still queued behind every other change of
  that item, in memory and in the file (`Followed`), the clone of a flush is the
  front of the queue (`Prefix`), and an item whose server value is older has its
  last change in the queue, not passed by the flush yet (`Won`).
- `LossesAreAdmitted`, if the files can be written (`Writable`). An overflow during
  a flush pushes a change out of the queue and counts it though the flush may
  already have sent it; when the flush ends it drops from the front as many as it
  sent, and some of those it did not send. The invariant (`InFlight`, `Shifted`)
  says that the clone and the queue differ by a shift of some `e`, that the first
  `done` of the clone are settled, and that the count is ahead of the losses by at
  least `e`. It also needs that the file mirrors the queue, so that a restart
  changes nothing, and that a sync runs alone and has seen the count that it will
  clear.
- `QueueIsAnOutbox`, the refinement, also if the files can be written. Every action
  is one of `Outbox` or a stutter. The step that needs work is a send during which
  an overflow moved the queue: the outbox lets a change settle only if whatever is
  ahead of it in the box has settled. `InOrder` gives that: nothing is queued twice,
  and what the queue holds ahead of a change of the clone is in the clone, ahead of
  it.

`Writable` and the hypothesis of `QueueIsBounded` are needed: a failed rewrite leaves
a longer file, and a failed save forgets the count.

**`RegistrationProofs`**, under every fault

- `TypeCorrect`; `InvitesMakeOneAccount`, by an invariant that a link has one holder,
  either an account the server knows of or one request between its claim and its
  release, and that a held link is claimed or gone from the table (`HeldInv`);
  `RevokedStaysRevoked`, by an invariant that a link with a request past its claim is
  claimed or gone, and that a revoked link is not stored (`BusyInv`).
- `NoLinkIsWasted`: beside the property, a link that names its user names one who
  registered with it, and a request past `create` has its account, unless a reset
  emptied the tables and the link is gone as well (`SpentInv`).
- `AccountsAreTraceable`: the trace is written before the answer, and since a link
  has one holder nobody can write over it (`TraceInv` on top of `HeldInv`).

**`SessionProofs`**

- `TypeCorrect`, and `ServersAreApart` however commands cross or die. What a process
  holds it read from a file, and the file was written by another. The invariant
  says of the credentials file too that its token was issued by the server it
  names, and of the snapshot that what it says came from the server it is keyed by;
  tokens keep their owner as they are only ever added. Then the reads carry it from
  the files to the processes, and the writes back.
- `CommandsKeepTheirWord`: what a command will have done it has half done on the
  way, so `SaidInv` states the files at each stage of a command that was not
  crossed; and that no step makes a revoked token live again.

**`StoreProofs`**, of `Library`

- `TypeCorrect`, and `AddsAreFollowed`: the property is about the last stage of a
  call, so the invariant says what each stage has reached (`OnItsWay`): from `follow`
  on the feed is listed, which nothing undoes; at `set` it is followed.
- `EachAccountHasItsShelf`, the refinement: of each statement, that it is one
  operation of the fake store for one account, or shows on no shelf. It needs the
  types of the tables: an insert that finds its row (a second follow, a mark of a
  post somebody else's prune took) must come out as a question that changed nothing.

**`StoreProofs`**, of `OfflineCache`

- `CacheTypesHold` is the invariant the others stand on: a shelf, a snapshot of the
  same fields whose counts are not negative, and a queue of changes. Nothing says
  that the snapshot is right, and it need not be: the other properties speak of one
  that is (`Agrees`).
- `SameAnswersHold`, for any queries of the clients' kind, any names and texts, and
  times that may be alike. A word without a backslash is found by `ILIKE` wherever
  `strings.Contains` finds it (`FindsMore`: the pattern is laid over the text letter
  by letter), and one without `_` and `%` nowhere else (`PlainFinds`: between the two
  `%` each letter matches the next one of the text). The posts are then the same, and
  lists in the same order have the same listings (`OrderedAlike`). For the digest, a
  listing of the snapshot by feed is also one the SQL may rank its posts by, and what
  it keeps in turn is one the SQL may show (`DigestIsTheServers`). `Page` compares
  the offsets and limits.
- `ResendingHolds`, for a queue of any length cut off anywhere. A shelf that got a
  part of the queue twice and one that got it once are not the same in between. But
  of every mark and every folder either the two say the same, or nothing sent since
  has touched it, and it is as it was when each began (`Alike`). Every change keeps
  that (`AlikeAfter`), because what it sets does not depend on what was there; and
  at the end of the part that was sent twice it leaves no difference
  (`AlikeToTheEnd`).
- `ChangesForeseenHolds`: each change, in the snapshot and at the server, and what
  it does to the two orders of the bookmarks (`OrderForeseen`). The counts
  are kept by adding and subtracting on one side and counted on the other, so the
  proof is about cardinalities. A list of posts is marked read one by one, in an
  order nobody fixes (`FoldSet`); `ReadAllIs` gives what that comes to, whatever the
  order: all marked, and of each feed as many fewer unread as were newly read, or
  zero.
- `SyncAgreesHolds`: with no more posts than the cache may hold, the cap drops none
  (`PostsKept`) and one page has them all (`EverythingIsAsked`).
- `AccountsSeeMoves` joins the two: whatever the statements of all the accounts do
  to the tables, in whatever order, one account's part of them stays or makes one of
  the moves of `OfflineCache`. The tables of `Library` keep no time of a bookmark,
  so this is said of every order the bookmarks may be in. The server that the cache
  is compared with is thus the local store as it is modelled, not another idea of
  it.

What is computed on lists and queues of any length is shown without an induction
rule, whose operator parameter the provers cannot instantiate: a property that
fails somewhere fails at a least place (`LeastElement`, from the well-foundedness of
the order on the numbers), and the place before refutes it (`Upward`). A recursive
function is replaced by any function that satisfies its equation (`IsRun`,
`IsFold`), of which there is one.

**`FeedScrapeProofs`**

- `TypeCorrect`, one lemma for the scrapes and one for the prune.
- `NothingIsMissed` and `PrunedIsGone`, for every retention, number of posts kept,
  publisher, and policies of the prune command. Two pieces of code, the SQL of the
  prune and `worthless` in Go, decide the same thing from states that differ by
  whatever happened in between. Their agreement rests on `KeptAbove`: as many posts
  as are kept are at least as new as some date. A step that is `Gentle` keeps that
  true of every date it was true of, and every step is gentle but a stricter prune:
  a scrape only adds posts, and a prune that deletes one post at least that new has
  kept the `Keep` newer ones. The inductive invariant `FeedInv` says that what was
  pruned is outranked still, that a scrape's cutoff is outranked itself and at least
  as new as whatever had been pruned before it was read (`ScraperInv`), that what a
  scrape is done with is accounted for, and that an edition whose validators are
  saved is there in full or about to be (`EditionInv`).

**`ReaderListProofs`**

- `TypeCorrect`, and `SpinnersAreBacked`: the flags are cleared by errors of other
  commands and by answers that are not theirs, so the invariant names the command
  behind each flag, one whose answer will be taken when it comes (`Backed`), also
  after the list was changed under it.
- `ListIsTheLastAsked`, for any number of pages: the property is about a reader at
  rest. Under way, the one load there is will make the list whole (`Completes`): a
  first page, or the page that follows those in the list.

**`ReaderMarksProofs`**

- `TextIsOfTheOpenPost`; `ReaderAndStoreAgree`. The latter is about a reader at rest;
  `Follows` says of one mark of one post in between that the store has what the user
  wants of it or the command that says so is on its way, and that the screen has it
  unless a load, or the answer to that command, will bring it. A command that starts
  beside a load of the same marks is what `crossed` is for.
- `CountIsRight`: `unread` goes up and down by one for a post, or to zero for a list,
  so the invariant states it as the cardinality of the posts the user wants unread,
  for any finite set of posts.

**`ReaderPaneProofs`**

- `PaneFollowsTheStore`: until everything is answered, a load is under way that will
  bring what the store has, or the answer to a change that will start one, and
  loads do not overtake each other unless two were started (`PaneInv`, `OneLoad`).
- `TheFilterCanBeLeft`, which needs that a row of a feed is of a feed that was loaded
  (`RowsInv`). `Rows` gives every row the place that the number of rows above it
  says; that there is a row for each place, so that the pane holds rows of its feeds
  and nothing else, is a count (`RowsAreListed`).
- `QuestionsOutliveLoads`: a load rebuilds the rows and puts the cursor back on the
  row of the filter's feed (`QuestionLoad`), if it has one. That it has only one place
  among the rows, and that the cursor finds it, rests on `RowsAreListed`; the answer
  to an unfollow, which moves the cursor, also clears the filter.

Only model-checked is the liveness, which is beyond the prover: `FlushEnds`,
`QueueDrains`, `CacheConverges`, `NewsArrives`, `HealthHeals`, `FollowsMoves`,
`EverySpinnerStops`. Every invariant and every action property of the passing runs
is a theorem, some with a hypothesis named above.

## Not modelled

- The supervisor, which starts the aggregator again after a pause that doubles: one
  loop with one counter, and nothing beside it.
- The eight workers of the remote store's `AddFeeds`, which share an index and a
  slice with a place for each: an entry is one `AddFeed` of `Library`. So with the
  semaphore over the feeds of a pass, which share nothing but the posts of `Shared`.
- The lines of an append that the operating system writes in parts, other than
  one that was cut off; what happens inside one SQL statement.
- Two processes of one home at one queue file. Nothing guards it.
- The prompts of `reset`, `login` and `init`; the database a configuration names and
  the themes; the menu, which is a loop over commands.
- The reader's rendering, layout, help, the palette's own list and the search inside
  a list. They are functions of the state that is modelled.
- The conversions of documents (`article`, `text`, `opml`, `catalog`, the parsing of
  feeds and dates), of fields (`wire`) and of secrets (`auth`), which are pure and
  about characters; `useragent`, `fetch`, `theme`.
- The API's limits on the rate and the size of requests, and its headers.
- The migrations, applied by a library under its own lock, and the test database.
- The statistics (`stats.sql`), which count.

## What is left

1. Proofs: of the weakest files under which `LossesAreAdmitted` and
   `QueueIsAnOutbox` hold, in place of `Writable`; and that `OfflineStore`, whose data
   is abstract, does to its items what `OfflineCache` does to the snapshot.
2. `SharedHome`: two stores over one pair of files, once the code says what it
   promises them.
3. Composition of the reader with the offline store, whose answers come from the
   cache and the server in turn.
