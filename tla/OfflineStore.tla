---------------------------- MODULE OfflineStore ----------------------------
(***************************************************************************)
(* The offline store: the wrapper the reader puts around the remote store  *)
(* (internal/store/offline).  Every call goes to the server first; what    *)
(* the call learns decides whether the store is online.  A change that     *)
(* could not reach the server is appended to a queue file and applied to   *)
(* a cached snapshot; the next call that succeeds drains the queue, in     *)
(* order, before it returns.                                               *)
(*                                                                         *)
(* Calls run concurrently (the reader starts each one on a goroutine of    *)
(* its own) and interleave between critical sections of Store.mu, so each  *)
(* action below is one critical section or one request to the server.      *)
(*                                                                         *)
(* Data.  An item is one thing a change sets: the read mark of a post, its *)
(* saved mark, the folder of a feed.  A change is numbered when the user   *)
(* makes it, and the value of an item is the number of the change that set *)
(* it last, 0 at first: two values differ exactly when the histories do.   *)
(***************************************************************************)
EXTENDS Integers, Sequences, FiniteSets

CONSTANTS
    Calls,        \* goroutines that may be inside the store at once
    Items,        \* what a change sets
    Folders,      \* the items that are folders of feeds (Categorize)
    Profile,      \* the item Me answers for, which no change sets
    Views,        \* Views[i]: the items the i-th read answers for
    MaxQueued,    \* the cap of the queue, 1000 in the code
    Faults,       \* what the environment may do, see FaultKinds
    MaxChanges,   \* bound: changes the user makes
    MaxRestarts   \* bound: times the process ends and starts again

FaultKinds ==
    { "outage",     \* the server goes away and comes back
      "lostreply",  \* a request is carried out and its answer lost
      "error",      \* the server answers a request with an error
      "gone",       \* the server answers that the feed is gone or not followed
      "cancel",     \* the context of a call is cancelled
      "torn",       \* an append to the queue file stops part-way
      "close",      \* the file does not close after a line was appended
      "rewrite",    \* a rewrite of the queue file fails
      "halfsave" }  \* the snapshot is not written after the queue was

ASSUME ConstantsAssumption ==
    /\ IsFiniteSet(Calls)
    /\ Folders \subseteq Items \ {Profile}
    /\ Views \in Seq(SUBSET Items)
    /\ MaxQueued \in Nat \ {0}
    /\ Faults \subseteq FaultKinds
    /\ MaxChanges \in Nat
    /\ MaxRestarts \in Nat

VARIABLES
    \* the Store in memory
    pending,      \* queue.pending
    snap,         \* snapshot: the cached value of each item
    dropped,      \* snapshot.Dropped
    online,       \* Store.online
    flushing,     \* Store.flushing
    \* the calls inside it
    pc,           \* where each call is
    req,          \* what it asked and what the server answered
    batch,        \* flush: its clone of the queue
    done,         \* flush: how many of the batch are done
    \* the files in the home directory
    file,         \* .gator-queue.jsonl: the lines that parse
    torn,         \* .gator-queue.jsonl ends in a line with no newline
    savedSnap,    \* .gator-cache.json: the cached values
    savedDropped, \* .gator-cache.json: dropped
    \* the server
    up,           \* requests reach it
    server,       \* the value it holds for each item
    \* history, read by the properties and never by an action
    made,         \* changes made so far (and the bound MaxChanges)
    accepted,     \* changes the store took into the queue
    delivered,    \* queued changes the server carried out
    refused,      \* queued changes the server will never take
    lastQueued,   \* the last change of each item to enter queue or file
    told,         \* losses a Sync reported before it cleared the count
    pushed,       \* changes an overflow pushed out of the queue
    spoiled,      \* an overflow moved the queue under a flush, or not the file
    stray,        \* changes with a place in the queue and no line, or the reverse
    restarts      \* restarts so far (and the bound MaxRestarts)

memory  == <<pending, snap, dropped, online, flushing>>
calls   == <<pc, req, batch, done>>
disk    == <<file, torn, savedSnap, savedDropped>>
remote  == <<up, server>>
history == <<made, accepted, delivered, refused, lastQueued, told, pushed,
             spoiled, stray, restarts>>
vars    == <<memory, calls, disk, remote, history>>

-----------------------------------------------------------------------------
(* Types *)

Ids       == 1..MaxChanges
NotCached == -1
Version   == 0..MaxChanges
Cached    == Version \cup {NotCached}
Change    == [id : Ids, items : SUBSET Items]

Outcome == {"ok", "error", "gone", "unreachable"}
Asked ==
    [op     : {"none", "read", "write", "other", "sync"},
     change : Change \cup {<<>>},      \* of a write
     view   : 0..Len(Views),           \* of a read; how far a sync has come
     out    : Outcome,
     answer : [Items -> Cached],       \* of a read that succeeded
     report : Nat]                     \* SyncResult.Dropped
Request == {q \in Asked : q.op = "write" => q.change \in Change}

Nothing == [op |-> "none", change |-> <<>>, view |-> 0, out |-> "ok",
            answer |-> [x \in Items |-> NotCached], report |-> 0]

TypeOK ==
    /\ pending \in Seq(Change)
    /\ snap \in [Items -> Cached]
    /\ dropped \in Nat
    /\ online \in BOOLEAN
    /\ flushing \in BOOLEAN
    /\ pc \in [Calls -> {"idle", "answered", "drain", "clone", "send",
                         "settle", "unflag", "finish", "next"}]
    /\ req \in [Calls -> Request]
    /\ batch \in [Calls -> Seq(Change)]
    /\ done \in [Calls -> Nat]
    /\ file \in Seq(Change)
    /\ torn \in BOOLEAN
    /\ savedSnap \in [Items -> Cached]
    /\ savedDropped \in Nat
    /\ up \in BOOLEAN
    /\ server \in [Items -> Version]
    /\ made \in Version
    /\ accepted \subseteq Ids
    /\ delivered \subseteq Ids
    /\ refused \subseteq Ids
    /\ lastQueued \in [Items -> Version]
    /\ told \in Nat
    /\ pushed \subseteq Ids
    /\ spoiled \in BOOLEAN
    /\ stray \subseteq Ids
    /\ restarts \in 0..MaxRestarts

-----------------------------------------------------------------------------
(* A first start: no files, and a store that takes the server to be there. *)
Init ==
    /\ pending = <<>>
    /\ snap = [x \in Items |-> NotCached]
    /\ dropped = 0
    /\ online = TRUE
    /\ flushing = FALSE
    /\ pc = [c \in Calls |-> "idle"]
    /\ req = [c \in Calls |-> Nothing]
    /\ batch = [c \in Calls |-> <<>>]
    /\ done = [c \in Calls |-> 0]
    /\ file = <<>>
    /\ torn = FALSE
    /\ savedSnap = [x \in Items |-> NotCached]
    /\ savedDropped = 0
    /\ up \in IF "outage" \in Faults THEN BOOLEAN ELSE {TRUE}
    /\ server = [x \in Items |-> 0]
    /\ made = 0
    /\ accepted = {}
    /\ delivered = {}
    /\ refused = {}
    /\ lastQueued = [x \in Items |-> 0]
    /\ told = 0
    /\ pushed = {}
    /\ spoiled = FALSE
    /\ stray = {}
    /\ restarts = 0

-----------------------------------------------------------------------------
(* One request to the server: what the caller sees, and whether the server *)
(* carried it out.  A cancelled request looks like an unreachable server,  *)
(* because the remote store wraps every transport error that way.          *)
Replies ==
    {r \in [out : Outcome, applied : BOOLEAN] :
       \/ ~up /\ r.out = "unreachable" /\ ~r.applied
       \/ up /\ \/ r.out = "ok" /\ r.applied
                \/ r.out \in {"unreachable", "error"} /\ r.applied
                                                     /\ "lostreply" \in Faults
                \/ r.out = "error" /\ ~r.applied /\ "error" \in Faults
                \/ r.out = "gone" /\ ~r.applied /\ "gone" \in Faults
                \/ r.out = "unreachable" /\ "cancel" \in Faults}

(* What one change sets: an item, or for SetAllRead a page of read marks.  *)
Targets == {{x} : x \in Items \ {Profile}}
           \cup (SUBSET (Items \ (Folders \cup {Profile})) \ {{}})

(* snapshot.apply: the values v with a change made to them.                *)
Apply(v, ch) == [x \in Items |-> IF x \in ch.items THEN ch.id ELSE v[x]]

(* A change, sent now or from the queue, reaches the server's items.       *)
Carry(ch) == Apply(server, ch)

(* gator sync runs in a process of its own, so no call starts beside it.   *)
NoSync == \A d \in Calls : req[d].op # "sync"

(* What is left of a call that will leave nothing in the store: its answer *)
(* only matters to answered, and to the caller.                            *)
Plain(out) == [Nothing EXCEPT !.op = "other", !.out = out]

(* SetRead, SetAllRead, Bookmark, Unbookmark, Categorize: the user sets xs. *)
Write(c, xs) ==
    /\ pc[c] = "idle"
    /\ NoSync
    /\ made < MaxChanges
    /\ made' = made + 1
    /\ LET ch == [id |-> made + 1, items |-> xs] IN
       \E r \in Replies :
         /\ server' = IF r.applied THEN Carry(ch) ELSE server
         /\ req' = [req EXCEPT ![c] =
              IF r.out = "unreachable"
              THEN [Nothing EXCEPT !.op = "write", !.out = r.out, !.change = ch]
              ELSE Plain(r.out)]
    /\ pc' = [pc EXCEPT ![c] = "answered"]
    /\ UNCHANGED <<memory, batch, done, disk, up, accepted, delivered, refused,
                   lastQueued, told, pushed, spoiled, stray, restarts>>

(* What a read of the i-th view returns now. *)
AnswerOf(i) == [x \in Items |-> IF x \in Views[i] THEN server[x] ELSE NotCached]

(* Posts, BookmarkedPosts, BookmarkedIDs, ReadIDs, UnreadCounts,           *)
(* Subscriptions: fetch the i-th view.                                     *)
Read(c, i) ==
    /\ pc[c] = "idle"
    /\ NoSync
    /\ \E r \in Replies :
         req' = [req EXCEPT ![c] =
           IF r.out = "ok"
           THEN [Nothing EXCEPT !.op = "read", !.view = i, !.answer = AnswerOf(i)]
           ELSE Plain(r.out)]
    /\ pc' = [pc EXCEPT ![c] = "answered"]
    /\ UNCHANGED <<memory, batch, done, disk, remote, history>>

(* FullText, Stats, AddFeed, FollowURL, UnfollowURL, Unfollow: calls that  *)
(* need the network, never queue and never fill the cache.                 *)
Other(c) ==
    /\ pc[c] = "idle"
    /\ NoSync
    /\ \E r \in Replies :
         req' = [req EXCEPT ![c] = Plain(r.out)]
    /\ pc' = [pc EXCEPT ![c] = "answered"]
    /\ UNCHANGED <<memory, batch, done, disk, remote, history>>

-----------------------------------------------------------------------------
(* answered: the first critical section after the call to the server.      *)
Answered(c) ==
    /\ pc[c] = "answered"
    /\ online' = (req[c].out # "unreachable")
    /\ pc' = [pc EXCEPT ![c] = IF req[c].out = "ok" THEN "drain" ELSE "finish"]
    /\ UNCHANGED <<pending, snap, dropped, flushing, req, batch, done, disk,
                   remote, history>>

(* answered with a cancelled context: the store learns nothing, and the    *)
(* caller is handed whatever the server said.                              *)
AnsweredCancelled(c) ==
    /\ "cancel" \in Faults
    /\ pc[c] = "answered"
    /\ pc' = [pc EXCEPT ![c] = "finish"]
    /\ req' = [req EXCEPT ![c].out = IF @ = "ok" THEN "ok" ELSE "error"]
    /\ UNCHANGED <<memory, batch, done, disk, remote, history>>

(* Seeded bug: drain without the flag, so two calls flush at once.         *)
DrainUnguarded(c) ==
    /\ pc[c] = "drain"
    /\ flushing' = (flushing \/ pending # <<>>)
    /\ pc' = [pc EXCEPT ![c] = IF pending # <<>> THEN "clone" ELSE "finish"]
    /\ UNCHANGED <<pending, snap, dropped, online, req, batch, done, disk,
                   remote, history>>

(* drain: take the flush on, unless nothing is owed or somebody has it.    *)
Drain(c) ==
    /\ pc[c] = "drain"
    /\ LET owed == pending # <<>> /\ ~flushing IN
         /\ flushing' = (flushing \/ owed)
         /\ pc' = [pc EXCEPT ![c] = IF owed THEN "clone" ELSE "finish"]
    /\ UNCHANGED <<pending, snap, dropped, online, req, batch, done, disk,
                   remote, history>>

(* flush: clone the queue under the lock. *)
Clone(c) ==
    /\ pc[c] = "clone"
    /\ batch' = [batch EXCEPT ![c] = pending]
    /\ done' = [done EXCEPT ![c] = 0]
    /\ pc' = [pc EXCEPT ![c] = "send"]
    /\ UNCHANGED <<memory, req, disk, remote, history>>

(* Seeded bug: the clone is sent from its end.                             *)
SendNewest(c) ==
    /\ pc[c] = "send"
    /\ done[c] < Len(batch[c])
    /\ LET ch == batch[c][Len(batch[c]) - done[c]] IN
       \E r \in Replies :
         /\ server' = IF r.applied THEN Carry(ch) ELSE server
         /\ delivered' = IF r.out = "ok" THEN delivered \cup {ch.id} ELSE delivered
         /\ refused' = IF r.out = "gone" THEN refused \cup {ch.id} ELSE refused
         /\ IF r.out \in {"ok", "gone"}
            THEN done' = [done EXCEPT ![c] = @ + 1] /\ UNCHANGED <<pc, online>>
            ELSE /\ pc' = [pc EXCEPT ![c] = "settle"]
                 /\ online' = (online /\ r.out # "unreachable")
                 /\ UNCHANGED done
    /\ UNCHANGED <<pending, snap, dropped, flushing, req, batch, disk, up, made,
                   accepted, lastQueued, told, pushed, spoiled, stray, restarts>>

(* flush: send the next change of the clone, without the lock.  A change   *)
(* whose feed is gone counts as done; any other failure ends the pass.     *)
Send(c) ==
    /\ pc[c] = "send"
    /\ done[c] < Len(batch[c])
    /\ LET ch == batch[c][done[c] + 1] IN
       \E r \in Replies :
         /\ server' = IF r.applied THEN Carry(ch) ELSE server
         /\ delivered' = IF r.out = "ok" THEN delivered \cup {ch.id} ELSE delivered
         /\ refused' = IF r.out = "gone" THEN refused \cup {ch.id} ELSE refused
         /\ IF r.out \in {"ok", "gone"}
            THEN done' = [done EXCEPT ![c] = @ + 1] /\ UNCHANGED <<pc, online>>
            ELSE /\ pc' = [pc EXCEPT ![c] = "settle"]
                 /\ online' = (online /\ r.out # "unreachable")
                 /\ UNCHANGED done
    /\ UNCHANGED <<pending, snap, dropped, flushing, req, batch, disk, up, made,
                   accepted, lastQueued, told, pushed, spoiled, stray, restarts>>

(* flush: the loop ends with the clone, or with the context.               *)
SendsOver(c) ==
    /\ pc[c] = "send"
    /\ done[c] = Len(batch[c]) \/ "cancel" \in Faults
    /\ pc' = [pc EXCEPT ![c] = "settle"]
    /\ UNCHANGED <<memory, req, batch, done, disk, remote, history>>

MinOf(a, b) == IF a < b THEN a ELSE b
DropFirst(s, n) == SubSeq(s, n + 1, Len(s))

(* queue.rewrite: the file becomes the queue, or stays when that fails.    *)
Rewrite(q) ==
    \/ file' = q /\ torn' = FALSE
    \/ "rewrite" \in Faults /\ UNCHANGED <<file, torn>>

(* Seeded bug: the whole clone leaves the queue, sent or not.              *)
SettleBatch(c) ==
    /\ pc[c] = "settle"
    /\ pending' = DropFirst(pending, MinOf(Len(batch[c]), Len(pending)))
    /\ Rewrite(pending')
    /\ batch' = [batch EXCEPT ![c] = <<>>]
    /\ done' = [done EXCEPT ![c] = 0]
    /\ pc' = [pc EXCEPT ![c] = "unflag"]
    /\ UNCHANGED <<snap, dropped, online, flushing, req, savedSnap, savedDropped,
                   remote, history>>

(* Seeded bug: the file is removed after a pass that sent only a part.     *)
SettleRemoves(c) ==
    /\ pc[c] = "settle"
    /\ pending' = DropFirst(pending, MinOf(done[c], Len(pending)))
    /\ Rewrite(<<>>)
    /\ batch' = [batch EXCEPT ![c] = <<>>]
    /\ done' = [done EXCEPT ![c] = 0]
    /\ pc' = [pc EXCEPT ![c] = "unflag"]
    /\ UNCHANGED <<snap, dropped, online, flushing, req, savedSnap, savedDropped,
                   remote, history>>

(* queue.sent, as flush ends: as many off the front as were done.          *)
Settle(c) ==
    /\ pc[c] = "settle"
    /\ pending' = DropFirst(pending, MinOf(done[c], Len(pending)))
    /\ Rewrite(pending')
    /\ batch' = [batch EXCEPT ![c] = <<>>]
    /\ done' = [done EXCEPT ![c] = 0]
    /\ pc' = [pc EXCEPT ![c] = "unflag"]
    /\ UNCHANGED <<snap, dropped, online, flushing, req, savedSnap, savedDropped,
                   remote, history>>

(* Seeded bug: a pass cut short returns early and keeps the flag.          *)
UnflagWhenSent(c) ==
    /\ pc[c] = "unflag"
    /\ flushing' = (pending # <<>>)
    /\ pc' = [pc EXCEPT ![c] = "finish"]
    /\ UNCHANGED <<pending, snap, dropped, online, req, batch, done, disk, remote,
                   history>>

(* drain: hand the flush back. *)
Unflag(c) ==
    /\ pc[c] = "unflag"
    /\ flushing' = FALSE
    /\ pc' = [pc EXCEPT ![c] = "finish"]
    /\ UNCHANGED <<pending, snap, dropped, online, req, batch, done, disk, remote,
                   history>>

-----------------------------------------------------------------------------
(* snapshot.save: the whole snapshot, or nothing and nobody is told.       *)
SaveSnap(s, n) ==
    \/ savedSnap' = s /\ savedDropped' = n
    \/ "halfsave" \in Faults /\ UNCHANGED <<savedSnap, savedDropped>>

(* The call returns to its caller. *)
Return(c) ==
    /\ pc' = [pc EXCEPT ![c] = "idle"]
    /\ req' = [req EXCEPT ![c] = Nothing]

(* Seeded bug: an answer only fills what was not cached yet.               *)
UpdateMissing(c) ==
    /\ snap' = [x \in Items |->
                  IF x \in Views[req[c].view] /\ snap[x] = NotCached
                  THEN req[c].answer[x] ELSE snap[x]]
    /\ SaveSnap(snap', dropped)

(* update: the answer goes into the cache, as it was when it was fetched.  *)
Update(c) ==
    /\ snap' = [x \in Items |-> IF x \in Views[req[c].view] THEN req[c].answer[x]
                                ELSE snap[x]]
    /\ SaveSnap(snap', dropped)

(* A read that the server answered ends, and its answer is cached.         *)
FinishRead(c) ==
    /\ pc[c] = "finish"
    /\ req[c].op = "read"
    /\ Update(c)
    /\ Return(c)
    /\ UNCHANGED <<pending, dropped, online, flushing, batch, done, file, torn,
                   remote, history>>

(* A categorize the cache cannot vouch for is refused, not queued.         *)
Uncached(c) == \E x \in req[c].change.items : x \in Folders /\ snap[x] = NotCached

(* A call that has nothing to leave in the store ends: whatever got its    *)
(* answer but for reads, a read that is served from the cache or fails, a  *)
(* categorize of an unknown feed.                                          *)
FinishPlain(c) ==
    /\ pc[c] = "finish"
    /\ \/ req[c].op = "other"
       \/ req[c].op = "write" /\ (req[c].out # "unreachable" \/ Uncached(c))
    /\ Return(c)
    /\ UNCHANGED <<memory, batch, done, disk, remote, history>>

Unsent(c) ==
    /\ pc[c] = "finish"
    /\ req[c].op = "write"
    /\ req[c].out = "unreachable"
    /\ ~Uncached(c)

(* Seeded bug: the cap is noticed one change too late.                     *)
FullLate == Len(pending) > MaxQueued

Full == Len(pending) + 1 > MaxQueued

Oldest(n) == {pending[k].id : k \in 1..n}

(* Seeded bug: the new change goes to the front.                           *)
PrependChange(ch) ==
    /\ ~Full
    /\ pending' = <<ch>> \o pending
    /\ file' = <<ch>> \o file
    /\ torn' = FALSE
    /\ UNCHANGED <<dropped, pushed, spoiled, stray>>

(* queue.add below the cap: one line at the end of the file.  A line that  *)
(* follows an unfinished one joins it, and neither parses.                 *)
Append1(ch) ==
    /\ ~Full
    /\ pending' = Append(pending, ch)
    /\ file' = IF torn THEN file ELSE Append(file, ch)
    /\ stray' = IF torn THEN stray \cup {ch.id} ELSE stray
    /\ torn' = FALSE
    /\ UNCHANGED <<dropped, pushed, spoiled>>

(* Seeded bug: the excess with its operands swapped.                       *)
OverflowSwapped(ch) ==
    LET excess == MaxQueued - Len(pending) - 1 IN
    /\ Full
    /\ pending' = Append(DropFirst(pending, 1), ch)
    /\ file' = pending'
    /\ torn' = FALSE
    /\ dropped' = dropped + excess
    /\ pushed' = pushed \cup Oldest(Len(pending) + 1 - MaxQueued)
    /\ spoiled' = (spoiled \/ \E d \in Calls : pc[d] \in {"send", "settle"})
    /\ UNCHANGED stray

(* Seeded bug: the queue makes room in memory and not in the file.         *)
OverflowInMemory(ch) ==
    /\ Full
    /\ pending' = Append(DropFirst(pending, Len(pending) + 1 - MaxQueued), ch)
    /\ dropped' = dropped + Len(pending) + 1 - MaxQueued
    /\ pushed' = pushed \cup Oldest(Len(pending) + 1 - MaxQueued)
    /\ spoiled' = (spoiled \/ \E d \in Calls : pc[d] \in {"send", "settle"})
    /\ UNCHANGED <<file, torn, stray>>

(* queue.add at the cap: the oldest make room, and the file is rewritten.  *)
Overflow(ch) ==
    LET excess == Len(pending) + 1 - MaxQueued IN
    /\ Full
    /\ pending' = Append(DropFirst(pending, excess), ch)
    /\ file' = pending'
    /\ torn' = FALSE
    /\ dropped' = dropped + excess
    /\ pushed' = pushed \cup Oldest(Len(pending) + 1 - MaxQueued)
    /\ spoiled' = (spoiled \/ \E d \in Calls : pc[d] \in {"send", "settle"})
    /\ UNCHANGED stray

(* enqueue: queue, snapshot and file, in one critical section.             *)
Enqueue(c) ==
    /\ Unsent(c)
    /\ LET ch == req[c].change IN
         /\ Append1(ch) \/ Overflow(ch)
         /\ snap' = Apply(snap, ch)
         /\ SaveSnap(snap', dropped')
         /\ accepted' = accepted \cup {ch.id}
         /\ lastQueued' = Apply(lastQueued, ch)
    /\ Return(c)
    /\ UNCHANGED <<online, flushing, batch, done, remote, made, delivered, refused,
                   told, restarts>>

(* enqueue when the append fails: part of the line may be in the file.     *)
EnqueueTorn(c) ==
    /\ "torn" \in Faults
    /\ Unsent(c)
    /\ ~Full
    /\ torn' = TRUE
    /\ Return(c)
    /\ UNCHANGED <<memory, batch, done, file, savedSnap, savedDropped, remote, history>>

(* enqueue when the file does not close: the whole line is in it, though   *)
(* the user is told that the change was not saved.                         *)
EnqueueUnclosed(c) ==
    /\ "close" \in Faults
    /\ Unsent(c)
    /\ ~Full
    /\ IF torn THEN UNCHANGED <<file, stray, lastQueued>>
       ELSE LET ch == req[c].change IN
            /\ file' = Append(file, ch)
            /\ stray' = stray \cup {ch.id}
            /\ lastQueued' = Apply(lastQueued, ch)
    /\ torn' = FALSE
    /\ Return(c)
    /\ UNCHANGED <<memory, batch, done, savedSnap, savedDropped, remote, made, accepted,
                   delivered, refused, told, pushed, spoiled, restarts>>

(* enqueue when the rewrite at the cap fails: the queue in memory has      *)
(* changed, and neither the count nor the cache has.                       *)
EnqueueUnwritten(c) ==
    /\ "rewrite" \in Faults
    /\ Unsent(c)
    /\ Full
    /\ pending' = Append(DropFirst(pending, Len(pending) + 1 - MaxQueued), req[c].change)
    /\ pushed' = pushed \cup Oldest(Len(pending) + 1 - MaxQueued)
    /\ spoiled' = TRUE
    /\ Return(c)
    /\ UNCHANGED <<snap, dropped, online, flushing, batch, done, disk, remote, made,
                   accepted, delivered, refused, lastQueued, told, stray, restarts>>

-----------------------------------------------------------------------------
(* Sync: drain, note the losses, read every view, clear the count.         *)
StartSync(c) ==
    /\ \A d \in Calls : pc[d] = "idle"
    /\ req' = [req EXCEPT ![c] = [Nothing EXCEPT !.op = "sync"]]
    /\ pc' = [pc EXCEPT ![c] = "drain"]
    /\ UNCHANGED <<memory, batch, done, disk, remote, history>>

(* Seeded bug: a sync does not look at the losses it is about to clear.    *)
SyncStateBlind(c) ==
    /\ pc[c] = "finish"
    /\ req[c].op = "sync"
    /\ req[c].view = 0
    /\ pc' = [pc EXCEPT ![c] = "next"]
    /\ UNCHANGED <<memory, req, batch, done, disk, remote, history>>

(* Sync: what is owed and what was lost, after the drain.                  *)
SyncState(c) ==
    /\ pc[c] = "finish"
    /\ req[c].op = "sync"
    /\ req[c].view = 0
    /\ req' = [req EXCEPT ![c].report = dropped]
    /\ pc' = [pc EXCEPT ![c] = "next"]
    /\ UNCHANGED <<memory, batch, done, disk, remote, history>>

SyncRead(c) ==
    /\ pc[c] = "next"
    /\ req[c].view < Len(Views)
    /\ LET i == req[c].view + 1 IN
       \E r \in Replies :
         req' = [req EXCEPT ![c].view = i, ![c].out = r.out,
                            ![c].answer = IF r.out = "ok" THEN AnswerOf(i)
                                          ELSE Nothing.answer]
    /\ pc' = [pc EXCEPT ![c] = "answered"]
    /\ UNCHANGED <<memory, batch, done, disk, remote, history>>

(* One read of a sync ends: an answer fills the cache, an unreachable      *)
(* server is answered for by the cache, and an error ends the sync; so     *)
(* does an unreachable server before the account was ever cached.          *)
NeverSynced(c) == Profile \in Views[req[c].view] /\ snap[Profile] = NotCached

FinishSyncRead(c) ==
    /\ pc[c] = "finish"
    /\ req[c].op = "sync"
    /\ req[c].view > 0
    /\ IF req[c].out = "ok" THEN Update(c) ELSE UNCHANGED <<snap, savedSnap, savedDropped>>
    /\ IF req[c].out = "ok" \/ (req[c].out = "unreachable" /\ ~NeverSynced(c))
       THEN pc' = [pc EXCEPT ![c] = "next"] /\ UNCHANGED req
       ELSE Return(c)
    /\ UNCHANGED <<pending, dropped, online, flushing, batch, done, file, torn,
                   remote, history>>

SyncEnd(c) ==
    /\ pc[c] = "next"
    /\ req[c].view = Len(Views)
    /\ IF online
       THEN /\ dropped' = 0
            /\ SaveSnap(snap, 0)
            /\ told' = told + req[c].report
       ELSE UNCHANGED <<dropped, savedSnap, savedDropped, told>>
    /\ Return(c)
    /\ UNCHANGED <<pending, snap, online, flushing, batch, done, file, torn, remote,
                   made, accepted, delivered, refused, lastQueued, pushed, spoiled, stray,
                   restarts>>

-----------------------------------------------------------------------------
(* The process ends, wherever its calls are, and Wrap starts from the      *)
(* files.                                                                  *)
Restart ==
    /\ restarts < MaxRestarts
    /\ restarts' = restarts + 1
    /\ pending' = file
    /\ snap' = savedSnap
    /\ dropped' = savedDropped
    /\ online' = TRUE
    /\ flushing' = FALSE
    /\ pc' = [c \in Calls |-> "idle"]
    /\ req' = [c \in Calls |-> Nothing]
    /\ batch' = [c \in Calls |-> <<>>]
    /\ done' = [c \in Calls |-> 0]
    /\ UNCHANGED <<disk, remote, made, accepted, delivered, refused, lastQueued,
                   told, pushed, spoiled, stray>>

Outage ==
    /\ "outage" \in Faults
    /\ up' = ~up
    /\ UNCHANGED <<memory, calls, disk, server, history>>

(* What a call does once it is inside the store. *)
Step(c) ==
    \/ Answered(c) \/ AnsweredCancelled(c)
    \/ Drain(c) \/ Clone(c) \/ Send(c) \/ SendsOver(c) \/ Settle(c) \/ Unflag(c)
    \/ FinishRead(c) \/ FinishPlain(c)
    \/ Enqueue(c) \/ EnqueueTorn(c) \/ EnqueueUnclosed(c) \/ EnqueueUnwritten(c)
    \/ SyncState(c) \/ SyncRead(c) \/ FinishSyncRead(c) \/ SyncEnd(c)

Start(c) ==
    \/ \E xs \in Targets : Write(c, xs)
    \/ \E i \in 1..Len(Views) : Read(c, i)
    \/ Other(c)
    \/ StartSync(c)

Next == (\E c \in Calls : Start(c) \/ Step(c)) \/ Restart \/ Outage

Spec == Init /\ [][Next]_vars

-----------------------------------------------------------------------------
(* Safety *)

InQueue(q) == {q[k].id : k \in 1..Len(q)}
Flushing(c) == pc[c] \in {"clone", "send", "settle", "unflag"}
Lost == accepted \ (delivered \cup refused \cup InQueue(pending))

(* At most one call is inside a flush, and the flag says whether one is:   *)
(* drain (offline.go) guards the flush with Store.flushing, so a change is *)
(* never in two clones at once.                                            *)
OneFlusher ==
    /\ \A c, d \in Calls : Flushing(c) /\ Flushing(d) => c = d
    /\ flushing <=> \E c \in Calls : Flushing(c)

(* A change the user was told is saved, and that the store still owes the  *)
(* server, is in the queue file, unless its line joined an unfinished one: *)
(* ending the process cannot lose it, whatever other writes failed         *)
(* (queue.add writes before enqueue returns, queue.sent rewrites).         *)
Durable == accepted \cap InQueue(pending) \subseteq InQueue(file) \cup stray

(* The queue stays within its cap, in memory and on disk, whatever mix of  *)
(* overflows, flushes and restarts went before.                            *)
WithinCap == Len(pending) <= MaxQueued /\ Len(file) <= MaxQueued

(* Every change the store took and no longer holds was either settled with *)
(* the server or is in the count of losses the reader is shown (Dropped in *)
(* the snapshot, and what a sync reported before it cleared it).  An       *)
(* overflow during a flush counts a change that was already sent, and the  *)
(* end of that flush then takes one off the front that was not: the two    *)
(* errors have to cancel.                                                  *)
EveryLossIsAdmitted == Cardinality(Lost) <= dropped + told

(* Once the queue holds nothing for an item whose last queued change was   *)
(* delivered, the server's value is that change or a later one: replays,   *)
(* repeated ones after a restart too, end with the newest queued change.   *)
(* Excepted are a change an overflow pushed out, which is in the count of  *)
(* losses though it had been delivered once; one whose line joined an      *)
(* unfinished one, or is in the file though the user was told that it was  *)
(* not saved; and every change once an overflow moved the queue under a    *)
(* flush, or without the file.                                             *)
OfflineWritesWin ==
    spoiled \/ \A x \in Items :
        /\ \A k \in 1..Len(pending) : x \notin pending[k].items
        /\ lastQueued[x] \in delivered \ (refused \cup stray \cup pushed)
        => server[x] >= lastQueued[x]

(* A replay from the queue never puts an older change back over a newer    *)
(* one that had already reached the server.                                *)
ReplayNeverUndoes ==
    [][\A c \in Calls : pc[c] = "send" =>
          \A x \in Items : server'[x] >= server[x]]_vars

-----------------------------------------------------------------------------
(* Liveness *)

(* Goroutines run: a call that can move on does, as every request returns  *)
(* or times out.  Nothing makes the user act or the server come back.      *)
FairSpec == Spec /\ \A c \in Calls : WF_vars(Step(c))

(* A reader in use: every view is asked for again and again.               *)
UsedSpec == FairSpec /\ \A i \in 1..Len(Views) :
                           SF_vars(\E c \in Calls : Read(c, i))

(* A flush that begins ends, whatever the server answers: the flag cannot  *)
(* stay up and shut every later flush out.                                 *)
FlushEnds == []<>~flushing

(* If the server stays up, a reader in use ends up owing nothing.          *)
QueueDrains == <>[]up => <>[](pending = <<>> /\ file = <<>>)

(* ... and showing what the server holds, though a read that was under way *)
(* while the queue drained wrote an older answer over the cache.           *)
CacheConverges == <>[]up =>
    <>[](\A i \in 1..Len(Views) : \A x \in Views[i] : snap[x] = server[x])

=============================================================================
