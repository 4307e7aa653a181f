-------------------------- MODULE FeedScrapeProofs --------------------------
(* Theorems about the scrapes of a feed: its types, and then what they     *)
(* miss, and what they put back.                                           *)
EXTENDS FeedScrape, FiniteSetTheorems, SequenceTheorems, TLAPS

-----------------------------------------------------------------------------
(* Types *)

\* The constants of the code, of the instance, and what follows from them.
USE DEF Undated, Absent, NoCutoff, NotModified, Unknown

LEMMA EditionIsList ==
  ASSUME NEW e \in EditionNumbers
  PROVE  Editions[e] \in Seq(Articles)
BY FeedAssumption DEF EditionNumbers

LEMMA GoHomeTypes ==
  ASSUME TypeOK, NEW s \in Scrapers, GoHome(s)
  PROVE  /\ pc' \in [Scrapers -> {"idle", "fetch", "failed", "answered", "move",
                                  "validators", "window", "store"}]
         /\ job' \in [Scrapers -> Job]
         /\ \A t \in Scrapers :
               /\ pc'[t] \in {"validators", "window", "store"}
                  => job'[t].got # NotModified
               /\ pc'[t] # "store" => job'[t].todo = <<>>
         /\ aware' \in [Scrapers -> SUBSET Articles]
         /\ thinned' \subseteq Scrapers
<1>1. Idle \in Job
  <2>1. 1 \in HomeNumbers /\ <<>> \in Seq(Articles)
    BY FeedAssumption DEF HomeNumbers
  <2>2. QED
    BY <2>1 DEF Idle, Holding, Job
<1>2. Idle.todo = <<>>
  BY DEF Idle, Holding
<1>3. QED
  BY <1>1, <1>2 DEF GoHome, Goto, TypeOK

LEMMA ScraperTypes ==
  ASSUME TypeOK, NEW s \in Scrapers,
         NEW place \in {"idle", "fetch", "failed", "answered", "move",
                        "validators", "window", "store"},
         Goto(s, place),
         job' \in [Scrapers -> Job],
         \A t \in Scrapers \ {s} : job'[t] = job[t],
         place \in {"validators", "window", "store"} => job'[s].got # NotModified,
         place # "store" => job'[s].todo = <<>>
  PROVE  /\ pc' \in [Scrapers -> {"idle", "fetch", "failed", "answered", "move",
                                  "validators", "window", "store"}]
         /\ job' \in [Scrapers -> Job]
         /\ \A t \in Scrapers :
               /\ pc'[t] \in {"validators", "window", "store"}
                  => job'[t].got # NotModified
               /\ pc'[t] # "store" => job'[t].todo = <<>>
<1>1. \A t \in Scrapers : pc'[t] = IF t = s THEN place ELSE pc[t]
  BY DEF Goto, TypeOK
<1>2. pc' \in [Scrapers -> {"idle", "fetch", "failed", "answered", "move",
                            "validators", "window", "store"}]
  BY DEF Goto, TypeOK
<1>3. ASSUME NEW t \in Scrapers
      PROVE  /\ pc'[t] \in {"validators", "window", "store"}
                => job'[t].got # NotModified
             /\ pc'[t] # "store" => job'[t].todo = <<>>
  <2>1. CASE t = s
    BY <1>1, <2>1
  <2>2. CASE t # s
    <3>1. pc'[t] = pc[t] /\ job'[t] = job[t]
      BY <1>1, <2>2
    <3>2. QED
      BY <3>1 DEF TypeOK
  <2>3. QED
    BY <2>1, <2>2
<1>4. QED
  BY <1>2, <1>3

LEMMA MishapTypes ==
  ASSUME TypeOK, faults' = faults \/ Mishap
  PROVE  faults' \in 0 .. MaxFaults
BY FeedAssumption DEF Mishap, TypeOK

LEMMA InitTypes == Init => TypeOK
<1> SUFFICES ASSUME Init PROVE TypeOK
  OBVIOUS
<1>1. Idle \in Job
  <2>1. 1 \in HomeNumbers /\ <<>> \in Seq(Articles)
    BY FeedAssumption DEF HomeNumbers
  <2>2. QED
    BY <2>1 DEF Idle, Holding, Job
<1>2. /\ 1 \in HomeNumbers /\ 1 \in 1 .. MaxTime /\ 0 \in 0 .. MaxFaults
      /\ 1 \in EditionNumbers
  <2>1. Len(Editions) \in Nat /\ Len(Editions) > 0
    BY FeedAssumption
  <2>2. QED
    BY <2>1, FeedAssumption DEF HomeNumbers, EditionNumbers
<1>3. Idle.todo = <<>>
  BY DEF Idle, Holding
<1>4. QED
  BY <1>1, <1>2, <1>3 DEF Init, TypeOK

LEMMA ScrapeTypes ==
  ASSUME TypeOK, NEW s \in Scrapers,
         Begin(s) \/ Proceed(s) \/ FetchFails(s) \/ GiveUp(s)
  PROVE  TypeOK'
<1> USE DEF Goto, publisher, row, table, history
<1>1. CASE Begin(s)
  <2>1. /\ job' \in [Scrapers -> Job]
        /\ \A t \in Scrapers \ {s} : job'[t] = job[t]
        /\ job'[s].todo = job[s].todo
    <3> DEFINE j == [job[s] EXCEPT !.url = url, !.known = validator]
    <3>1. j \in Job /\ j.todo = job[s].todo
      BY DEF TypeOK, Job
    <3>2. job' = [job EXCEPT ![s] = j]
      BY <1>1 DEF Begin
    <3>3. QED
      BY <3>1, <3>2 DEF TypeOK
  <2>2. job[s].todo = <<>> /\ Goto(s, "fetch")
    BY <1>1 DEF Begin, TypeOK
  <2>3. QED
    BY <1>1, <2>1, <2>2, ScraperTypes DEF Begin, TypeOK
<1>2. CASE Fetch(s)
  <2>1. Landing(job[s].url) \in HomeNumbers
    BY DEF Landing, TypeOK, Job
  <2>2. /\ job' \in [Scrapers -> Job]
        /\ \A t \in Scrapers \ {s} : job'[t] = job[t]
        /\ job'[s].todo = job[s].todo
    <3> DEFINE j == [job[s] EXCEPT
                        !.landed = Landing(job[s].url),
                        !.got = IF job[s].known = edition THEN NotModified ELSE edition]
    <3>1. j \in Job /\ j.todo = job[s].todo
      BY <2>1 DEF TypeOK, Job
    <3>2. job' = [job EXCEPT ![s] = j]
      BY <1>2 DEF Fetch
    <3>3. QED
      BY <3>1, <3>2 DEF TypeOK
  <2>3. job[s].todo = <<>> /\ Goto(s, "answered")
    BY <1>2 DEF Fetch, TypeOK
  <2>4. QED
    BY <1>2, <2>2, <2>3, ScraperTypes DEF Fetch, TypeOK
<1>3. CASE FetchFails(s)
  BY <1>3, FeedAssumption DEF FetchFails, Mishap, TypeOK
<1>4. CASE MarkFailed(s)
  <2>1. faults' \in 0 .. MaxFaults /\ broken' \in BOOLEAN
    BY <1>4, MishapTypes DEF MarkFailed, TypeOK
  <2>2. GoHome(s)
    BY <1>4 DEF MarkFailed
  <2>3. QED
    BY <1>4, <2>1, <2>2, GoHomeTypes DEF MarkFailed, TypeOK
<1>5. CASE MarkHealthy(s)
  <2>1. faults' \in 0 .. MaxFaults /\ broken' \in BOOLEAN
    BY <1>5, MishapTypes DEF MarkHealthy, TypeOK
  <2>2. QED
    BY <1>5, <2>1 DEF MarkHealthy, TypeOK
<1>6. CASE RememberMove(s)
  <2>1. url' \in HomeNumbers
    BY <1>6 DEF RememberMove, TypeOK, Job
  <2>2. CASE job[s].got = NotModified
    BY <1>6, <2>1, <2>2, GoHomeTypes DEF RememberMove, TypeOK
  <2>3. CASE job[s].got # NotModified
    BY <1>6, <2>1, <2>3 DEF RememberMove, TypeOK
  <2>4. QED
    BY <2>2, <2>3
<1>7. CASE SaveValidators(s)
  BY <1>7 DEF SaveValidators, Stamp, TypeOK, Job
<1>8. CASE LookAtWindow(s)
  <2>1. job[s].got \in EditionNumbers
    BY <1>8 DEF LookAtWindow, TypeOK, Job
  <2>2. ASSUME NEW date \in Nat, StartsStoring(s, date)
        PROVE  /\ job' \in [Scrapers -> Job]
               /\ job'[s].got # NotModified
               /\ \A t \in Scrapers \ {s} : job'[t] = job[t]
    <3> DEFINE j == Holding(job[s].got, Editions[job[s].got], date)
    <3>1. 1 \in HomeNumbers
      BY FeedAssumption DEF HomeNumbers
    <3>2. Editions[job[s].got] \in Seq(Articles)
      BY <2>1, EditionIsList
    <3>3. job[s].got # NotModified
      BY <2>1 DEF EditionNumbers
    <3>4. j \in Job /\ j.got # NotModified
      BY <2>1, <3>1, <3>2, <3>3 DEF Holding, Job
    <3>5. job' = [job EXCEPT ![s] = j]
      BY <2>2 DEF StartsStoring
    <3>6. QED
      BY <3>4, <3>5 DEF TypeOK
  <2>3. /\ job' \in [Scrapers -> Job]
        /\ job'[s].got # NotModified
        /\ \A t \in Scrapers \ {s} : job'[t] = job[t]
    BY <1>8, <2>2 DEF LookAtWindow, Stored, TypeOK
  <2>4. faults' \in 0 .. MaxFaults /\ aware' \in [Scrapers -> SUBSET Articles]
    BY <1>8, MishapTypes DEF LookAtWindow, TypeOK
  <2>5. Goto(s, "store")
    BY <1>8 DEF LookAtWindow
  <2>6. QED
    BY <1>8, <2>3, <2>4, <2>5, ScraperTypes DEF LookAtWindow, TypeOK
<1>9. CASE Store(s)
  <2>1. Head(job[s].todo) \in Articles /\ Tail(job[s].todo) \in Seq(Articles)
    BY <1>9, HeadTailProperties DEF Store, TypeOK, Job
  <2>2. job' \in [Scrapers -> Job]
    BY <1>9, <2>1 DEF Store, TypeOK, Job
  <2>3. /\ pc' = pc /\ pc[s] = "store"
        /\ \A t \in Scrapers : job'[t].got = job[t].got /\ (t # s => job'[t] = job[t])
    BY <1>9 DEF Store, TypeOK, Job
  <2>4. /\ posts' \in [Articles -> Nat]
        /\ saved \subseteq {a \in Articles : posts'[a] # Absent}
        /\ elsewhere \subseteq {a \in Shared : posts'[a] = Absent}
        /\ pruned' \subseteq {a \in Articles : posts'[a] = Absent}
    <3> DEFINE a == Head(job[s].todo)
    <3>1. CASE UNCHANGED <<posts, pruned>>
      BY <3>1 DEF TypeOK
    <3>2. CASE ~UNCHANGED <<posts, pruned>>
      <4>1. /\ posts[a] = Absent /\ a \notin elsewhere
            /\ posts' = [posts EXCEPT ![a] =
                            IF Published[a] = Undated THEN now ELSE Published[a]]
            /\ pruned' = pruned \ {a}
        BY <1>9, <3>2 DEF Store, Put
      <4>2. now \in Nat \ {0} /\ Published[a] \in Nat
        BY <2>1, FeedAssumption DEF TypeOK
      <4>3. QED
        BY <2>1, <4>1, <4>2 DEF TypeOK
    <3>3. QED
      BY <3>1, <3>2
  <2>5. \A t \in Scrapers :
           /\ pc'[t] \in {"validators", "window", "store"} => job'[t].got # NotModified
           /\ pc'[t] # "store" => job'[t].todo = <<>>
    BY <2>3 DEF TypeOK
  <2>6. QED
    BY <1>9, <2>2, <2>4, <2>5 DEF Store, TypeOK
<1>10. CASE Finish(s)
  <2>1. holed' \subseteq EditionNumbers
    BY <1>10 DEF Finish, TypeOK
  <2>2. QED
    BY <1>10, <2>1, GoHomeTypes DEF Finish, TypeOK
<1>11. CASE GiveUp(s)
  <2>1. holed' \subseteq EditionNumbers
    <3>1. pc[s] = "window" \/ job[s].todo # <<>> => job[s].got \in EditionNumbers
      BY DEF TypeOK, Job
    <3>2. QED
      BY <1>11, <3>1 DEF GiveUp, TypeOK
  <2>2. QED
    BY <1>11, <2>1, GoHomeTypes, MishapTypes DEF GiveUp, TypeOK
<1>12. QED
  BY <1>1, <1>2, <1>3, <1>4, <1>5, <1>6, <1>7, <1>8, <1>9, <1>10, <1>11 DEF Proceed

LEMMA PruneTypes ==
  ASSUME TypeOK, NEW policy, Prune(policy)
  PROVE  TypeOK'
<1>1. PICK top \in SUBSET Stored, gone \in SUBSET (Stored \ saved) :
        /\ posts' = [a \in Articles |-> IF a \in gone THEN Absent ELSE posts[a]]
        /\ IF Stricter(policy)
           THEN /\ pruned' = {}
                /\ thinned' = {s \in Scrapers : pc[s] # "idle"}
                /\ holed' = EditionNumbers
                /\ aware' = [s \in Scrapers |-> {}]
           ELSE /\ pruned' = pruned \cup gone
                /\ UNCHANGED <<thinned, holed, aware>>
  BY DEF Prune
<1>2. /\ posts' \in [Articles -> Nat]
      /\ saved \subseteq {a \in Articles : posts'[a] # Absent}
      /\ elsewhere \subseteq {a \in Shared : posts'[a] = Absent}
      /\ pruned' \subseteq {a \in Articles : posts'[a] = Absent}
  BY <1>1, FeedAssumption DEF TypeOK, Stored
<1>3. /\ thinned' \subseteq Scrapers /\ holed' \subseteq EditionNumbers
      /\ aware' \in [Scrapers -> SUBSET Articles]
  BY <1>1 DEF TypeOK
<1>4. QED
  BY <1>2, <1>3 DEF Prune, TypeOK, publisher, row

LEMMA TypeStep == TypeOK /\ [Next]_vars => TypeOK'
<1> SUFFICES ASSUME TypeOK, [Next]_vars PROVE TypeOK'
  OBVIOUS
<1> USE DEF publisher, row, table, history
<1>1. CASE \E s \in Scrapers : Begin(s) \/ Proceed(s) \/ FetchFails(s) \/ GiveUp(s)
  BY <1>1, ScrapeTypes
<1>2. CASE \E policy \in Policies \cup {DefaultPolicy} : Prune(policy)
  BY <1>2, PruneTypes
<1>3. ASSUME NEW a \in Articles,
             Bookmark(a) \/ Unbookmark(a) \/ OtherFeedStores(a) \/ OtherFeedPrunes(a)
      PROVE  TypeOK'
  <2>1. /\ saved' \subseteq {b \in Articles : posts[b] # Absent}
        /\ elsewhere' \subseteq {b \in Shared : posts[b] = Absent}
        /\ UNCHANGED <<now, publisher, row, posts, pc, job, faults, history>>
    BY <1>3 DEF Bookmark, Unbookmark, OtherFeedStores, OtherFeedPrunes, TypeOK
  <2>2. QED
    BY <2>1 DEF TypeOK
<1>4. CASE Forget \/ Publish \/ Relocate \/ Tick
  <2>1. /\ now' \in 1 .. MaxTime
        /\ edition' \in EditionNumbers /\ home' \in HomeNumbers
        /\ validator' \in {Unknown} \cup EditionNumbers
    <3>1. Len(Editions) \in Nat
      BY FeedAssumption
    <3>2. now' \in 1 .. MaxTime /\ validator' \in {Unknown} \cup EditionNumbers
      BY <1>4, FeedAssumption DEF Forget, Publish, Relocate, Tick, TypeOK
    <3>3. home' \in HomeNumbers
      BY <1>4, FeedAssumption DEF Forget, Publish, Relocate, Tick, TypeOK, HomeNumbers
    <3>4. edition' \in EditionNumbers
      <4>1. edition' = edition \/ (edition < Len(Editions) /\ edition' = edition + 1)
        BY <1>4 DEF Forget, Publish, Relocate, Tick
      <4>2. QED
        BY <3>1, <4>1 DEF TypeOK, EditionNumbers
    <3>5. QED
      BY <3>2, <3>3, <3>4
  <2>2. UNCHANGED <<url, broken, table, pc, job, faults, history>>
    BY <1>4 DEF Forget, Publish, Relocate, Tick
  <2>3. QED
    BY <2>1, <2>2 DEF TypeOK
<1>5. CASE UNCHANGED vars
  BY <1>5 DEF vars, TypeOK
<1>6. QED
  BY <1>1, <1>2, <1>3, <1>4, <1>5 DEF Next

\* Every state of the feed is well typed; with it, no article is a post twice,
\* and a bookmark belongs to a post (the keys of src/sql/schema).
THEOREM TypeCorrect == Spec => []TypeOK
BY InitTypes, TypeStep, PTL DEF Spec

-----------------------------------------------------------------------------
(***************************************************************************)
(* Why the two places that decide what a feed keeps agree: the prune, and  *)
(* the scrape that passes over what the prune would delete.                *)
(*                                                                         *)
(* Everything rests on one fact: as many posts as are kept are at least as *)
(* new as some date, and remain so, as a scrape only adds posts and a      *)
(* prune that is no stricter than the aggregator's deletes from the oldest *)
(* end.  So what is outranked once stays outranked (lemmas GrowthIsGentle  *)
(* and PruneIsGentle), and a cutoff read before a prune is good after it.  *)
(***************************************************************************)

\* As many posts as are kept are at least this new.
KeptAbove(date) == Cardinality({b \in Stored : posts[b] >= date}) >= Keep

Whole(e) == \A a \in ToSet(Editions[e]) : Accounted(a)

\* A post that carries a date is ranked by it.
Ranked == \A a \in Stored : Published[a] # Undated => posts[a] = Published[a]

\* What the retention policy deleted, it would delete again.
PrunedOutranked == \A a \in pruned : Published[a] = Undated \/ Prunable(a)

\* A scrape that has seen the window knows what the policy deleted before,
\* and what it is done with is accounted for.
ScraperInv(s) ==
    /\ pc[s] # "store" => aware[s] = {} /\ job[s].cutoff = NoCutoff
    /\ \A a \in aware[s] :
          Published[a] = Undated \/ /\ Published[a] + Retention < now
                                    /\ job[s].cutoff # NoCutoff
                                    /\ Published[a] <= job[s].cutoff
    /\ s \notin thinned =>
          /\ job[s].cutoff # NoCutoff => KeptAbove(job[s].cutoff)
          /\ pc[s] = "store" =>
                \A a \in ToSet(Editions[job[s].got]) :
                    a \in ToSet(job[s].todo) \/ Accounted(a)

\* An edition is there in full if its validators are saved and nobody is about
\* to store it, and if a scrape is done that a stricter prune passed over.
EditionInv ==
    \A e \in EditionNumbers \ holed :
        /\ thinned # {} => Whole(e)
        /\ validator = e => Whole(e) \/ Storing(e)

FeedInv ==
    /\ TypeOK /\ Ranked /\ PrunedOutranked
    /\ \A s \in Scrapers : ScraperInv(s)
    /\ EditionInv

\* A step that takes nothing back: what is outranked remains so, and an article
\* that is accounted for remains so.
Gentle ==
    /\ \A date \in Nat : KeptAbove(date) => KeptAbove(date)'
    /\ now' \in Nat /\ now' >= now
    /\ \A a \in Articles : Accounted(a) => Accounted(a)'

-----------------------------------------------------------------------------
(* Sets of posts *)

LEMMA SmallerSet ==
  ASSUME NEW A \in SUBSET Articles, NEW B \in SUBSET A
  PROVE  /\ Cardinality(A) \in Nat /\ Cardinality(B) \in Nat
         /\ Cardinality(B) <= Cardinality(A)
<1>1. IsFiniteSet(A)
  BY FeedAssumption, FS_Subset
<1>2. QED
  BY <1>1, FS_Subset, FS_CardinalityType

LEMMA KeptBelow ==
  ASSUME TypeOK, NEW high \in Nat, NEW low \in Nat, low <= high, KeptAbove(high)
  PROVE  KeptAbove(low)
<1> DEFINE A == {b \in Stored : posts[b] >= low}
           B == {b \in Stored : posts[b] >= high}
<1>1. A \in SUBSET Articles /\ B \in SUBSET A
  BY DEF Stored, TypeOK
<1>2. /\ Cardinality(A) \in Nat /\ Cardinality(B) \in Nat
      /\ Cardinality(B) <= Cardinality(A)
  BY <1>1, SmallerSet
<1>3. Cardinality(B) >= Keep
  BY DEF KeptAbove
<1>4. Cardinality(A) >= Keep
  <2> HIDE DEF A, B
  <2>1. QED
    BY <1>2, <1>3, FeedAssumption
<1>5. QED
  BY <1>4 DEF KeptAbove

\* A step that deletes no post and lets no deletion be forgotten.
LEMMA GrowthIsGentle ==
  ASSUME TypeOK, TypeOK',
         now' >= now,
         \A a \in Articles : posts[a] # Absent => posts'[a] = posts[a],
         \A a \in pruned : a \in pruned' \/ posts'[a] # Absent
  PROVE  Gentle
<1>1. ASSUME NEW date \in Nat, KeptAbove(date) PROVE KeptAbove(date)'
  <2> DEFINE A == {b \in Stored : posts[b] >= date}
             B == {b \in Stored' : posts'[b] >= date}
  <2>1. B \in SUBSET Articles /\ A \in SUBSET B
    BY DEF Stored, TypeOK
  <2>2. /\ Cardinality(A) \in Nat /\ Cardinality(B) \in Nat
        /\ Cardinality(A) <= Cardinality(B)
    BY <2>1, SmallerSet
  <2>3. Cardinality(A) >= Keep
    BY <1>1 DEF KeptAbove
  <2>4. Cardinality(B) >= Keep
    <3> HIDE DEF A, B
    <3>1. QED
      BY <2>2, <2>3, FeedAssumption
  <2>5. QED
    BY <2>4 DEF KeptAbove
<1>2. now' \in Nat
  BY FeedAssumption DEF TypeOK
<1>3. ASSUME NEW a \in Articles, Accounted(a) PROVE Accounted(a)'
  <2>1. CASE posts[a] # Absent
    BY <2>1 DEF Accounted
  <2>2. CASE Prunable(a)
    <3>1. /\ Published[a] # Undated /\ Published[a] + Retention < now
          /\ KeptAbove(Published[a])
      BY <2>2 DEF Prunable, KeptAbove
    <3>2. Published[a] + Retention < now' /\ KeptAbove(Published[a])'
      BY <1>1, <1>2, <3>1, FeedAssumption DEF TypeOK
    <3>3. Prunable(a)'
      BY <3>1, <3>2 DEF Prunable, KeptAbove
    <3>4. QED
      BY <3>3 DEF Accounted
  <2>3. CASE Published[a] = Undated /\ a \in pruned
    BY <2>3 DEF Accounted
  <2>4. CASE a \in Shared
    BY <2>4 DEF Accounted
  <2>5. QED
    BY <1>3, <2>1, <2>2, <2>3, <2>4 DEF Accounted
<1>4. QED
  BY <1>1, <1>2, <1>3 DEF Gentle

\* The prune of a policy that keeps posts at least as long, and as many.
LEMMA PruneIsGentle ==
  ASSUME TypeOK, TypeOK', Ranked,
         NEW policy \in [age : Nat, keep : Nat], ~Stricter(policy), Prune(policy)
  PROVE  /\ Gentle
         /\ \A a \in pruned' \ pruned : Published[a] = Undated \/ Prunable(a)'
<1>1. PICK top \in SUBSET Stored :
        /\ IsNewest(top, policy.keep)
        /\ posts' = [a \in Articles |->
                        IF a \in {b \in Stored \ (top \cup saved) :
                                     posts[b] + policy.age < now}
                        THEN Absent ELSE posts[a]]
        /\ pruned' = pruned \cup {b \in Stored \ (top \cup saved) :
                                     posts[b] + policy.age < now}
  BY DEF Prune
<1> DEFINE gone == {b \in Stored \ (top \cup saved) : posts[b] + policy.age < now}
<1>2. /\ policy.age \in Nat /\ policy.keep \in Nat
      /\ policy.age >= Retention /\ policy.keep >= Keep
  BY FeedAssumption DEF Stricter
<1>3. now' = now /\ now \in Nat
  BY FeedAssumption DEF Prune, TypeOK
<1>4. /\ posts' \in [Articles -> Nat]
      /\ \A a \in Articles : posts'[a] = IF a \in gone THEN Absent ELSE posts[a]
  BY <1>1 DEF TypeOK
\* Once something at least as new as a date goes, the top is newer than it.
<1>5. ASSUME NEW date \in Nat, NEW b \in gone, posts[b] >= date
      PROVE  KeptAbove(date)'
  <2> DEFINE B == {c \in Stored' : posts'[c] >= date}
  <2>1. top # Stored
    OBVIOUS
  <2>2. Cardinality(top) = policy.keep
    BY <1>1, <2>1 DEF IsNewest
  <2>3. \A c \in top : posts[c] >= posts[b]
    BY <1>1 DEF IsNewest
  <2>4. \A c \in top : c \in Articles /\ posts[c] \in Nat /\ posts[c] # Absent
    BY DEF Stored, TypeOK
  <2>5. posts[b] \in Nat
    BY DEF Stored, TypeOK
  <2>6. \A c \in top : c \in Articles /\ posts'[c] = posts[c] /\ posts[c] >= date
    BY <1>4, <1>5, <2>3, <2>4, <2>5
  <2>7. B \in SUBSET Articles /\ top \in SUBSET B
    BY <2>4, <2>6 DEF Stored
  <2>8. Cardinality(B) \in Nat /\ Cardinality(top) <= Cardinality(B)
    BY <2>7, SmallerSet
  <2>9. Cardinality(B) >= Keep
    <3> HIDE DEF B
    <3>1. QED
      BY <1>2, <2>2, <2>8, FeedAssumption
  <2>10. QED
    BY <2>9 DEF KeptAbove
<1>6. ASSUME NEW date \in Nat, KeptAbove(date) PROVE KeptAbove(date)'
  <2> DEFINE A == {b \in Stored : posts[b] >= date}
             B == {b \in Stored' : posts'[b] >= date}
  <2>1. CASE \E b \in gone : posts[b] >= date
    BY <1>5, <2>1
  <2>2. CASE \A b \in gone : ~(posts[b] >= date)
    <3>1. A \in SUBSET B /\ B \in SUBSET Articles
      BY <1>4, <2>2 DEF Stored, TypeOK
    <3>2. /\ Cardinality(A) \in Nat /\ Cardinality(B) \in Nat
          /\ Cardinality(A) <= Cardinality(B)
      BY <3>1, SmallerSet
    <3>3. Cardinality(A) >= Keep
      BY <1>6 DEF KeptAbove
    <3>4. Cardinality(B) >= Keep
      <4> HIDE DEF A, B
      <4>1. QED
        BY <3>2, <3>3, FeedAssumption
    <3>5. QED
      BY <3>4 DEF KeptAbove
  <2>3. QED
    BY <2>1, <2>2
\* What goes is outranked afterwards.
<1>7. ASSUME NEW a \in gone, Published[a] # Undated PROVE Prunable(a)'
  <2>1. posts[a] = Published[a] /\ a \in Articles
    BY <1>7 DEF Ranked, Stored
  <2>2. Published[a] \in Nat /\ posts[a] + policy.age < now
    BY <2>1, FeedAssumption
  <2>3. Published[a] + Retention < now'
    BY <1>2, <1>3, <2>1, <2>2, FeedAssumption
  <2>4. KeptAbove(Published[a])'
    BY <1>5, <2>1, <2>2
  <2>5. QED
    BY <1>7, <2>3, <2>4 DEF Prunable, KeptAbove
<1>8. ASSUME NEW a \in Articles, Accounted(a) PROVE Accounted(a)'
  <2>1. CASE a \in gone
    <3>1. a \in pruned'
      BY <1>1, <2>1
    <3>2. QED
      BY <1>7, <2>1, <3>1 DEF Accounted
  <2>2. CASE a \notin gone /\ posts[a] # Absent
    BY <1>4, <2>2 DEF Accounted
  <2>3. CASE Prunable(a)
    <3>1. /\ Published[a] # Undated /\ Published[a] + Retention < now
          /\ KeptAbove(Published[a])
      BY <2>3 DEF Prunable, KeptAbove
    <3>2. Published[a] + Retention < now' /\ KeptAbove(Published[a])'
      BY <1>3, <1>6, <3>1, FeedAssumption
    <3>3. Prunable(a)'
      BY <3>1, <3>2 DEF Prunable, KeptAbove
    <3>4. QED
      BY <3>3 DEF Accounted
  <2>4. CASE Published[a] = Undated /\ a \in pruned
    BY <1>1, <2>4 DEF Accounted
  <2>5. CASE a \in Shared
    BY <2>5 DEF Accounted
  <2>6. QED
    BY <1>8, <2>1, <2>2, <2>3, <2>4, <2>5 DEF Accounted
<1>9. Gentle
  BY <1>3, <1>6, <1>8 DEF Gentle
<1>10. \A a \in pruned' \ pruned : Published[a] = Undated \/ Prunable(a)'
  BY <1>1, <1>7
<1>11. QED
  BY <1>9, <1>10

-----------------------------------------------------------------------------
(* Steps *)

\* The items that are left after the next one.
LEMMA NextItem ==
  ASSUME NEW q \in Seq(Articles), q # <<>>, NEW x \in ToSet(q)
  PROVE  x = Head(q) \/ x \in ToSet(Tail(q))
<1>1. PICK i \in DOMAIN q : x = q[i]
  BY DEF ToSet
<1>2. i \in 1 .. Len(q)
  OBVIOUS
<1>3. CASE i = 1
  BY <1>1, <1>3
<1>4. CASE i # 1
  <2>1. i - 1 \in 1 .. Len(Tail(q)) /\ Tail(q)[i - 1] = q[i]
    BY <1>2, <1>4, HeadTailProperties
  <2>2. i - 1 \in DOMAIN Tail(q)
    BY <2>1
  <2>3. QED
    BY <1>1, <2>1, <2>2 DEF ToSet
<1>5. QED
  BY <1>3, <1>4

LEMMA EditionItems ==
  ASSUME NEW e \in EditionNumbers
  PROVE  ToSet(Editions[e]) \subseteq Articles
<1>1. Editions[e] \in Seq(Articles)
  BY EditionIsList
<1>2. QED
  BY <1>1 DEF ToSet

LEMMA WholeStays ==
  ASSUME Gentle, NEW e \in EditionNumbers, Whole(e)
  PROVE  Whole(e)'
<1>1. \A a \in Articles : Accounted(a) => Accounted(a)'
  BY DEF Gentle
<1>2. \A a \in ToSet(Editions[e]) : a \in Articles /\ Accounted(a)
  BY EditionItems DEF Whole
<1>3. \A a \in ToSet(Editions[e]) : Accounted(a)'
  BY <1>1, <1>2
<1>4. QED
  BY <1>3 DEF Whole

\* A scrape that a gentle step leaves alone.
LEMMA ScraperStays ==
  ASSUME TypeOK, Gentle, NEW s \in Scrapers, ScraperInv(s),
         pc'[s] = pc[s], job'[s] = job[s], aware'[s] = aware[s],
         s \in thinned => s \in thinned'
  PROVE  ScraperInv(s)'
<1>1. pc'[s] # "store" => aware'[s] = {} /\ job'[s].cutoff = NoCutoff
  BY DEF ScraperInv
<1>2. ASSUME NEW a \in aware'[s]
      PROVE  Published[a] = Undated \/ /\ Published[a] + Retention < now'
                                       /\ job'[s].cutoff # NoCutoff
                                       /\ Published[a] <= job'[s].cutoff
  <2>1. a \in Articles /\ a \in aware[s]
    BY <1>2 DEF TypeOK
  <2>2. Published[a] \in Nat /\ now \in Nat /\ now' \in Nat /\ now' >= now
    BY <2>1, FeedAssumption DEF TypeOK, Gentle
  <2>3. QED
    BY <2>1, <2>2, FeedAssumption DEF ScraperInv
<1>3. ASSUME s \notin thinned', job'[s].cutoff # NoCutoff
      PROVE  KeptAbove(job[s].cutoff)'
  <2>1. PICK date \in Nat : date = job[s].cutoff /\ date = job'[s].cutoff
    BY DEF TypeOK, Job
  <2>2. KeptAbove(date)'
    <3>1. KeptAbove(job[s].cutoff)
      BY <1>3 DEF ScraperInv
    <3>2. KeptAbove(date)
      BY <2>1, <3>1
    <3>3. QED
      BY <3>2 DEF Gentle
  <2>3. QED
    BY <2>1, <2>2 DEF KeptAbove
<1>4. ASSUME s \notin thinned', pc'[s] = "store",
             NEW a \in ToSet(Editions[job'[s].got])
      PROVE  a \in ToSet(job'[s].todo) \/ Accounted(a)'
  <2>1. job[s].got \in EditionNumbers
    BY <1>4 DEF TypeOK, Job
  <2>2. a \in Articles
    BY <1>4, <2>1, EditionItems
  <2>3. QED
    BY <1>4, <2>2 DEF ScraperInv, Gentle
<1>5. QED
  BY <1>1, <1>2, <1>3, <1>4 DEF ScraperInv

\* A scrape outside of its storing phase.
LEMMA ScraperElsewhere ==
  ASSUME NEW s \in Scrapers,
         pc'[s] # "store", aware'[s] = {}, job'[s].cutoff = NoCutoff
  PROVE  ScraperInv(s)'
BY DEF ScraperInv

LEMMA OutrankedStays ==
  ASSUME TypeOK, Gentle, PrunedOutranked,
         \A a \in pruned' \ pruned : Published[a] = Undated \/ Prunable(a)'
  PROVE  PrunedOutranked'
<1>1. ASSUME NEW a \in Articles, Prunable(a) PROVE Prunable(a)'
  <2>1. /\ Published[a] # Undated /\ Published[a] + Retention < now
        /\ KeptAbove(Published[a])
    BY <1>1 DEF Prunable, KeptAbove
  <2>2. Published[a] \in Nat /\ now \in Nat /\ now' \in Nat /\ now' >= now
    BY FeedAssumption DEF TypeOK, Gentle
  <2>3. KeptAbove(Published[a])'
    BY <2>1, <2>2 DEF Gentle
  <2>4. Published[a] + Retention < now'
    BY <2>1, <2>2, FeedAssumption
  <2>5. QED
    BY <2>1, <2>3, <2>4 DEF Prunable, KeptAbove
<1>2. ASSUME NEW a \in pruned, Published[a] # Undated PROVE Prunable(a)'
  <2>1. a \in Articles /\ Prunable(a)
    BY <1>2 DEF PrunedOutranked, TypeOK
  <2>2. QED
    BY <1>1, <2>1
<1>3. \A a \in pruned' : Published[a] = Undated \/ Prunable(a)'
  BY <1>2
<1>4. QED
  BY <1>3 DEF PrunedOutranked

\* A step that leaves the posts as they are.
LEMMA PostsStay ==
  ASSUME TypeOK, TypeOK', Ranked, PrunedOutranked,
         UNCHANGED <<posts, pruned>>, now' >= now
  PROVE  Gentle /\ Ranked' /\ PrunedOutranked'
<1>1. Gentle
  BY GrowthIsGentle
<1>2. Ranked'
  BY DEF Ranked, Stored
<1>3. PrunedOutranked'
  BY <1>1, OutrankedStays
<1>4. QED
  BY <1>1, <1>2, <1>3

LEMMA NextIsArticle ==
  ASSUME TypeOK, NEW s \in Scrapers, Store(s)
  PROVE  /\ job[s].todo \in Seq(Articles) /\ job[s].todo # <<>>
         /\ Head(job[s].todo) \in Articles
<1>1. job[s].todo \in Seq(Articles) /\ job[s].todo # <<>>
  BY DEF Store, TypeOK, Job
<1>2. QED
  BY <1>1, HeadTailProperties

LEMMA StoreGrows ==
  ASSUME TypeOK, TypeOK', Ranked, PrunedOutranked, NEW s \in Scrapers, Store(s)
  PROVE  Gentle /\ Ranked' /\ PrunedOutranked'
<1> DEFINE a == Head(job[s].todo)
<1>1. now' = now /\ now \in Nat
  BY FeedAssumption DEF Store, TypeOK
<1>2. CASE UNCHANGED <<posts, pruned>>
  BY <1>1, <1>2, PostsStay
<1>3. CASE ~UNCHANGED <<posts, pruned>>
  <2>1. /\ posts[a] = Absent
        /\ posts' = [posts EXCEPT ![a] =
                        IF Published[a] = Undated THEN now ELSE Published[a]]
        /\ pruned' = pruned \ {a}
    BY <1>3 DEF Store, Put
  <2>2. a \in Articles /\ Published[a] \in Nat /\ now # Absent
    <3>1. a \in Articles
      BY NextIsArticle
    <3>2. \A b \in Articles : Published[b] \in Nat
      BY FeedAssumption
    <3>3. now # Absent
      BY FeedAssumption DEF TypeOK
    <3>4. QED
      BY <3>1, <3>2, <3>3
  <2>3. \A b \in Articles :
           posts'[b] = IF b = a THEN IF Published[a] = Undated THEN now ELSE Published[a]
                       ELSE posts[b]
    BY <2>1 DEF TypeOK
  <2>4. \A b \in Articles : posts[b] # Absent => posts'[b] = posts[b]
    BY <2>1, <2>3
  <2>5. \A b \in pruned : b \in pruned' \/ posts'[b] # Absent
    <3> HIDE DEF a
    <3>1. posts'[a] # Absent
      BY <2>2, <2>3
    <3>2. \A b \in pruned : b \in pruned' \/ b = a
      BY <2>1
    <3>3. QED
      BY <3>1, <3>2
  <2>6. Gentle
    <3> HIDE DEF a
    <3>1. QED
      BY <1>1, <2>4, <2>5, GrowthIsGentle
  <2>7. Ranked'
    BY <2>2, <2>3 DEF Ranked, Stored
  <2>8. PrunedOutranked'
    BY <2>1, <2>6, OutrankedStays
  <2>9. QED
    BY <2>6, <2>7, <2>8
<1>4. QED
  BY <1>2, <1>3

ScrapeStep(s) == Begin(s) \/ Proceed(s) \/ FetchFails(s) \/ GiveUp(s)

LEMMA ScrapeGrows ==
  ASSUME TypeOK, TypeOK', Ranked, PrunedOutranked, NEW s \in Scrapers, ScrapeStep(s)
  PROVE  Gentle /\ Ranked' /\ PrunedOutranked'
<1>1. CASE Store(s)
  BY <1>1, StoreGrows
<1>2. CASE ~Store(s)
  <2>1. UNCHANGED <<now, posts, pruned>>
    BY <1>2
    DEF ScrapeStep, Proceed, Begin, Fetch, FetchFails, MarkFailed, MarkHealthy,
        RememberMove, SaveValidators, LookAtWindow, Finish, GiveUp,
        table, history
  <2>2. now' >= now
    BY <2>1, FeedAssumption DEF TypeOK
  <2>3. QED
    BY <2>1, <2>2, PostsStay
<1>3. QED
  BY <1>1, <1>2

\* A scrape leaves the others alone.
LEMMA ScrapersApart ==
  ASSUME TypeOK, NEW s \in Scrapers, ScrapeStep(s), NEW t \in Scrapers \ {s}
  PROVE  /\ pc'[t] = pc[t] /\ job'[t] = job[t] /\ aware'[t] = aware[t]
         /\ t \in thinned => t \in thinned'
BY DEF ScrapeStep, Proceed, Begin, Fetch, FetchFails, MarkFailed, MarkHealthy,
       RememberMove, SaveValidators, LookAtWindow, StartsStoring, Store, Finish,
       GiveUp, GoHome, Goto, history, TypeOK

\* The cutoff is at least as new as whatever was outranked.
LEMMA CutoffOutranks ==
  ASSUME TypeOK, NEW cutoff \in Nat, IsCutoff(cutoff), NEW date \in Nat, KeptAbove(date)
  PROVE  cutoff # NoCutoff /\ date <= cutoff /\ KeptAbove(cutoff)
<1> DEFINE A == {b \in Stored : posts[b] >= date}
           B == {b \in Stored : posts[b] > cutoff}
<1>1. /\ Stored \in SUBSET Articles /\ A \in SUBSET Stored
      /\ A \in SUBSET Articles /\ B \in SUBSET Articles
  BY DEF Stored
<1>2. Cardinality(A) >= Keep
  BY DEF KeptAbove
<1>3. cutoff # NoCutoff
  <2>1. /\ Cardinality(A) \in Nat /\ Cardinality(Stored) \in Nat
        /\ Cardinality(A) <= Cardinality(Stored)
    BY <1>1, SmallerSet
  <2>2. ~(Cardinality(Stored) < Keep)
    <3> HIDE DEF A
    <3>1. QED
      BY <1>2, <2>1, FeedAssumption
  <2>3. QED
    BY <2>2 DEF IsCutoff
<1>4. date <= cutoff
  <2>1. SUFFICES ASSUME date > cutoff PROVE FALSE
    OBVIOUS
  <2>2. A \in SUBSET B
    BY <2>1 DEF Stored, TypeOK
  <2>3. /\ Cardinality(A) \in Nat /\ Cardinality(B) \in Nat
        /\ Cardinality(A) <= Cardinality(B)
    BY <1>1, <2>2, SmallerSet
  <2>4. Cardinality(B) < Keep
    BY <1>3 DEF IsCutoff
  <2>5. QED
    <3> HIDE DEF A, B
    <3>1. QED
      BY <1>2, <2>3, <2>4, FeedAssumption
<1>5. KeptAbove(cutoff)
  BY <1>3 DEF IsCutoff, KeptAbove
<1>6. QED
  BY <1>3, <1>4, <1>5

LEMMA LookInv ==
  ASSUME TypeOK, TypeOK', PrunedOutranked,
         NEW s \in Scrapers, ScraperInv(s), LookAtWindow(s)
  PROVE  ScraperInv(s)'
<1>1. UNCHANGED <<now, posts, pruned, thinned>>
  BY DEF LookAtWindow, table
<1>2. PICK cutoff \in Nat :
         /\ StartsStoring(s, cutoff)
         /\ \/ IsCutoff(cutoff) /\ aware' = [aware EXCEPT ![s] = pruned]
            \/ cutoff = NoCutoff /\ aware' = aware
  BY DEF LookAtWindow, Stored, TypeOK
<1>3. /\ job'[s].cutoff = cutoff /\ job'[s].got = job[s].got
      /\ job'[s].todo = Editions[job[s].got]
  BY <1>2 DEF StartsStoring, Holding, TypeOK
<1>4. pc'[s] = "store"
  BY DEF LookAtWindow, Goto, TypeOK
<1>5. ASSUME NEW a \in aware'[s], Published[a] # Undated
      PROVE  /\ Published[a] + Retention < now'
             /\ cutoff # NoCutoff /\ Published[a] <= cutoff
  <2>1. aware[s] = {}
    BY DEF ScraperInv, LookAtWindow
  <2>2. IsCutoff(cutoff) /\ a \in pruned
    BY <1>2, <1>5, <2>1 DEF TypeOK
  <2>3. Prunable(a) /\ Published[a] \in Nat
    BY <1>5, <2>2, FeedAssumption DEF PrunedOutranked, TypeOK
  <2>4. Published[a] + Retention < now /\ KeptAbove(Published[a])
    BY <2>3 DEF Prunable, KeptAbove
  <2>5. cutoff # NoCutoff /\ Published[a] <= cutoff
    BY <2>2, <2>3, <2>4, CutoffOutranks
  <2>6. QED
    BY <1>1, <2>4, <2>5
<1>6. ASSUME cutoff # NoCutoff PROVE KeptAbove(cutoff)'
  <2>1. KeptAbove(cutoff)
    BY <1>2, <1>6 DEF IsCutoff, KeptAbove
  <2>2. QED
    BY <1>1, <2>1 DEF KeptAbove, Stored
<1>7. KeptAbove(job[s].cutoff)' \/ cutoff = NoCutoff
  BY <1>3, <1>6 DEF KeptAbove
<1>8. QED
  BY <1>3, <1>4, <1>5, <1>7 DEF ScraperInv

LEMMA StoreInv ==
  ASSUME TypeOK, TypeOK', Gentle, NEW s \in Scrapers, ScraperInv(s), Store(s)
  PROVE  ScraperInv(s)'
<1>0. PICK a \in Articles : a = Head(job[s].todo)
  BY NextIsArticle
<1>1. /\ now' = now /\ pc[s] = "store" /\ pc' = pc
      /\ aware' = aware /\ thinned' = thinned
  BY DEF Store
<1>2. /\ job'[s].cutoff = job[s].cutoff /\ job'[s].got = job[s].got
      /\ job'[s].todo = Tail(job[s].todo)
  BY DEF Store, TypeOK, Job
<1>3. PICK date \in Nat : date = job[s].cutoff
  BY DEF TypeOK, Job
<1>4. ASSUME s \notin thinned, date # NoCutoff PROVE KeptAbove(date)'
  <2>1. KeptAbove(job[s].cutoff)
    BY <1>3, <1>4 DEF ScraperInv
  <2>2. KeptAbove(date)
    BY <1>3, <2>1
  <2>3. QED
    BY <2>2 DEF Gentle
<1>5. KeptAbove(job[s].cutoff)' \/ s \in thinned \/ date = NoCutoff
  BY <1>2, <1>3, <1>4 DEF KeptAbove
\* The item is a post now, or was passed over for a reason.
<1>6. ASSUME s \notin thinned PROVE Accounted(a)'
  <2>1. Published[a] \in Nat
    BY FeedAssumption
  <2>2. CASE Worthless(a, job[s].cutoff)
    <3>1. /\ Published[a] # Undated /\ Published[a] + Retention < now
          /\ date # NoCutoff /\ Published[a] < date
      BY <1>3, <2>2 DEF Worthless
    <3>2. KeptAbove(date)'
      BY <1>4, <1>6, <3>1
    <3>3. KeptAbove(Published[a])'
      <4>1. ASSUME NEW low \in Nat, low <= date PROVE KeptAbove(low)'
        <5> DEFINE A == {b \in Stored' : posts'[b] >= low}
                   B == {b \in Stored' : posts'[b] >= date}
        <5>1. A \in SUBSET Articles /\ B \in SUBSET A
          BY <4>1 DEF Stored, TypeOK
        <5>2. /\ Cardinality(A) \in Nat /\ Cardinality(B) \in Nat
              /\ Cardinality(B) <= Cardinality(A)
          BY <5>1, SmallerSet
        <5>3. Cardinality(B) >= Keep
          BY <3>2 DEF KeptAbove
        <5>4. Cardinality(A) >= Keep
          <6> HIDE DEF A, B
          <6>1. QED
            BY <5>2, <5>3, FeedAssumption
        <5>5. QED
          BY <5>4 DEF KeptAbove
      <4>2. Published[a] <= date
        BY <2>1, <3>1
      <4>3. QED
        BY <2>1, <4>1, <4>2
    <3>4. Prunable(a)'
      BY <1>1, <3>1, <3>3 DEF Prunable, KeptAbove
    <3>5. QED
      BY <3>4 DEF Accounted
  <2>3. CASE ~Worthless(a, job[s].cutoff)
    <3>1. Put(a)
      BY <1>0, <2>3 DEF Store
    <3>2. CASE posts[a] # Absent
      BY <3>1, <3>2 DEF Put, Accounted
    <3>3. CASE a \in elsewhere
      BY <3>3 DEF Accounted, TypeOK
    <3>4. CASE posts[a] = Absent /\ a \notin elsewhere
      <4>1. posts'[a] = IF Published[a] = Undated THEN now ELSE Published[a]
        BY <2>1, <3>1, <3>4 DEF Put, TypeOK
      <4>2. now # Absent
        BY FeedAssumption DEF TypeOK
      <4>3. QED
        BY <4>1, <4>2 DEF Accounted
    <3>5. QED
      BY <3>2, <3>3, <3>4
  <2>4. QED
    BY <2>2, <2>3
<1>7. ASSUME s \notin thinned, NEW b \in ToSet(Editions[job[s].got])
      PROVE  b \in ToSet(Tail(job[s].todo)) \/ Accounted(b)'
  <2>1. b \in Articles
    <3>1. job[s].got \in EditionNumbers
      BY <1>1 DEF TypeOK, Job
    <3>2. QED
      BY <1>7, <3>1, EditionItems
  <2>2. b \in ToSet(job[s].todo) \/ Accounted(b)
    BY <1>1, <1>7 DEF ScraperInv
  <2>3. CASE b \in ToSet(job[s].todo)
    <3>1. b = a \/ b \in ToSet(Tail(job[s].todo))
      BY <1>0, <2>3, NextItem, NextIsArticle
    <3>2. QED
      BY <1>6, <1>7, <3>1
  <2>4. CASE Accounted(b)
    BY <2>1, <2>4 DEF Gentle
  <2>5. QED
    BY <2>2, <2>3, <2>4
<1>8. \A b \in aware[s] :
         Published[b] = Undated \/ /\ Published[b] + Retention < now'
                                   /\ job[s].cutoff # NoCutoff
                                   /\ Published[b] <= job[s].cutoff
  BY <1>1 DEF ScraperInv
<1>9. QED
  BY <1>1, <1>2, <1>3, <1>5, <1>7, <1>8 DEF ScraperInv

LEMMA OwnInv ==
  ASSUME TypeOK, TypeOK', Gentle, PrunedOutranked,
         NEW s \in Scrapers, ScraperInv(s), ScrapeStep(s)
  PROVE  ScraperInv(s)'
<1>1. CASE LookAtWindow(s)
  BY <1>1, LookInv
<1>2. CASE Store(s)
  BY <1>2, StoreInv
<1>3. CASE \/ Begin(s) \/ Fetch(s) \/ FetchFails(s) \/ MarkHealthy(s)
           \/ SaveValidators(s)
           \/ (RememberMove(s) /\ job[s].got # NotModified)
  <2>1. pc[s] # "store" /\ pc'[s] # "store" /\ aware' = aware
    BY <1>3 DEF Begin, Fetch, FetchFails, MarkHealthy, SaveValidators, RememberMove,
                Goto, history, TypeOK
  <2>2. job'[s].cutoff = job[s].cutoff
    <3>1. CASE Begin(s)
      BY <3>1 DEF Begin, TypeOK, Job
    <3>2. CASE Fetch(s)
      BY <3>2 DEF Fetch, TypeOK, Job
    <3>3. CASE ~(Begin(s) \/ Fetch(s))
      BY <1>3, <3>3 DEF FetchFails, MarkHealthy, SaveValidators, RememberMove
    <3>4. QED
      BY <3>1, <3>2, <3>3
  <2>3. QED
    BY <2>1, <2>2, ScraperElsewhere DEF ScraperInv
<1>4. CASE \/ MarkFailed(s) \/ Finish(s) \/ GiveUp(s)
           \/ (RememberMove(s) /\ job[s].got = NotModified)
  <2>1. GoHome(s)
    BY <1>4 DEF MarkFailed, Finish, GiveUp, RememberMove
  <2>2. pc'[s] = "idle" /\ aware'[s] = {} /\ job'[s].cutoff = NoCutoff
    BY <2>1 DEF GoHome, Goto, Idle, Holding, TypeOK
  <2>3. QED
    BY <2>2, ScraperElsewhere
<1>5. QED
  BY <1>1, <1>2, <1>3, <1>4 DEF ScrapeStep, Proceed

\* What is still being stored, and what is there, is so after the step, but
\* for the edition of a scrape that ends.
LEMMA EditionsStay ==
  ASSUME TypeOK, Gentle, EditionInv,
         thinned' \subseteq thinned,
         validator' = validator \/ validator' = Unknown,
         NEW e \in EditionNumbers, e \notin holed,
         Storing(e) => Storing(e)' \/ Whole(e)
  PROVE  /\ thinned' # {} => Whole(e)'
         /\ validator' = e => Whole(e)' \/ Storing(e)'
<1>1. Whole(e) => Whole(e)'
  BY WholeStays
<1>2. thinned # {} => Whole(e)
  BY DEF EditionInv
<1>3. validator = e => Whole(e) \/ Storing(e)
  BY DEF EditionInv
<1>4. validator' = e => validator = e
  BY DEF EditionNumbers
<1>5. thinned' # {} => thinned # {}
  OBVIOUS
<1>6. QED
  BY <1>1, <1>2, <1>3, <1>4, <1>5

\* A scrape that has nothing left to store.
LEMMA StoredInFull ==
  ASSUME TypeOK, EditionInv, NEW s \in Scrapers, ScraperInv(s),
         pc[s] = "store", job[s].todo = <<>>,
         s \in thinned => job[s].got \notin holed
  PROVE  Whole(job[s].got)
<1>1. job[s].got \in EditionNumbers
  BY DEF TypeOK, Job
<1>2. CASE s \in thinned
  BY <1>1, <1>2 DEF EditionInv
<1>3. CASE s \notin thinned
  <2>1. ToSet(job[s].todo) = {}
    BY DEF ToSet
  <2>2. QED
    BY <1>3, <2>1 DEF ScraperInv, Whole
<1>4. QED
  BY <1>2, <1>3

LEMMA EditionsOfScrape ==
  ASSUME TypeOK, TypeOK', Gentle, EditionInv,
         NEW s \in Scrapers, ScraperInv(s), ScrapeStep(s)
  PROVE  EditionInv'
<1>1. thinned' \subseteq thinned
  BY DEF ScrapeStep, Proceed, Begin, Fetch, FetchFails, MarkFailed, MarkHealthy,
         RememberMove, SaveValidators, LookAtWindow, Store, Finish, GiveUp,
         GoHome, history
\* An edition another scrape is storing.
<1>2. ASSUME NEW e \in EditionNumbers, NEW t \in Scrapers, t # s,
             pc[t] \in {"window", "store"}, job[t].got = e
      PROVE  Storing(e)'
  <2>1. pc'[t] = pc[t] /\ job'[t] = job[t]
    BY <1>2, ScrapersApart
  <2>2. QED
    BY <1>2, <2>1 DEF Storing
<1>3. CASE SaveValidators(s)
  <2>1. holed' = holed /\ job' = job /\ pc'[s] = "window"
    BY <1>3 DEF SaveValidators, Goto, history, TypeOK
  <2>2. ASSUME NEW e \in EditionNumbers, Storing(e) PROVE Storing(e)'
    <3>1. PICK t \in Scrapers : pc[t] \in {"window", "store"} /\ job[t].got = e
      BY <2>2 DEF Storing
    <3>2. QED
      BY <1>2, <1>3, <3>1 DEF SaveValidators
  <2>3. ASSUME NEW e \in EditionNumbers, e \notin holed
        PROVE  /\ thinned' # {} => Whole(e)'
               /\ validator' = e => Whole(e)' \/ Storing(e)'
    <3>1. CASE validator' = validator
      BY <1>1, <2>2, <2>3, <3>1, EditionsStay
    <3>2. CASE validator' # validator
      <4>1. validator' = e => job'[s].got = e
        BY <1>3, <2>1, <3>2 DEF SaveValidators, Stamp, EditionNumbers
      <4>2. validator' = e => Storing(e)'
        BY <2>1, <4>1 DEF Storing
      <4>3. thinned # {} => Whole(e) /\ Whole(e)'
        BY <2>3, WholeStays DEF EditionInv
      <4>4. QED
        BY <1>1, <4>2, <4>3
    <3>3. QED
      BY <3>1, <3>2
  <2>4. QED
    BY <2>1, <2>3 DEF EditionInv
<1>4. CASE Finish(s) \/ GiveUp(s)
  <2>1. validator' = validator
    BY <1>4 DEF Finish, GiveUp, row
  <2>2. ASSUME NEW e \in EditionNumbers, e \notin holed, e \notin holed'
        PROVE  Storing(e) => Storing(e)' \/ Whole(e)
    <3>1. SUFFICES ASSUME NEW t \in Scrapers,
                          pc[t] \in {"window", "store"}, job[t].got = e
                   PROVE  Storing(e)' \/ Whole(e)
      BY DEF Storing
    <3>2. CASE t # s
      BY <1>2, <3>1, <3>2
    <3>3. CASE t = s
      <4>1. pc[s] = "store" /\ job[s].todo = <<>>
        BY <1>4, <2>2, <3>1, <3>3 DEF Finish, GiveUp
      <4>2. QED
        BY <2>2, <3>1, <3>3, <4>1, StoredInFull
    <3>4. QED
      BY <3>2, <3>3
  <2>3. ASSUME NEW e \in EditionNumbers, e \notin holed'
        PROVE  /\ thinned' # {} => Whole(e)'
               /\ validator' = e => Whole(e)' \/ Storing(e)'
    <3>1. CASE e \in holed
      <4>1. /\ Finish(s) /\ s \notin thinned /\ e = job[s].got
            /\ pc[s] = "store" /\ job[s].todo = <<>>
        BY <1>4, <2>3, <3>1 DEF Finish, GiveUp
      <4>2. Whole(e)
        BY <4>1, StoredInFull
      <4>3. QED
        BY <4>2, WholeStays
    <3>2. CASE e \notin holed
      BY <1>1, <2>1, <2>2, <2>3, <3>2, EditionsStay
    <3>3. QED
      BY <3>1, <3>2
  <2>4. QED
    BY <2>3 DEF EditionInv
<1>5. CASE ~(SaveValidators(s) \/ Finish(s) \/ GiveUp(s))
  <2>1. validator' = validator /\ holed' = holed
    BY <1>5 DEF ScrapeStep, Proceed, Begin, Fetch, FetchFails, MarkFailed, MarkHealthy,
                RememberMove, LookAtWindow, Store, GoHome, row, history
  <2>2. ASSUME pc[s] \in {"window", "store"}
        PROVE  pc'[s] \in {"window", "store"} /\ job'[s].got = job[s].got
    <3>1. CASE LookAtWindow(s)
      BY <3>1 DEF LookAtWindow, StartsStoring, Holding, Goto, TypeOK
    <3>2. CASE Store(s)
      BY <3>2 DEF Store, TypeOK, Job
    <3>3. QED
      BY <1>5, <2>2, <3>1, <3>2
      DEF ScrapeStep, Proceed, Begin, Fetch, FetchFails, MarkFailed, MarkHealthy,
          RememberMove
  <2>3. ASSUME NEW e \in EditionNumbers, Storing(e) PROVE Storing(e)'
    <3>1. PICK t \in Scrapers : pc[t] \in {"window", "store"} /\ job[t].got = e
      BY <2>3 DEF Storing
    <3>2. CASE t = s
      BY <2>2, <3>1, <3>2 DEF Storing
    <3>3. CASE t # s
      BY <1>2, <3>1, <3>3
    <3>4. QED
      BY <3>2, <3>3
  <2>4. ASSUME NEW e \in EditionNumbers, e \notin holed
        PROVE  /\ thinned' # {} => Whole(e)'
               /\ validator' = e => Whole(e)' \/ Storing(e)'
    BY <1>1, <2>1, <2>3, <2>4, EditionsStay
  <2>5. QED
    BY <2>1, <2>4 DEF EditionInv
<1>6. QED
  BY <1>3, <1>4, <1>5

\* A gentle step that leaves the scrapes alone.
LEMMA ScrapesStay ==
  ASSUME FeedInv, TypeOK', Gentle, Ranked', PrunedOutranked',
         UNCHANGED <<pc, job, aware, thinned, holed>>,
         validator' = validator \/ validator' = Unknown
  PROVE  FeedInv'
<1>1. \A s \in Scrapers : ScraperInv(s)'
  BY ScraperStays DEF FeedInv
<1>2. EditionInv'
  <2>1. ASSUME NEW e \in EditionNumbers PROVE Storing(e) => Storing(e)'
    BY DEF Storing
  <2>2. ASSUME NEW e \in EditionNumbers, e \notin holed
        PROVE  /\ thinned' # {} => Whole(e)'
               /\ validator' = e => Whole(e)' \/ Storing(e)'
    BY <2>1, <2>2, EditionsStay DEF FeedInv
  <2>3. QED
    BY <2>2 DEF EditionInv
<1>3. QED
  BY <1>1, <1>2 DEF FeedInv

LEMMA PruneInv ==
  ASSUME FeedInv, TypeOK', NEW policy \in [age : Nat, keep : Nat], Prune(policy)
  PROVE  FeedInv'
<1>1. UNCHANGED <<pc, job, now, validator>>
  BY DEF Prune, row
<1>2. PICK gone \in SUBSET Stored :
         /\ posts' = [a \in Articles |-> IF a \in gone THEN Absent ELSE posts[a]]
         /\ Stricter(policy) =>
               /\ pruned' = {} /\ holed' = EditionNumbers
               /\ thinned' = {s \in Scrapers : pc[s] # "idle"}
               /\ aware' = [s \in Scrapers |-> {}]
         /\ ~Stricter(policy) => UNCHANGED <<thinned, holed, aware>>
  BY DEF Prune
<1>3. Ranked'
  BY <1>2 DEF FeedInv, Ranked, Stored
<1>4. CASE ~Stricter(policy)
  <2>1. /\ Gentle
        /\ \A a \in pruned' \ pruned : Published[a] = Undated \/ Prunable(a)'
    BY <1>4, PruneIsGentle DEF FeedInv
  <2>2. PrunedOutranked'
    BY <2>1, OutrankedStays DEF FeedInv
  <2>3. QED
    BY <1>1, <1>2, <1>3, <1>4, <2>1, <2>2, ScrapesStay
<1>5. CASE Stricter(policy)
  <2>1. PrunedOutranked'
    BY <1>2, <1>5 DEF PrunedOutranked
  <2>2. EditionInv'
    BY <1>2, <1>5 DEF EditionInv
  <2>3. ASSUME NEW s \in Scrapers PROVE ScraperInv(s)'
    <3>1. aware'[s] = {}
      BY <1>2, <1>5
    <3>2. CASE pc[s] # "store"
      <4>1. pc'[s] # "store" /\ job'[s].cutoff = NoCutoff
        BY <1>1, <3>2 DEF FeedInv, ScraperInv
      <4>2. QED
        BY <3>1, <4>1, ScraperElsewhere
    <3>3. CASE pc[s] = "store"
      <4>1. s \in thinned' /\ pc'[s] = "store"
        BY <1>1, <1>2, <1>5, <3>3
      <4>2. QED
        BY <3>1, <4>1 DEF ScraperInv
    <3>4. QED
      BY <3>2, <3>3
  <2>4. QED
    BY <1>3, <2>1, <2>2, <2>3 DEF FeedInv
<1>6. QED
  BY <1>4, <1>5

LEMMA ScrapeInv ==
  ASSUME FeedInv, TypeOK', NEW s \in Scrapers, ScrapeStep(s)
  PROVE  FeedInv'
<1>1. Gentle /\ Ranked' /\ PrunedOutranked'
  BY ScrapeGrows DEF FeedInv
<1>2. ASSUME NEW t \in Scrapers PROVE ScraperInv(t)'
  <2>1. CASE t = s
    BY <1>1, <2>1, OwnInv DEF FeedInv
  <2>2. CASE t # s
    <3>1. /\ pc'[t] = pc[t] /\ job'[t] = job[t] /\ aware'[t] = aware[t]
          /\ t \in thinned => t \in thinned'
      BY <2>2, ScrapersApart DEF FeedInv
    <3>2. QED
      BY <1>1, <3>1, ScraperStays DEF FeedInv
  <2>3. QED
    BY <2>1, <2>2
<1>3. EditionInv'
  BY <1>1, EditionsOfScrape DEF FeedInv
<1>4. QED
  BY <1>1, <1>2, <1>3 DEF FeedInv

LEMMA FeedInvInit == Init => FeedInv
<1> SUFFICES ASSUME Init PROVE FeedInv
  OBVIOUS
<1>1. TypeOK
  BY InitTypes
<1>2. Ranked /\ PrunedOutranked /\ EditionInv
  BY DEF Init, Ranked, Stored, PrunedOutranked, EditionInv, EditionNumbers
<1>3. ASSUME NEW s \in Scrapers PROVE ScraperInv(s)
  <2>1. pc[s] = "idle" /\ aware[s] = {} /\ job[s].cutoff = NoCutoff
    BY DEF Init, Idle, Holding
  <2>2. QED
    BY <2>1 DEF ScraperInv
<1>4. QED
  BY <1>1, <1>2, <1>3 DEF FeedInv

LEMMA FeedInvStep == FeedInv /\ [Next]_vars => FeedInv'
<1> SUFFICES ASSUME FeedInv, [Next]_vars PROVE FeedInv'
  OBVIOUS
<1>1. TypeOK'
  BY TypeStep DEF FeedInv
<1>2. CASE \E s \in Scrapers : Begin(s) \/ Proceed(s) \/ FetchFails(s) \/ GiveUp(s)
  BY <1>1, <1>2, ScrapeInv DEF ScrapeStep
<1>3. CASE \E policy \in Policies \cup {DefaultPolicy} : Prune(policy)
  <2>1. Policies \cup {DefaultPolicy} \subseteq [age : Nat, keep : Nat]
    BY FeedAssumption DEF DefaultPolicy
  <2>2. QED
    BY <1>1, <1>3, <2>1, PruneInv
<1>4. CASE \/ \E a \in Articles : \/ Bookmark(a) \/ Unbookmark(a)
                                  \/ OtherFeedStores(a) \/ OtherFeedPrunes(a)
           \/ Forget \/ Publish \/ Relocate \/ Tick \/ UNCHANGED vars
  <2>1. /\ UNCHANGED <<posts, pruned, pc, job, aware, thinned, holed>>
        /\ now' = now \/ now' = now + 1
        /\ validator' = validator \/ validator' = Unknown
    BY <1>4 DEF Bookmark, Unbookmark, OtherFeedStores, OtherFeedPrunes, Forget,
                Publish, Relocate, Tick, vars, table, row, history
  <2>2. now' >= now
    BY <2>1, FeedAssumption DEF FeedInv, TypeOK
  <2>3. Gentle /\ Ranked' /\ PrunedOutranked'
    BY <1>1, <2>1, <2>2, PostsStay DEF FeedInv
  <2>4. QED
    BY <1>1, <2>1, <2>3, ScrapesStay
<1>5. QED
  BY <1>2, <1>3, <1>4 DEF Next

LEMMA FeedInvAlways == Spec => []FeedInv
BY FeedInvInit, FeedInvStep, PTL DEF Spec

-----------------------------------------------------------------------------
(* Theorems *)

\* A feed never waits behind its validators for an article it should have:
\* what the next conditional request does not ask for again is stored, or is
\* what the retention policy does not keep (Scrape, worthless, PrunePosts).
THEOREM NothingIsMissed == Spec => []NothingMissed
<1>1. FeedInv => NothingMissed
  BY DEF FeedInv, EditionInv, NothingMissed, Whole
<1>2. QED
  BY <1>1, FeedInvAlways, PTL

\* A scrape does not put back what the retention policy deleted before it
\* looked at the window (prunableBefore, worthless), but for an article with no
\* date, and one of the date of the cutoff.
THEOREM PrunedIsGone == Spec => PrunedStaysOut
<1> DEFINE Quiet == \A s \in Scrapers :
              Store(s) => LET a == Head(job[s].todo)
                          IN  a \in aware[s] /\ posts[a] # posts'[a]
                              => Published[a] \in {Undated, job[s].cutoff}
<1>1. ASSUME FeedInv PROVE Quiet
  <2>1. SUFFICES ASSUME NEW s \in Scrapers, Store(s), Head(job[s].todo) \in aware[s],
                        posts[Head(job[s].todo)] # posts'[Head(job[s].todo)]
                 PROVE  Published[Head(job[s].todo)] \in {Undated, job[s].cutoff}
    OBVIOUS
  <2> DEFINE a == Head(job[s].todo)
  <2>2. ~Worthless(a, job[s].cutoff)
    BY <2>1 DEF Store
  <2>3. \/ Published[a] = Undated
        \/ /\ Published[a] + Retention < now
           /\ job[s].cutoff # NoCutoff /\ Published[a] <= job[s].cutoff
    BY <1>1, <2>1 DEF FeedInv, ScraperInv
  <2>4. Published[a] \in Nat /\ job[s].cutoff \in Nat
    <3>1. a \in Articles
      BY <1>1, <2>1, NextIsArticle DEF FeedInv
    <3>2. QED
      BY <1>1, <3>1, FeedAssumption DEF FeedInv, TypeOK, Job
  <2>5. QED
    BY <2>2, <2>3, <2>4 DEF Worthless
<1>2. Spec => [][Quiet]_vars
  BY <1>1, FeedInvAlways, PTL DEF Spec
<1>3. QED
  BY <1>2 DEF PrunedStaysOut
=============================================================================
