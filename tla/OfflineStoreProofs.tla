------------------------- MODULE OfflineStoreProofs -------------------------
(***************************************************************************)
(* Theorems about the offline store, for any number of calls, items,       *)
(* changes and restarts, any cap, any reads, and every mix of overflows,   *)
(* flushes and failed sends.                                               *)
(***************************************************************************)
EXTENDS OfflineOutbox, SequenceTheorems, FiniteSetTheorems, TLAPS

-----------------------------------------------------------------------------
(* Lemmas about the operators *)

LEMMA NothingType == Nothing \in Request
  BY ConstantsAssumption, Z3 DEF Nothing, Request, Asked, Cached, Outcome

LEMMA PlainType ==
  ASSUME NEW out \in Outcome
  PROVE  Plain(out) \in Request
  BY NothingType DEF Plain, Request, Asked

LEMMA RepliesType ==
  ASSUME NEW r \in Replies
  PROVE  r.out \in Outcome /\ r.applied \in BOOLEAN
  BY DEF Replies

(* What is left of a queue without its first n changes.                    *)
LEMMA DropFirstProperties ==
  ASSUME NEW S, NEW s \in Seq(S), NEW n \in 0..Len(s)
  PROVE  /\ DropFirst(s, n) \in Seq(S)
         /\ Len(DropFirst(s, n)) = Len(s) - n
         /\ \A k \in 1..(Len(s) - n) : DropFirst(s, n)[k] = s[n + k]
<1>1. \A k \in (n + 1)..Len(s) : s[k] \in S
  BY ElementOfSeq
<1>2. QED
  BY <1>1, SubSeqProperties DEF DropFirst

(* What the store does to the record of a call keeps it a request.         *)
LEMMA RequestUpdate ==
  ASSUME NEW q \in Request
  PROVE  /\ \A o \in Outcome : [q EXCEPT !.out = o] \in Request
         /\ \A n \in Nat : [q EXCEPT !.report = n] \in Request
         /\ \A i \in 0..Len(Views), o \in Outcome, a \in [Items -> Cached] :
              [q EXCEPT !.view = i, !.out = o, !.answer = a] \in Request
  BY DEF Request, Asked

LEMMA CarryType ==
  ASSUME TypeOK, NEW ch \in Change
  PROVE  Carry(ch) \in [Items -> Version]
  BY DEF TypeOK, Carry, Apply, Change, Ids, Version

LEMMA AnswerType ==
  ASSUME TypeOK, NEW i \in 1..Len(Views)
  PROVE  AnswerOf(i) \in [Items -> Cached]
  BY DEF TypeOK, AnswerOf, Cached, Version

LEMMA OldestType ==
  ASSUME TypeOK, NEW n \in 0..Len(pending)
  PROVE  Oldest(n) \subseteq Ids
<1>1. \A k \in 1..n : k \in 1..Len(pending) /\ pending[k] \in Change
  BY ElementOfSeq DEF TypeOK
<1>2. QED
  BY <1>1 DEF Oldest, Change

-----------------------------------------------------------------------------
(* Types *)

LEMMA TypeInit == Init => TypeOK
<1> SUFFICES ASSUME Init PROVE TypeOK
  OBVIOUS
<1>1. req \in [Calls -> Request]
  BY NothingType DEF Init
<1>2. /\ pending \in Seq(Change) /\ file \in Seq(Change)
      /\ batch \in [Calls -> Seq(Change)]
  BY EmptySeq DEF Init
<1>3. TypeOK
  <2>1. up \in BOOLEAN /\ online \in BOOLEAN /\ flushing \in BOOLEAN
        /\ torn \in BOOLEAN /\ spoiled \in BOOLEAN
    BY Zenon DEF Init
  <2>2. MaxChanges \in Nat /\ MaxRestarts \in Nat
    BY ConstantsAssumption
  <2>3. /\ made \in Version /\ restarts \in 0..MaxRestarts
        /\ snap \in [Items -> Cached] /\ savedSnap \in [Items -> Cached]
        /\ server \in [Items -> Version] /\ lastQueued \in [Items -> Version]
    BY <2>2 DEF Init, Cached, Version
  <2>4. /\ accepted \subseteq Ids /\ delivered \subseteq Ids /\ refused \subseteq Ids
        /\ dropped \in Nat /\ savedDropped \in Nat /\ told \in Nat
        /\ done \in [Calls -> Nat]
        /\ pc \in [Calls -> {"idle", "answered", "drain", "clone", "send",
                             "settle", "unflag", "finish", "next"}]
        /\ stray \subseteq Ids /\ pushed \subseteq Ids
    BY DEF Init
  <2>5. QED
    BY <1>1, <1>2, <2>1, <2>3, <2>4 DEF TypeOK
<1>4. QED
  BY <1>3

LEMMA TypeStart ==
  ASSUME TypeOK, NEW c \in Calls, Start(c)
  PROVE  TypeOK'
<1>1. ASSUME NEW xs \in Targets, Write(c, xs)
      PROVE  TypeOK'
  <2> DEFINE ch == [id |-> made + 1, items |-> xs]
  <2>1. ch \in Change /\ made + 1 \in Version
    BY <1>1, ConstantsAssumption DEF Write, Targets, Change, Ids, Version, TypeOK
  <2>2. PICK r \in Replies :
          /\ server' = IF r.applied THEN Carry(ch) ELSE server
          /\ req' = [req EXCEPT ![c] =
               IF r.out = "unreachable"
               THEN [Nothing EXCEPT !.op = "write", !.out = r.out, !.change = ch]
               ELSE Plain(r.out)]
    BY <1>1 DEF Write
  <2>3. server' \in [Items -> Version]
    BY <2>1, <2>2, CarryType DEF TypeOK
  <2>4. [Nothing EXCEPT !.op = "write", !.out = r.out, !.change = ch] \in Request
    BY <2>1, NothingType, RepliesType DEF Request, Asked
  <2>5. req' \in [Calls -> Request]
    BY <2>2, <2>4, RepliesType, PlainType DEF TypeOK
  <2>6. QED
    BY <1>1, <2>1, <2>3, <2>5 DEF Write, TypeOK, memory, disk
<1>2. ASSUME NEW i \in 1..Len(Views), Read(c, i)
      PROVE  TypeOK'
  <2>1. PICK r \in Replies :
          req' = [req EXCEPT ![c] =
            IF r.out = "ok"
            THEN [Nothing EXCEPT !.op = "read", !.view = i, !.answer = AnswerOf(i)]
            ELSE Plain(r.out)]
    BY <1>2 DEF Read
  <2>2. AnswerOf(i) \in [Items -> Cached]
    BY AnswerType
  <2>3. i \in 0..Len(Views)
    BY ConstantsAssumption
  <2>4. [Nothing EXCEPT !.op = "read", !.view = i, !.answer = AnswerOf(i)] \in Request
    BY <2>2, <2>3, NothingType DEF Request, Asked
  <2>5. req' \in [Calls -> Request]
    BY <2>1, <2>4, RepliesType, PlainType DEF TypeOK
  <2>6. QED
    BY <1>2, <2>5 DEF Read, TypeOK, memory, disk, remote, history
<1>3. CASE Other(c)
  <2>1. PICK r \in Replies :
          req' = [req EXCEPT ![c] = Plain(r.out)]
    BY <1>3 DEF Other
  <2>2. Plain(r.out) \in Request
    BY RepliesType, PlainType
  <2>3. req' \in [Calls -> Request]
    BY <2>1, <2>2 DEF TypeOK
  <2>4. QED
    BY <1>3, <2>3 DEF Other, TypeOK, memory, disk, remote, history
<1>4. CASE StartSync(c)
  <2>1. [Nothing EXCEPT !.op = "sync"] \in Request
    BY NothingType DEF Request, Asked
  <2>2. req' \in [Calls -> Request]
    BY <1>4, <2>1 DEF StartSync, TypeOK
  <2>3. QED
    BY <1>4, <2>2 DEF StartSync, TypeOK, memory, disk, remote, history
<1>5. QED
  BY <1>1, <1>2, <1>3, <1>4 DEF Start

LEMMA ReturnType ==
  ASSUME TypeOK, NEW c \in Calls, Return(c)
  PROVE  /\ req' \in [Calls -> Request]
         /\ pc' \in [Calls -> {"idle", "answered", "drain", "clone", "send",
                              "settle", "unflag", "finish", "next"}]
  BY NothingType DEF Return, TypeOK

LEMMA UpdateType ==
  ASSUME TypeOK, NEW c \in Calls, Update(c)
  PROVE  /\ snap' \in [Items -> Cached]
         /\ savedSnap' \in [Items -> Cached]
         /\ savedDropped' \in Nat
<1>1. req[c].answer \in [Items -> Cached]
  BY DEF TypeOK, Request, Asked
<1>2. QED
  BY <1>1 DEF Update, SaveSnap, TypeOK

LEMMA TypeStep ==
  ASSUME TypeOK, NEW c \in Calls, Step(c)
  PROVE  TypeOK'
<1>1. CASE Answered(c)
  BY <1>1 DEF Answered, TypeOK, disk, remote, history
<1>2. CASE AnsweredCancelled(c)
  <2> DEFINE o == IF req[c].out = "ok" THEN "ok" ELSE "error"
  <2>1. o \in Outcome /\ req[c] \in Request
    BY DEF Outcome, TypeOK
  <2>2. req' = [req EXCEPT ![c] = [req[c] EXCEPT !.out = o]]
    BY <1>2 DEF AnsweredCancelled
  <2> HIDE DEF o
  <2>3. req' \in [Calls -> Request]
    BY <2>1, <2>2, RequestUpdate DEF TypeOK
  <2>4. QED
    BY <1>2, <2>3 DEF AnsweredCancelled, TypeOK, memory, disk, remote, history
<1>3. CASE Drain(c)
  <2>1. flushing' \in BOOLEAN
    BY <1>3 DEF Drain
  <2>2. QED
    BY <1>3, <2>1 DEF Drain, TypeOK, disk, remote, history
<1>4. CASE Clone(c)
  BY <1>4 DEF Clone, TypeOK, memory, disk, remote, history
<1>5. CASE Send(c)
  <2> DEFINE ch == batch[c][done[c] + 1]
  <2>1. ch \in Change
    BY <1>5, ElementOfSeq DEF Send, TypeOK
  <2>2. PICK r \in Replies :
         /\ server' = IF r.applied THEN Carry(ch) ELSE server
         /\ delivered' = IF r.out = "ok" THEN delivered \cup {ch.id} ELSE delivered
         /\ refused' = IF r.out = "gone" THEN refused \cup {ch.id} ELSE refused
         /\ IF r.out \in {"ok", "gone"}
            THEN done' = [done EXCEPT ![c] = @ + 1] /\ UNCHANGED <<pc, online>>
            ELSE /\ pc' = [pc EXCEPT ![c] = "settle"]
                 /\ online' = (online /\ r.out # "unreachable")
                 /\ UNCHANGED done
    BY <1>5 DEF Send
  <2> HIDE DEF ch
  <2>3. server' \in [Items -> Version]
    BY <2>1, <2>2, CarryType DEF TypeOK
  <2>4. delivered' \subseteq Ids /\ refused' \subseteq Ids
    BY <2>1, <2>2 DEF TypeOK, Change
  <2>5. /\ pc' \in [Calls -> {"idle", "answered", "drain", "clone", "send",
                            "settle", "unflag", "finish", "next"}]
        /\ done' \in [Calls -> Nat]
    <3>1. CASE r.out \in {"ok", "gone"}
      <4>1. done' = [done EXCEPT ![c] = @ + 1] /\ pc' = pc
        BY <2>2, <3>1
      <4>2. QED
        BY <4>1 DEF TypeOK
    <3>2. CASE r.out \notin {"ok", "gone"}
      <4>1. pc' = [pc EXCEPT ![c] = "settle"] /\ done' = done
        BY <2>2, <3>2
      <4>2. QED
        BY <4>1 DEF TypeOK
    <3>3. QED
      BY <3>1, <3>2
  <2>6. online' \in BOOLEAN
    <3>1. CASE r.out \in {"ok", "gone"}
      BY <2>2, <3>1 DEF TypeOK
    <3>2. CASE r.out \notin {"ok", "gone"}
      <4>1. online' = (online /\ r.out # "unreachable")
        BY <2>2, <3>2
      <4>2. QED
        BY <4>1, Zenon
    <3>3. QED
      BY <3>1, <3>2
  <2>7. QED
    BY <1>5, <2>3, <2>4, <2>5, <2>6 DEF Send, TypeOK, disk
<1>6. CASE SendsOver(c)
  BY <1>6 DEF SendsOver, TypeOK, memory, disk, remote, history
<1>7. CASE Settle(c)
  <2>1. MinOf(done[c], Len(pending)) \in 0..Len(pending)
    BY DEF MinOf, TypeOK
  <2>2. pending' \in Seq(Change)
    BY <1>7, <2>1, DropFirstProperties DEF Settle, TypeOK
  <2>3. file' \in Seq(Change) /\ torn' \in BOOLEAN
    BY <1>7, <2>2 DEF Settle, Rewrite, TypeOK
  <2>4. batch' \in [Calls -> Seq(Change)]
    BY <1>7, EmptySeq DEF Settle, TypeOK
  <2>5. QED
    BY <1>7, <2>2, <2>3, <2>4 DEF Settle, TypeOK, remote, history
<1>8. CASE Unflag(c)
  BY <1>8 DEF Unflag, TypeOK, disk, remote, history
<1>9. CASE FinishRead(c)
  BY <1>9, ReturnType, UpdateType DEF FinishRead, TypeOK, remote, history
<1>10. CASE FinishPlain(c)
  BY <1>10, ReturnType DEF FinishPlain, TypeOK, memory, disk, remote, history
<1>11. CASE Enqueue(c)
  <2> DEFINE ch == req[c].change
  <2>1. ch \in Change
    BY <1>11 DEF Enqueue, Unsent, TypeOK, Request
  <2>2. /\ pending' \in Seq(Change) /\ file' \in Seq(Change) /\ torn' \in BOOLEAN
        /\ dropped' \in Nat /\ spoiled' \in BOOLEAN /\ pushed' \subseteq Ids
    <3>1. CASE Append1(ch)
      BY <2>1, <3>1, AppendProperties DEF Append1, TypeOK
    <3>2. CASE Overflow(ch)
      <4>1. DropFirst(pending, Len(pending) + 1 - MaxQueued) \in Seq(Change)
        <5>1. Len(pending) + 1 - MaxQueued \in 0..Len(pending) /\ pending \in Seq(Change)
          BY <3>2, ConstantsAssumption DEF Overflow, Full, TypeOK
        <5>2. QED
          BY <5>1, DropFirstProperties
      <4>2. pending' \in Seq(Change)
        BY <2>1, <3>2, <4>1, AppendProperties DEF Overflow
      <4>3. dropped' \in Nat
        BY <3>2, ConstantsAssumption DEF Overflow, Full, TypeOK
      <4>4. spoiled' \in BOOLEAN
        BY <3>2, Zenon DEF Overflow
      <4>5. pushed' \subseteq Ids
        <5>1. Len(pending) + 1 - MaxQueued \in 0..Len(pending)
          BY <3>2, ConstantsAssumption DEF Overflow, Full, TypeOK
        <5>2. QED
          BY <3>2, <5>1, OldestType DEF Overflow, TypeOK
      <4>6. QED
        BY <3>2, <4>2, <4>3, <4>4, <4>5 DEF Overflow
    <3>3. QED
      BY <1>11, <3>1, <3>2 DEF Enqueue
  <2>3. stray' \subseteq Ids
    <3>1. stray' \subseteq stray \cup {ch.id}
      BY <1>11 DEF Enqueue, Append1, Overflow
    <3>2. QED
      BY <2>1, <3>1 DEF Change, TypeOK
  <2>4. /\ snap' \in [Items -> Cached]
        /\ lastQueued' \in [Items -> Version]
        /\ accepted' \subseteq Ids
    <3>1. ch.id \in Ids /\ ch.id \in Version /\ ch.id \in Cached
      BY <2>1, ConstantsAssumption DEF Change, Cached, Version, Ids
    <3>2. /\ snap' = Apply(snap, ch) /\ lastQueued' = Apply(lastQueued, ch)
          /\ accepted' = accepted \cup {ch.id}
      BY <1>11 DEF Enqueue
    <3> HIDE DEF ch
    <3>3. QED
      BY <3>1, <3>2 DEF Apply, TypeOK
  <2>5. savedSnap' \in [Items -> Cached] /\ savedDropped' \in Nat
    BY <1>11, <2>2, <2>4 DEF Enqueue, SaveSnap, TypeOK
  <2>6. QED
    BY <1>11, <2>2, <2>4, <2>5, <2>3, ReturnType DEF Enqueue, TypeOK, remote
<1>12. CASE EnqueueTorn(c)
  BY <1>12, ReturnType DEF EnqueueTorn, TypeOK, memory, remote, history
<1>12a. CASE EnqueueUnclosed(c)
  <2> DEFINE ch == req[c].change
  <2>1. ch \in Change
    BY <1>12a DEF EnqueueUnclosed, Unsent, TypeOK, Request
  <2>2. /\ file' \in Seq(Change) /\ stray' \subseteq Ids
        /\ lastQueued' \in [Items -> Version]
    <3>1. CASE torn
      BY <1>12a, <3>1 DEF EnqueueUnclosed, TypeOK
    <3>2. CASE ~torn
      <4>1. /\ file' = Append(file, ch) /\ stray' = stray \cup {ch.id}
            /\ lastQueued' = Apply(lastQueued, ch)
        BY <1>12a, <3>2 DEF EnqueueUnclosed
      <4>2. ch.id \in Ids /\ ch.id \in Version
        BY <2>1, ConstantsAssumption DEF Change, Version, Ids
      <4> HIDE DEF ch
      <4>3. file' \in Seq(Change)
        BY <2>1, <4>1, AppendProperties DEF TypeOK
      <4>4. QED
        BY <4>1, <4>2, <4>3 DEF Apply, TypeOK
    <3>3. QED
      BY <3>1, <3>2
  <2>3. QED
    BY <1>12a, <2>2, ReturnType DEF EnqueueUnclosed, TypeOK, memory, remote
<1>13. CASE EnqueueUnwritten(c)
  <2>1. req[c].change \in Change
    BY <1>13 DEF EnqueueUnwritten, Unsent, TypeOK, Request
  <2>2. DropFirst(pending, Len(pending) + 1 - MaxQueued) \in Seq(Change)
    <3>1. Len(pending) + 1 - MaxQueued \in 0..Len(pending) /\ pending \in Seq(Change)
      BY <1>13, ConstantsAssumption DEF EnqueueUnwritten, Full, TypeOK
    <3>2. QED
      BY <3>1, DropFirstProperties
  <2>3. pending' \in Seq(Change)
    BY <1>13, <2>1, <2>2, AppendProperties DEF EnqueueUnwritten
  <2>4. spoiled' \in BOOLEAN
    BY <1>13, Zenon DEF EnqueueUnwritten
  <2>5. pushed' \subseteq Ids
    <3>1. Len(pending) + 1 - MaxQueued \in 0..Len(pending)
      BY <1>13, ConstantsAssumption DEF EnqueueUnwritten, Full, TypeOK
    <3>2. QED
      BY <1>13, <3>1, OldestType DEF EnqueueUnwritten, TypeOK
  <2>6. QED
    BY <1>13, <2>3, <2>4, <2>5, ReturnType DEF EnqueueUnwritten, TypeOK, disk, remote
<1>14. CASE SyncState(c)
  <2>1. req' = [req EXCEPT ![c] = [req[c] EXCEPT !.report = dropped]]
    BY <1>14 DEF SyncState
  <2>2. req' \in [Calls -> Request]
    BY <2>1, RequestUpdate DEF TypeOK
  <2>3. QED
    BY <1>14, <2>2 DEF SyncState, TypeOK, memory, disk, remote, history
<1>15. CASE SyncRead(c)
  <2> DEFINE i == req[c].view + 1
  <2>1. i \in 1..Len(Views) /\ i \in 0..Len(Views)
    BY <1>15, ConstantsAssumption DEF SyncRead, TypeOK, Request, Asked
  <2>2. PICK r \in Replies :
          req' = [req EXCEPT ![c].view = i, ![c].out = r.out,
                             ![c].answer = IF r.out = "ok" THEN AnswerOf(i)
                                           ELSE Nothing.answer]
    BY <1>15 DEF SyncRead
  <2> DEFINE a == IF r.out = "ok" THEN AnswerOf(i) ELSE Nothing.answer
  <2>3. a \in [Items -> Cached]
    BY <2>1, AnswerType, NothingType DEF Request, Asked
  <2> HIDE DEF i
  <2>4. req' = [req EXCEPT ![c] = [req[c] EXCEPT !.view = i, !.out = r.out, !.answer = a]]
    BY <2>2 DEF TypeOK
  <2> HIDE DEF a
  <2>5. req' \in [Calls -> Request]
    BY <2>1, <2>3, <2>4, RequestUpdate, RepliesType DEF TypeOK
  <2>6. QED
    BY <1>15, <2>5 DEF SyncRead, TypeOK, memory, disk, remote, history
<1>16. CASE FinishSyncRead(c)
  <2>1. req' \in [Calls -> Request]
    BY <1>16, ReturnType DEF FinishSyncRead, TypeOK
  <2>2. pc' \in [Calls -> {"idle", "answered", "drain", "clone", "send",
                          "settle", "unflag", "finish", "next"}]
    BY <1>16, ReturnType DEF FinishSyncRead, TypeOK
  <2>3. QED
    BY <1>16, <2>1, <2>2, UpdateType DEF FinishSyncRead, TypeOK, remote, history
<1>17. CASE SyncEnd(c)
  <2>1. req[c].report \in Nat
    BY DEF TypeOK, Request, Asked
  <2>2. /\ dropped' \in Nat /\ told' \in Nat
        /\ savedSnap' \in [Items -> Cached] /\ savedDropped' \in Nat
    BY <1>17, <2>1 DEF SyncEnd, SaveSnap, TypeOK
  <2>3. QED
    BY <1>17, <2>2, ReturnType DEF SyncEnd, TypeOK, remote
<1>18. QED
  BY <1>1, <1>2, <1>3, <1>4, <1>5, <1>6, <1>7, <1>8, <1>9, <1>10, <1>11, <1>12, <1>12a,
     <1>13, <1>14, <1>15, <1>16, <1>17 DEF Step

(* The store only ever holds values of the kinds the code declares.        *)
THEOREM TypeCorrect == Spec => []TypeOK
<1>1. TypeOK /\ [Next]_vars => TypeOK'
  <2> SUFFICES ASSUME TypeOK, [Next]_vars PROVE TypeOK'
    OBVIOUS
  <2>1. ASSUME NEW c \in Calls, Start(c) \/ Step(c) PROVE TypeOK'
    BY <2>1, TypeStart, TypeStep
  <2>2. CASE Restart
    <3>1. /\ batch' \in [Calls -> Seq(Change)]
          /\ req' \in [Calls -> Request]
          /\ pending' \in Seq(Change)
      BY <2>2, NothingType, EmptySeq DEF Restart, TypeOK
    <3>2. restarts' \in 0..MaxRestarts
      BY <2>2, ConstantsAssumption DEF Restart, TypeOK
    <3>3. QED
      BY <2>2, <3>1, <3>2 DEF Restart, TypeOK, disk, remote
  <2>3. CASE Outage
    BY <2>3 DEF Outage, TypeOK, memory, calls, disk, history
  <2>4. CASE UNCHANGED vars
    BY <2>4 DEF vars, TypeOK, memory, calls, disk, remote, history
  <2>5. QED
    BY <2>1, <2>2, <2>3, <2>4 DEF Next
<1>2. QED
  BY <1>1, TypeInit, PTL DEF Spec

-----------------------------------------------------------------------------
(* One flush at a time *)

InFlush == {"clone", "send", "settle", "unflag"}

(* A call that moves within the flush, or outside it, and leaves the flag  *)
(* alone disturbs nobody.                                                  *)
LEMMA SameFlusher ==
  ASSUME TypeOK, OneFlusher, NEW c \in Calls, NEW v,
         pc' = [pc EXCEPT ![c] = v], v \in InFlush <=> pc[c] \in InFlush,
         flushing' = flushing
  PROVE  OneFlusher'
<1>1. \A d \in Calls : Flushing(d)' <=> Flushing(d)
  BY DEF TypeOK, Flushing, InFlush
<1>2. QED
  BY <1>1 DEF OneFlusher

LEMMA FlusherStart ==
  ASSUME TypeOK, OneFlusher, NEW c \in Calls, Start(c)
  PROVE  OneFlusher'
<1>1. pc[c] = "idle" /\ flushing' = flushing
  BY DEF Start, Write, Read, Other, StartSync, memory
<1>2. \/ pc' = [pc EXCEPT ![c] = "answered"]
      \/ pc' = [pc EXCEPT ![c] = "drain"]
  BY DEF Start, Write, Read, Other, StartSync
<1>3. QED
  BY <1>1, <1>2, SameFlusher DEF InFlush

LEMMA FlusherStep ==
  ASSUME TypeOK, OneFlusher, NEW c \in Calls, Step(c)
  PROVE  OneFlusher'
<1> USE DEF InFlush
<1>1. CASE Answered(c)
  BY <1>1, SameFlusher DEF Answered
<1>2. CASE AnsweredCancelled(c)
  BY <1>2, SameFlusher DEF AnsweredCancelled, memory
<1>3. CASE Drain(c)
  <2>1. CASE pending # <<>> /\ ~flushing
    <3>1. flushing' /\ pc' = [pc EXCEPT ![c] = "clone"]
      BY <1>3, <2>1, Zenon DEF Drain
    <3>2. \A d \in Calls : ~Flushing(d)
      BY <2>1 DEF OneFlusher
    <3>3. \A d \in Calls : Flushing(d)' <=> d = c
      BY <3>1, <3>2 DEF Flushing, TypeOK
    <3>4. QED
      BY <3>1, <3>3 DEF OneFlusher
  <2>2. CASE ~(pending # <<>> /\ ~flushing)
    <3>1. flushing' = flushing
      BY <1>3, <2>2, Zenon DEF Drain, TypeOK
    <3>2. pc[c] = "drain" /\ pc' = [pc EXCEPT ![c] = "finish"]
      BY <1>3, <2>2, Zenon DEF Drain
    <3>3. QED
      BY <3>1, <3>2, SameFlusher
  <2>3. QED
    BY <2>1, <2>2
<1>4. CASE Clone(c)
  BY <1>4, SameFlusher DEF Clone, memory
<1>5. CASE Send(c)
  <2>1. pc[c] = "send" /\ flushing' = flushing
    BY <1>5 DEF Send
  <2>2. pc' = pc \/ pc' = [pc EXCEPT ![c] = "settle"]
    BY <1>5 DEF Send
  <2>3. pc = [pc EXCEPT ![c] = "send"]
    BY <2>1 DEF TypeOK
  <2>4. QED
    BY <2>1, <2>2, <2>3, SameFlusher
<1>6. CASE SendsOver(c)
  BY <1>6, SameFlusher DEF SendsOver, memory
<1>7. CASE Settle(c)
  BY <1>7, SameFlusher DEF Settle
<1>8. CASE Unflag(c)
  <2>1. \A d \in Calls : Flushing(d) => d = c
    BY <1>8 DEF Unflag, OneFlusher, Flushing
  <2>2. \A d \in Calls : ~Flushing(d)'
    BY <1>8, <2>1 DEF Unflag, Flushing, TypeOK
  <2>3. flushing' = FALSE
    BY <1>8 DEF Unflag
  <2>4. QED
    BY <2>2, <2>3 DEF OneFlusher
<1>9. CASE /\ pc[c] = "finish" \/ pc[c] = "next"
           /\ flushing' = flushing
           /\ \E v \in {"idle", "next", "answered"} : pc' = [pc EXCEPT ![c] = v]
  BY <1>9, SameFlusher
<1>10. QED
  BY <1>1, <1>2, <1>3, <1>4, <1>5, <1>6, <1>7, <1>8, <1>9
  DEF Step, FinishRead, FinishPlain, Enqueue, EnqueueTorn, EnqueueUnclosed, EnqueueUnwritten, Unsent,
      SyncState, SyncRead, FinishSyncRead, SyncEnd, Return, memory

(* A call that has its clone of the queue, and has not taken what it sent  *)
(* off the queue yet.                                                      *)
Sending(c) == pc[c] \in {"send", "settle"}

LEMMA OneSender ==
  ASSUME OneFlusher, NEW c \in Calls, Flushing(c), NEW d \in Calls, Sending(d)
  PROVE  c = d
BY DEF OneFlusher, Flushing, Sending

(* Never two calls inside a flush, however calls interleave: no change is  *)
(* ever in two clones of the queue at once (drain, offline.go).            *)
THEOREM FlushIsExclusive == Spec => []OneFlusher
<1>1. Init => OneFlusher
  BY DEF Init, OneFlusher, Flushing
<1>2. TypeOK /\ OneFlusher /\ [Next]_vars => OneFlusher'
  <2> SUFFICES ASSUME TypeOK, OneFlusher, [Next]_vars PROVE OneFlusher'
    OBVIOUS
  <2>1. ASSUME NEW c \in Calls, Start(c) \/ Step(c) PROVE OneFlusher'
    BY <2>1, FlusherStart, FlusherStep
  <2>2. CASE Restart
    BY <2>2 DEF Restart, OneFlusher, Flushing
  <2>3. CASE Outage \/ UNCHANGED vars
    <3>1. pc' = pc /\ flushing' = flushing
      BY <2>3 DEF Outage, vars, calls, memory
    <3>2. QED
      BY <3>1 DEF OneFlusher, Flushing
  <2>4. QED
    BY <2>1, <2>2, <2>3 DEF Next
<1>3. QED
  BY <1>1, <1>2, TypeCorrect, PTL DEF Spec

----------------------------------------------------------------
(* The cap *)

CapInv == Len(file) <= Len(pending) /\ Len(pending) <= MaxQueued

LEMMA CapStep ==
  ASSUME TypeOK, CapInv, Faults \cap {"rewrite", "close"} = {}, NEW c \in Calls, Step(c)
  PROVE  CapInv'
<1>1. CASE Settle(c)
  <2>1. MinOf(done[c], Len(pending)) \in 0..Len(pending)
    BY DEF MinOf, TypeOK
  <2>2. Len(pending') <= Len(pending) /\ Len(pending') \in Nat
    BY <1>1, <2>1, DropFirstProperties DEF Settle, TypeOK
  <2>3. file' = pending'
    BY <1>1 DEF Settle, Rewrite
  <2>4. Len(pending) \in Nat /\ MaxQueued \in Nat
    BY ConstantsAssumption DEF TypeOK
  <2>5. QED
    BY <2>2, <2>3, <2>4 DEF CapInv
<1>2. CASE Enqueue(c)
  <2> DEFINE ch == req[c].change
  <2>1. ch \in Change
    BY <1>2 DEF Enqueue, Unsent, TypeOK, Request
  <2>2. CASE Append1(ch)
    <3>1. Len(pending') = Len(pending) + 1 /\ Len(file') <= Len(file) + 1
      BY <2>1, <2>2, AppendProperties DEF Append1, TypeOK
    <3>2. Len(file') \in Nat /\ Len(pending) \in Nat /\ Len(file) \in Nat
      BY <2>1, <2>2, AppendProperties DEF Append1, TypeOK
    <3>3. QED
      BY <2>2, <3>1, <3>2, ConstantsAssumption DEF Append1, Full, CapInv
  <2>3. CASE Overflow(ch)
    <3> DEFINE n == Len(pending) + 1 - MaxQueued
               q == DropFirst(pending, n)
    <3>1. /\ n \in 0..Len(pending) /\ n = 1 /\ Len(pending) = MaxQueued
          /\ pending \in Seq(Change)
      BY <2>3, ConstantsAssumption DEF Overflow, Full, TypeOK, CapInv
    <3>2. file' = pending' /\ pending' = Append(q, ch)
      BY <2>3 DEF Overflow
    <3> HIDE DEF n
    <3>3. q \in Seq(Change) /\ Len(q) = Len(pending) - n
      BY <3>1, DropFirstProperties
    <3> HIDE DEF q
    <3>4. Len(pending') = MaxQueued
      BY <2>1, <3>1, <3>2, <3>3, AppendProperties, ConstantsAssumption
    <3>5. QED
      BY <3>2, <3>4, ConstantsAssumption DEF CapInv
  <2>4. QED
    BY <1>2, <2>2, <2>3 DEF Enqueue
<1>3. CASE UNCHANGED <<pending, file>>
  BY <1>3 DEF CapInv
<1>4. ~EnqueueUnwritten(c) /\ ~EnqueueUnclosed(c)
  BY DEF EnqueueUnwritten, EnqueueUnclosed
<1>5. QED
  BY <1>1, <1>2, <1>3, <1>4
  DEF Step, Answered, AnsweredCancelled, Drain, Clone, Send, SendsOver, Unflag,
      FinishRead, FinishPlain, EnqueueTorn, SyncState, SyncRead,
      FinishSyncRead, SyncEnd, memory, disk

(* The queue is within its cap in memory and on disk (queue.add), as long  *)
(* as its rewrites succeed and its file can be closed: a rewrite that      *)
(* fails as a flush ends leaves sent changes in the file, a file that does *)
(* not close keeps a line the queue does not count, and later appends then *)
(* take it over the cap.                                                   *)
THEOREM QueueIsBounded == Faults \cap {"rewrite", "close"} = {} => (Spec => []WithinCap)
<1> SUFFICES ASSUME Faults \cap {"rewrite", "close"} = {} PROVE Spec => []WithinCap
  OBVIOUS
<1>1. Init => CapInv
  BY EmptySeq, ConstantsAssumption DEF Init, CapInv
<1>2. TypeOK /\ CapInv /\ [Next]_vars => CapInv'
  <2> SUFFICES ASSUME TypeOK, CapInv, [Next]_vars PROVE CapInv'
    OBVIOUS
  <2>1. ASSUME NEW c \in Calls, Start(c) PROVE CapInv'
    BY <2>1 DEF Start, Write, Read, Other, StartSync, memory, disk, CapInv
  <2>2. ASSUME NEW c \in Calls, Step(c) PROVE CapInv'
    BY <2>2, CapStep
  <2>3. CASE Restart
    <3>1. pending' = file /\ file' = file
      BY <2>3 DEF Restart, disk
    <3>2. Len(file) \in Nat /\ Len(pending) \in Nat /\ MaxQueued \in Nat
      BY ConstantsAssumption DEF TypeOK
    <3>3. QED
      BY <3>1, <3>2 DEF CapInv
  <2>4. CASE Outage \/ UNCHANGED vars
    BY <2>4 DEF Outage, vars, memory, disk, CapInv
  <2>5. QED
    BY <2>1, <2>2, <2>3, <2>4 DEF Next
<1>3. TypeOK /\ CapInv => WithinCap
  BY ConstantsAssumption DEF TypeOK, CapInv, WithinCap
<1>4. QED
  BY <1>1, <1>2, <1>3, TypeCorrect, PTL DEF Spec

-----------------------------------------------------------------------------
(* Durability.  A change on its way into the queue has a number no other   *)
(* change in the store or its file has: without that, a change whose rewrite failed    *)
(* could pass for one that was accepted.                                   *)

Taken == accepted \cup stray

Fresh ==
    /\ \A i \in Taken : i <= made
    /\ \A c \in Calls : req[c].op = "write" =>
         req[c].change.id <= made /\ req[c].change.id \notin Taken
    /\ \A c, d \in Calls : req[c].op = "write" /\ req[d].op = "write" /\ c # d
         => req[c].change.id # req[d].change.id

(* No step inside the store makes a write of what was none.                *)
KeepsWrites ==
    \A d \in Calls : req'[d].op = "write" =>
      req[d].op = "write" /\ req'[d].change = req[d].change

LEMMA StepKeepsWrites ==
  ASSUME TypeOK, NEW c \in Calls, Step(c)
  PROVE  KeepsWrites
<1>1. CASE UNCHANGED req
  BY <1>1 DEF KeepsWrites
<1>2. CASE Return(c)
  BY <1>2 DEF Return, KeepsWrites, Nothing, TypeOK
<1>3. CASE AnsweredCancelled(c)
  BY <1>3 DEF AnsweredCancelled, KeepsWrites, TypeOK, Request, Asked
<1>4. CASE SyncState(c)
  BY <1>4 DEF SyncState, KeepsWrites, TypeOK, Request, Asked
<1>5. CASE SyncRead(c)
  BY <1>5 DEF SyncRead, KeepsWrites, TypeOK, Request, Asked
<1>6. QED
  BY <1>1, <1>2, <1>3, <1>4, <1>5
  DEF Step, Answered, Drain, Clone, Send, SendsOver, Settle, Unflag, FinishRead,
      FinishPlain, Enqueue, EnqueueTorn, EnqueueUnclosed, EnqueueUnwritten, FinishSyncRead, SyncEnd

LEMMA FreshStart ==
  ASSUME TypeOK, Fresh, NEW c \in Calls, Start(c)
  PROVE  Fresh'
<1>1. CASE \E xs \in Targets : Write(c, xs)
  <2>1. /\ made' = made + 1 /\ Taken' = Taken /\ made \in Nat
        /\ req'[c].op = "write" => req'[c].change.id = made + 1
        /\ \A d \in Calls \ {c} : req'[d] = req[d]
    BY <1>1 DEF Write, Plain, Nothing, TypeOK, Version, Taken
  <2>2. Taken \subseteq Int /\ \A d \in Calls : req[d].op = "write" => req[d].change.id \in Int
    BY DEF TypeOK, Request, Change, Ids, Taken
  <2>3. /\ \A i \in Taken' : i <= made'
        /\ \A d \in Calls : req'[d].op = "write" =>
             req'[d].change.id <= made' /\ req'[d].change.id \notin Taken'
    <3>1. \A i \in Taken : i <= made /\ i <= made + 1 /\ i # made + 1
      BY <2>1, <2>2 DEF Fresh
    <3>2. ASSUME NEW d \in Calls \ {c}, req'[d].op = "write"
          PROVE  req'[d].change.id <= made + 1 /\ req'[d].change.id \notin Taken
      BY <2>1, <2>2, <3>2 DEF Fresh
    <3>3. req'[c].op = "write" => req'[c].change.id = made + 1 /\ made + 1 \notin Taken
      BY <2>1, <3>1
    <3>4. QED
      BY <2>1, <3>1, <3>2, <3>3
  <2>4. \A d \in Calls \ {c} : req[d].op = "write" => req[d].change.id < made + 1
    BY <2>1, <2>2 DEF Fresh
  <2>5. QED
    BY <2>1, <2>3, <2>4 DEF Fresh
<1>2. CASE ~\E xs \in Targets : Write(c, xs)
  <2>1. /\ made' = made /\ Taken' = Taken
        /\ req'[c].op # "write"
        /\ \A d \in Calls \ {c} : req'[d] = req[d]
    <3>1. CASE \E i \in 1..Len(Views) : Read(c, i)
      BY <3>1 DEF Read, Plain, Nothing, TypeOK, history, Taken
    <3>2. CASE Other(c)
      BY <3>2 DEF Other, Plain, Nothing, TypeOK, history, Taken
    <3>3. CASE StartSync(c)
      BY <3>3 DEF StartSync, Nothing, TypeOK, history, Taken
    <3>4. QED
      BY <1>2, <3>1, <3>2, <3>3 DEF Start
  <2>2. QED
    BY <2>1 DEF Fresh
<1>3. QED
  BY <1>1, <1>2

LEMMA FreshStep ==
  ASSUME TypeOK, Fresh, NEW c \in Calls, Step(c)
  PROVE  Fresh'
<1>1. KeepsWrites
  BY StepKeepsWrites
<1>2. made' = made
  BY DEF Step, Answered, AnsweredCancelled, Drain, Clone, Send, SendsOver, Settle,
         Unflag, FinishRead, FinishPlain, Enqueue, EnqueueTorn, EnqueueUnclosed, EnqueueUnwritten,
         SyncState, SyncRead, FinishSyncRead, SyncEnd, history
<1>3. CASE Taken' = Taken
  BY <1>1, <1>2, <1>3 DEF Fresh, KeepsWrites
<1>4. ASSUME req[c].op = "write", req'[c].op # "write",
             Taken' = Taken \cup {req[c].change.id}
      PROVE  Fresh'
  BY <1>1, <1>2, <1>4 DEF Fresh, KeepsWrites
<1>5. CASE Enqueue(c)
  <2>1. /\ req[c].op = "write" /\ req'[c].op # "write"
        /\ accepted' = accepted \cup {req[c].change.id}
        /\ stray' \in {stray, stray \cup {req[c].change.id}}
    BY <1>5 DEF Enqueue, Append1, Overflow, Unsent, Return, Nothing, TypeOK
  <2>2. QED
    BY <1>4, <2>1 DEF Taken
<1>6. CASE EnqueueUnclosed(c)
  <2>1. /\ req[c].op = "write" /\ req'[c].op # "write" /\ accepted' = accepted
        /\ stray' \in {stray, stray \cup {req[c].change.id}}
    BY <1>6 DEF EnqueueUnclosed, Unsent, Return, Nothing, TypeOK
  <2>2. QED
    BY <1>3, <1>4, <2>1 DEF Taken
<1>7. CASE UNCHANGED <<accepted, stray>>
  BY <1>3, <1>7 DEF Taken
<1>8. QED
  BY <1>5, <1>6, <1>7
  DEF Step, Answered, AnsweredCancelled, Drain, Clone, Send, SendsOver, Settle,
      Unflag, FinishRead, FinishPlain, EnqueueTorn, EnqueueUnwritten,
      SyncState, SyncRead, FinishSyncRead, SyncEnd, history

LEMMA FreshNext ==
  ASSUME TypeOK, Fresh, [Next]_vars
  PROVE  Fresh'
<1>1. ASSUME NEW c \in Calls, Start(c) PROVE Fresh'
  BY <1>1, FreshStart
<1>2. ASSUME NEW c \in Calls, Step(c) PROVE Fresh'
  BY <1>2, FreshStep
<1>3. CASE Restart
  BY <1>3 DEF Restart, Nothing, Fresh, Taken
<1>4. CASE Outage \/ UNCHANGED vars
  BY <1>4 DEF Outage, vars, calls, history, Fresh, Taken
<1>5. QED
  BY <1>1, <1>2, <1>3, <1>4 DEF Next

(* What InQueue holds of the queues the store builds.                      *)
LEMMA InQueueAppend ==
  ASSUME NEW q \in Seq(Change), NEW ch \in Change
  PROVE  InQueue(Append(q, ch)) = InQueue(q) \cup {ch.id}
BY AppendProperties DEF InQueue

LEMMA InQueueDropFirst ==
  ASSUME NEW q \in Seq(Change), NEW n \in 0..Len(q)
  PROVE  InQueue(DropFirst(q, n)) \subseteq InQueue(q)
<1>1. /\ Len(DropFirst(q, n)) = Len(q) - n
      /\ \A k \in 1..(Len(q) - n) : DropFirst(q, n)[k] = q[n + k]
  BY DropFirstProperties
<1>2. \A k \in 1..(Len(q) - n) : n + k \in 1..Len(q)
  OBVIOUS
<1>3. QED
  BY <1>1, <1>2 DEF InQueue

LEMMA DurableStep ==
  ASSUME TypeOK, Fresh, Durable, NEW c \in Calls, Step(c)
  PROVE  Durable'
<1>1. CASE Settle(c)
  <2>1. MinOf(done[c], Len(pending)) \in 0..Len(pending)
    BY DEF MinOf, TypeOK
  <2>2. InQueue(pending') \subseteq InQueue(pending)
    BY <1>1, <2>1, InQueueDropFirst DEF Settle, TypeOK
  <2>3. /\ accepted' = accepted /\ stray' = stray
        /\ file' = pending' \/ file' = file
    BY <1>1 DEF Settle, Rewrite, history
  <2>4. QED
    BY <2>2, <2>3 DEF Durable, InQueue
<1>2. CASE Enqueue(c)
  <2> DEFINE ch == req[c].change
  <2>1. ch \in Change /\ accepted' = accepted \cup {ch.id}
    BY <1>2 DEF Enqueue, Unsent, TypeOK, Request
  <2>2. CASE Append1(ch)
    <3>1. InQueue(pending') = InQueue(pending) \cup {ch.id}
      BY <2>1, <2>2, InQueueAppend DEF Append1, TypeOK
    <3>2. CASE torn
      <4>1. InQueue(file') = InQueue(file) /\ stray' = stray \cup {ch.id}
        BY <2>2, <3>2 DEF Append1, InQueue
      <4>2. QED
        BY <2>1, <3>1, <4>1 DEF Durable
    <3>3. CASE ~torn
      <4>1. file' = Append(file, ch) /\ stray' = stray
        BY <2>2, <3>3 DEF Append1
      <4>2. InQueue(file') = InQueue(file) \cup {ch.id}
        BY <2>1, <4>1, InQueueAppend DEF TypeOK
      <4>3. QED
        BY <2>1, <3>1, <4>1, <4>2 DEF Durable
    <3>4. QED
      BY <3>2, <3>3
  <2>3. CASE Overflow(ch)
    <3>1. file' = pending'
      BY <2>3 DEF Overflow
    <3>2. QED
      BY <3>1 DEF Durable, InQueue
  <2>4. QED
    BY <1>2, <2>2, <2>3 DEF Enqueue
<1>3. CASE EnqueueUnwritten(c)
  <2> DEFINE ch == req[c].change
             n  == Len(pending) + 1 - MaxQueued
             q  == DropFirst(pending, n)
  <2>1. ch \in Change /\ ch.id \notin accepted
    BY <1>3 DEF EnqueueUnwritten, Unsent, TypeOK, Request, Fresh, Taken
  <2>2. n \in 0..Len(pending)
    BY <1>3, ConstantsAssumption DEF EnqueueUnwritten, Full, TypeOK
  <2>3. q \in Seq(Change) /\ InQueue(q) \subseteq InQueue(pending)
    BY <2>2, DropFirstProperties, InQueueDropFirst DEF TypeOK
  <2>4. InQueue(Append(q, ch)) = InQueue(q) \cup {ch.id}
    BY <2>1, <2>3, InQueueAppend
  <2>5. /\ pending' = Append(q, ch) /\ accepted' = accepted
        /\ file' = file /\ stray' = stray
    BY <1>3 DEF EnqueueUnwritten, disk
  <2> HIDE DEF q
  <2>6. InQueue(pending') = InQueue(q) \cup {ch.id} /\ InQueue(file') = InQueue(file)
    BY <2>4, <2>5 DEF InQueue
  <2>7. QED
    BY <2>1, <2>3, <2>5, <2>6 DEF Durable
<1>4. CASE UNCHANGED <<pending, file, stray, accepted>>
  BY <1>4 DEF Durable, InQueue
<1>4a. CASE EnqueueUnclosed(c)
  <2>1. UNCHANGED <<pending, accepted>>
    BY <1>4a DEF EnqueueUnclosed, memory
  <2>2. InQueue(file) \subseteq InQueue(file') /\ stray \subseteq stray'
    <3>1. CASE torn
      BY <1>4a, <3>1 DEF EnqueueUnclosed, InQueue
    <3>2. CASE ~torn
      <4>1. /\ req[c].change \in Change /\ file' = Append(file, req[c].change)
            /\ stray \subseteq stray'
        BY <1>4a, <3>2 DEF EnqueueUnclosed, Unsent, TypeOK, Request
      <4>2. QED
        BY <4>1, InQueueAppend DEF TypeOK
    <3>3. QED
      BY <3>1, <3>2
  <2>3. QED
    BY <2>1, <2>2 DEF Durable, InQueue
<1>5. QED
  BY <1>1, <1>2, <1>3, <1>4, <1>4a
  DEF Step, Answered, AnsweredCancelled, Drain, Clone, Send, SendsOver, Unflag,
      FinishRead, FinishPlain, EnqueueTorn, SyncState, SyncRead,
      FinishSyncRead, SyncEnd, memory, disk, history

(* A change the user was told is saved is in the queue file for as long as *)
(* the store owes it (queue.add before enqueue returns, queue.rewrite),    *)
(* unless its line joined one an earlier append left unfinished: failing   *)
(* rewrites, cancelled calls and restarts at any point do not break it.    *)
THEOREM AcceptedIsDurable == Spec => []Durable
<1> DEFINE Inv == Fresh /\ Durable
<1>1. Init => Inv
  BY DEF Init, Fresh, Taken, Durable, Nothing
<1>2. TypeOK /\ Inv /\ [Next]_vars => Inv'
  <2> SUFFICES ASSUME TypeOK, Inv, [Next]_vars PROVE Durable'
    BY FreshNext
  <2>1. ASSUME NEW c \in Calls, Start(c) PROVE Durable'
    <3>1. UNCHANGED <<pending, file, stray, accepted>>
      BY <2>1 DEF Start, Write, Read, Other, StartSync, memory, disk, history
    <3>2. QED
      BY <3>1 DEF Durable, InQueue
  <2>2. ASSUME NEW c \in Calls, Step(c) PROVE Durable'
    BY <2>2, DurableStep
  <2>3. CASE Restart
    BY <2>3 DEF Restart, disk, Durable, InQueue
  <2>4. CASE Outage \/ UNCHANGED vars
    BY <2>4 DEF Outage, vars, memory, disk, history, Durable, InQueue
  <2>5. QED
    BY <2>1, <2>2, <2>3, <2>4 DEF Next
<1>3. Inv => Durable
  OBVIOUS
<1>4. QED
  BY <1>1, <1>2, <1>3, TypeCorrect, PTL DEF Spec

-----------------------------------------------------------------------------
(* The newest queued change wins.  A change that is replayed again, after  *)
(* a restart or a rewrite that failed, puts an old value back for a while: *)
(* the invariant says that the last change of the item is then queued      *)
(* behind it, in the file too, and that a flush has not passed it yet.     *)

(* The last change of each item a queue holds a change of is behind that   *)
(* change, unless its line is lost.                                        *)
Followed(q, last, lost) ==
    \A k \in 1..Len(q) : \A x \in q[k].items :
      last[x] \in lost \/ \E m \in k..Len(q) : q[m].id = last[x]

(* A queue holds what was accepted or has a line, and the last change of   *)
(* an item is one of that item.                                            *)
Known(q, last, acc) ==
    /\ InQueue(q) \subseteq acc
    /\ \A k \in 1..Len(q) : \A x \in Items : q[k].id = last[x] => x \in q[k].items

(* The clone is the front of the queue.                                    *)
Prefix(b, n, q) ==
    /\ n <= Len(b) /\ Len(b) <= Len(q)
    /\ \A k \in 1..Len(b) : b[k] = q[k]

Won(x) ==
    lastQueued[x] \in delivered \ (refused \cup stray \cup pushed) =>
      \/ server[x] >= lastQueued[x]
      \/ \E k \in 1..Len(pending) :
           pending[k].id = lastQueued[x] /\ \A c \in Calls : Sending(c) => done[c] < k

Winning ==
    /\ delivered \subseteq Taken
    /\ \A x \in Items : lastQueued[x] \in Taken \cup {0}
    /\ Known(pending, lastQueued, Taken) /\ Known(file, lastQueued, Taken)
    /\ Followed(pending, lastQueued, stray) /\ Followed(file, lastQueued, stray)
    /\ \A c \in Calls : Sending(c) => Prefix(batch[c], done[c], pending)
    /\ \A x \in Items : Won(x)

(* What is left of a queue is still followed, and known.                   *)
LEMMA DropSound ==
  ASSUME NEW q \in Seq(Change), NEW n \in 0..Len(q), NEW last, NEW lost, NEW acc,
         Followed(q, last, lost), Known(q, last, acc)
  PROVE  /\ Followed(DropFirst(q, n), last, lost)
         /\ Known(DropFirst(q, n), last, acc)
<1> DEFINE r == DropFirst(q, n)
<1>1. /\ r \in Seq(Change) /\ Len(r) = Len(q) - n
      /\ \A k \in 1..(Len(q) - n) : r[k] = q[n + k]
  BY DropFirstProperties
<1>2. InQueue(r) \subseteq InQueue(q)
  BY InQueueDropFirst
<1>3. Len(q) \in Nat
  OBVIOUS
<1> HIDE DEF r
<1>4. ASSUME NEW k \in 1..Len(r)
      PROVE  n + k \in 1..Len(q) /\ r[k] = q[n + k]
  BY <1>1, <1>3
<1>5. ASSUME NEW k \in 1..Len(r), NEW x \in r[k].items, last[x] \notin lost
      PROVE  \E m \in k..Len(r) : r[m].id = last[x]
  <2>1. PICK m \in (n + k)..Len(q) : q[m].id = last[x]
    BY <1>4, <1>5 DEF Followed
  <2>2. m - n \in k..Len(r) /\ m - n \in 1..(Len(q) - n) /\ n + (m - n) = m
    BY <1>1, <1>3, <1>4, <2>1
  <2>3. QED
    BY <1>1, <2>1, <2>2
<1>6. QED
  BY <1>2, <1>4, <1>5 DEF Followed, Known, r

(* A new change joins the queue, and is the last of what it sets.          *)
LEMMA AppendSound ==
  ASSUME NEW q \in Seq(Change), NEW ch \in Change, NEW last \in [Items -> Version],
         NEW lost, NEW acc, NEW more, ch.id \notin acc,
         \A x \in Items : last[x] \in acc \cup {0},
         Followed(q, last, lost), Known(q, last, acc), lost \subseteq more
  PROVE  /\ Followed(Append(q, ch), Apply(last, ch), more)
         /\ Known(Append(q, ch), Apply(last, ch), acc \cup {ch.id})
<1> DEFINE r   == Append(q, ch)
           new == Apply(last, ch)
<1>1. /\ Len(r) = Len(q) + 1 /\ Len(q) \in Nat
      /\ \A k \in 1..Len(q) : r[k] = q[k]
      /\ r[Len(q) + 1] = ch
  BY AppendProperties
<1>2. /\ \A x \in Items : new[x] = IF x \in ch.items THEN ch.id ELSE last[x]
      /\ \A k \in 1..Len(q) : q[k].items \subseteq Items /\ q[k].id \in acc
      /\ ch.items \subseteq Items /\ ch.id # 0
  <2>1. \A k \in 1..Len(q) : q[k] \in Change
    BY ElementOfSeq
  <2>2. \A k \in 1..Len(q) : q[k].items \subseteq Items /\ q[k].id \in acc
    BY <2>1 DEF Change, Known, InQueue
  <2>3. QED
    BY <2>2 DEF Apply, Change, Ids
<1>3. InQueue(r) = InQueue(q) \cup {ch.id}
  BY InQueueAppend
<1> HIDE DEF r, new
<1>4. \A k \in 1..Len(r) : k \in 1..Len(q) \/ k = Len(q) + 1
  BY <1>1
<1>5. ASSUME NEW k \in 1..Len(r), NEW x \in r[k].items, new[x] \notin more
      PROVE  \E m \in k..Len(r) : r[m].id = new[x]
  <2>1. CASE x \in ch.items
    <3>1. Len(r) \in k..Len(r) /\ r[Len(r)].id = new[x]
      BY <1>1, <1>2, <2>1
    <3>2. QED
      BY <3>1
  <2>2. CASE x \notin ch.items
    <3>1. k \in 1..Len(q) /\ r[k] = q[k] /\ x \in Items /\ new[x] = last[x]
      BY <1>1, <1>2, <1>4, <1>5, <2>2
    <3>2. PICK m \in k..Len(q) : q[m].id = last[x]
      BY <1>5, <3>1 DEF Followed
    <3>3. m \in k..Len(r) /\ m \in 1..Len(q)
      BY <1>1, <3>1, <3>2
    <3>4. QED
      BY <1>1, <3>1, <3>2, <3>3
  <2>3. QED
    BY <2>1, <2>2
<1>6. ASSUME NEW k \in 1..Len(r), NEW x \in Items, r[k].id = new[x]
      PROVE  x \in r[k].items
  <2>1. CASE k \in 1..Len(q)
    BY <1>1, <1>2, <1>6, <2>1 DEF Known
  <2>2. CASE k = Len(q) + 1
    BY <1>1, <1>2, <1>6, <2>2
  <2>3. QED
    BY <1>4, <2>1, <2>2
<1>7. InQueue(r) \subseteq acc \cup {ch.id}
  BY <1>3 DEF Known
<1>8. QED
  BY <1>5, <1>6, <1>7 DEF Followed, Known, r, new

(* The line of a new change joins an unfinished one: nothing is added.     *)
LEMMA JoinedSound ==
  ASSUME NEW q \in Seq(Change), NEW ch \in Change, NEW last \in [Items -> Version],
         NEW lost, NEW acc, ch.id \notin acc,
         Followed(q, last, lost), Known(q, last, acc)
  PROVE  /\ Followed(q, Apply(last, ch), lost \cup {ch.id})
         /\ Known(q, Apply(last, ch), acc \cup {ch.id})
<1>1. \A x \in Items : Apply(last, ch)[x] = IF x \in ch.items THEN ch.id ELSE last[x]
  BY DEF Apply
<1>2. \A k \in 1..Len(q) : q[k].items \subseteq Items /\ q[k].id \in acc
  <2>1. \A k \in 1..Len(q) : q[k] \in Change
    BY ElementOfSeq
  <2>2. QED
    BY <2>1 DEF Change, Known, InQueue
<1>3. QED
  BY <1>1, <1>2 DEF Followed, Known

-----------------------------------------------------------------------------
(* The steps that matter to it *)

(* A step that leaves the queues and what the history says of them, and    *)
(* takes the server's values no further back.                              *)
LEMMA WinQuiet ==
  ASSUME TypeOK, Winning,
         UNCHANGED <<pending, file, batch, done, accepted, delivered, refused,
                     lastQueued, stray, pushed>>,
         \A x \in Items : server'[x] = server[x] \/ server'[x] >= lastQueued[x],
         \A d \in Calls : Sending(d)' => Sending(d)
  PROVE  Winning'
<1>1. \A x \in Items : Won(x)'
  BY DEF Winning, Won
<1>2. QED
  BY <1>1 DEF Winning, Taken

LEMMA WinStart ==
  ASSUME TypeOK, Fresh, Winning, NEW c \in Calls, Start(c)
  PROVE  Winning'
<1>1. /\ UNCHANGED <<pending, file, batch, done, accepted, delivered, refused,
                     lastQueued, stray, pushed>>
      /\ \A d \in Calls : Sending(d)' => Sending(d)
  BY DEF Start, Write, Read, Other, StartSync, memory, disk, history, Sending, TypeOK
<1>2. ASSUME NEW x \in Items
      PROVE  server'[x] = server[x] \/ server'[x] >= lastQueued[x]
  <2>1. CASE server' = server
    BY <2>1
  <2>2. CASE \E xs \in Targets : Write(c, xs)
    <3>1. server'[x] \in {server[x], made + 1}
      BY <2>2 DEF Write, Carry, Apply, TypeOK
    <3>2. made + 1 >= lastQueued[x]
      <4>1. made \in Nat /\ lastQueued[x] \in Nat
        BY ConstantsAssumption DEF TypeOK, Version
      <4>2. lastQueued[x] \in Taken \cup {0}
        BY DEF Winning
      <4>3. lastQueued[x] <= made
        BY <4>1, <4>2 DEF Fresh
      <4>4. QED
        BY <4>1, <4>3
    <3>3. QED
      BY <3>1, <3>2
  <2>3. QED
    BY <2>1, <2>2 DEF Start, Read, Other, StartSync, remote
<1>3. QED
  BY <1>1, <1>2, WinQuiet

LEMMA WinClone ==
  ASSUME TypeOK, OneFlusher, Winning, NEW c \in Calls, Clone(c)
  PROVE  Winning'
<1>1. /\ UNCHANGED <<pending, file, server, accepted, delivered, refused, lastQueued,
                     stray, pushed>>
      /\ batch'[c] = pending /\ done'[c] = 0
  BY DEF Clone, memory, disk, remote, history, TypeOK
<1>2. \A d \in Calls : Sending(d)' => d = c
  BY OneSender DEF Clone, Flushing, Sending, TypeOK
<1>3. Prefix(batch'[c], done'[c], pending)
  <2>1. Len(pending) \in Nat
    BY DEF TypeOK
  <2>2. QED
    BY <1>1, <2>1 DEF Prefix
<1>4. \A x \in Items : Won(x)'
  <2>1. \A k \in 1..Len(pending) : \A d \in Calls : Sending(d)' => done'[d] < k
    BY <1>1, <1>2
  <2>2. QED
    BY <1>1, <2>1 DEF Winning, Won
<1>5. QED
  BY <1>1, <1>2, <1>3, <1>4 DEF Winning, Taken

(* flush: an older change overwrites an item only while the last one of    *)
(* that item is still to be sent.                                          *)
LEMMA WinSend ==
  ASSUME TypeOK, OneFlusher, Winning, NEW c \in Calls, Send(c)
  PROVE  Winning'
<1> DEFINE b  == batch[c]
           d  == done[c]
           ch == b[d + 1]
<1>1. /\ b \in Seq(Change) /\ d \in Nat /\ Len(b) \in Nat /\ d + 1 \in 1..Len(b)
      /\ Sending(c) /\ Flushing(c) /\ Len(pending) \in Nat
  BY DEF Send, Sending, Flushing, TypeOK
<1>2. Prefix(b, d, pending)
  BY <1>1 DEF Winning
<1>3. PICK r \in Replies :
         /\ server' = IF r.applied THEN Carry(ch) ELSE server
         /\ delivered' = IF r.out = "ok" THEN delivered \cup {ch.id} ELSE delivered
         /\ refused' = IF r.out = "gone" THEN refused \cup {ch.id} ELSE refused
         /\ IF r.out \in {"ok", "gone"}
            THEN done' = [done EXCEPT ![c] = @ + 1] /\ UNCHANGED <<pc, online>>
            ELSE /\ pc' = [pc EXCEPT ![c] = "settle"]
                 /\ online' = (online /\ r.out # "unreachable")
                 /\ UNCHANGED done
  BY DEF Send
<1>4. UNCHANGED <<pending, file, batch, accepted, lastQueued, stray, pushed>>
  BY DEF Send, disk
<1>5. (r.out = "ok" => r.applied) /\ (r.out = "gone" => ~r.applied)
  BY DEF Replies
<1>6. done'[c] = IF r.out \in {"ok", "gone"} THEN d + 1 ELSE d
  BY <1>3 DEF TypeOK
<1>7. \A e \in Calls : Sending(e)' => e = c
  BY <1>1, <1>3, OneSender DEF Sending, TypeOK
<1> HIDE DEF b, d, ch
<1>8. d + 1 \in 1..Len(pending) /\ pending[d + 1] = ch /\ ch \in Change
  BY <1>1, <1>2 DEF Prefix, ch
<1>9. delivered' \subseteq Taken'
  <2>1. ch.id \in Taken
    BY <1>8 DEF Winning, Known, InQueue
  <2>2. QED
    BY <1>3, <1>4, <2>1 DEF Winning, Taken
<1>10. Prefix(batch'[c], done'[c], pending')
  BY <1>1, <1>2, <1>4, <1>6 DEF Prefix, b
<1>11. ASSUME NEW x \in Items PROVE Won(x)'
  <2> DEFINE a == lastQueued[x]
  <2>1. SUFFICES ASSUME a \in delivered', a \notin refused', a \notin stray, a \notin pushed
                 PROVE  \/ server'[x] >= a
                        \/ \E k \in 1..Len(pending) : pending[k].id = a /\ done'[c] < k
    BY <1>4, <1>7 DEF Won
  <2>2. a \in Int
    BY DEF TypeOK, Version
  <2>3. Won(x) /\ a \notin refused
    BY <1>3, <2>1 DEF Winning
  <2>4. ch.id = a => x \in ch.items
    BY <1>8 DEF Winning, Known
  <2> HIDE DEF a
  <2>5. CASE x \in ch.items /\ r.applied
    <3>1. server'[x] = ch.id
      BY <1>3, <2>5 DEF Carry, Apply
    <3>2. \E m \in (d + 1)..Len(pending) : pending[m].id = a
      BY <1>8, <2>1, <2>5 DEF Winning, Followed, a
    <3>3. PICK m \in (d + 1)..Len(pending) : pending[m].id = a
      BY <3>2
    <3>4. CASE m = d + 1
      BY <1>8, <2>2, <3>1, <3>3, <3>4
    <3>5. CASE m > d + 1
      <4>1. m \in 1..Len(pending) /\ done'[c] < m
        BY <1>1, <1>6, <3>5
      <4>2. QED
        BY <3>3, <4>1
    <3>6. QED
      BY <1>1, <3>4, <3>5
  <2>6. CASE ~(x \in ch.items /\ r.applied)
    <3>1. server'[x] = server[x]
      BY <1>3, <2>6 DEF Carry, Apply
    <3>2. a # ch.id \/ r.out \notin {"ok", "gone"}
      BY <1>3, <1>5, <2>1, <2>4, <2>6
    <3>3. a \in delivered
      BY <1>3, <2>1, <3>2
    <3>4. CASE server[x] >= a
      BY <3>1, <3>4
    <3>5. CASE \E k \in 1..Len(pending) : pending[k].id = a /\ d < k
      <4>1. PICK k \in 1..Len(pending) : pending[k].id = a /\ d < k
        BY <3>5
      <4>2. r.out \in {"ok", "gone"} => k # d + 1
        BY <1>8, <3>2, <4>1
      <4>3. done'[c] < k
        BY <1>1, <1>6, <4>1, <4>2
      <4>4. QED
        BY <4>1, <4>3
    <3>6. QED
      BY <1>1, <2>1, <2>3, <3>3, <3>4, <3>5 DEF Won, a, d
  <2>7. QED
    BY <2>5, <2>6
<1>12. QED
  BY <1>4, <1>7, <1>9, <1>10, <1>11 DEF Winning, Taken

(* queue.sent: what leaves the queue was sent, in this pass.               *)
LEMMA WinSettle ==
  ASSUME TypeOK, OneFlusher, Winning, NEW c \in Calls, Settle(c)
  PROVE  Winning'
<1> DEFINE n == MinOf(done[c], Len(pending))
<1>1. Sending(c) /\ Flushing(c) /\ pending \in Seq(Change) /\ Len(pending) \in Nat /\ done[c] \in Nat
  BY DEF Settle, Sending, Flushing, TypeOK
<1>2. n \in 0..Len(pending) /\ n <= done[c]
  BY <1>1 DEF MinOf
<1>3. /\ pending' = DropFirst(pending, n)
      /\ UNCHANGED <<server, accepted, delivered, refused, lastQueued, stray, pushed>>
      /\ file' = pending' \/ file' = file
  BY DEF Settle, Rewrite, remote, history
<1>4. \A d \in Calls : ~Sending(d)'
  BY <1>1, OneSender DEF Settle, Sending, TypeOK
<1> HIDE DEF n
<1>5. Followed(pending', lastQueued, stray) /\ Known(pending', lastQueued, Taken)
  BY <1>1, <1>2, <1>3, DropSound DEF Winning
<1>6. Followed(file', lastQueued, stray) /\ Known(file', lastQueued, Taken)
  BY <1>3, <1>5 DEF Winning
<1>7. /\ Len(pending') = Len(pending) - n
      /\ \A k \in 1..(Len(pending) - n) : pending'[k] = pending[n + k]
  BY <1>2, <1>3, DropFirstProperties DEF TypeOK
<1>8. ASSUME NEW x \in Items PROVE Won(x)'
  <2>1. Won(x)
    BY DEF Winning
  <2>2. ASSUME NEW k \in 1..Len(pending), done[c] < k
        PROVE  k - n \in 1..Len(pending') /\ pending'[k - n] = pending[k]
    <3>1. k - n \in 1..(Len(pending) - n) /\ n + (k - n) = k
      BY <1>1, <1>2, <2>2
    <3>2. QED
      BY <1>7, <3>1
  <2>3. QED
    BY <1>1, <1>3, <1>4, <2>1, <2>2 DEF Won
<1>9. QED
  BY <1>3, <1>4, <1>5, <1>6, <1>8 DEF Winning, Taken

(* enqueue below the cap. *)
LEMMA WinAppend ==
  ASSUME TypeOK, Fresh, Winning, NEW ch \in Change, ch.id \notin Taken, Append1(ch),
         accepted' = accepted \cup {ch.id}, lastQueued' = Apply(lastQueued, ch),
         UNCHANGED <<batch, done, server, delivered, refused>>,
         \A d \in Calls : Sending(d)' => Sending(d)
  PROVE  Winning'
<1>1. /\ pending' = Append(pending, ch) /\ pushed' = pushed
      /\ stray \subseteq stray'
      /\ Taken' = Taken \cup {ch.id}
      /\ \/ file' = Append(file, ch)
         \/ file' = file /\ stray' = stray \cup {ch.id}
  BY DEF Append1, Taken
<1>2. /\ lastQueued \in [Items -> Version] /\ pending \in Seq(Change) /\ file \in Seq(Change)
      /\ \A x \in Items : lastQueued[x] \in Taken \cup {0}
  BY DEF TypeOK, Winning
<1>3. /\ Followed(pending', lastQueued', stray')
      /\ Known(pending', lastQueued', Taken')
  BY <1>1, <1>2, AppendSound DEF Winning
<1>4. /\ Followed(file', lastQueued', stray')
      /\ Known(file', lastQueued', Taken')
  <2>1. CASE file' = Append(file, ch)
    BY <1>1, <1>2, <2>1, AppendSound DEF Winning
  <2>2. CASE file' = file /\ stray' = stray \cup {ch.id}
    <3>1. Followed(file, lastQueued, stray) /\ Known(file, lastQueued, Taken)
      BY DEF Winning
    <3>2. /\ Followed(file, Apply(lastQueued, ch), stray \cup {ch.id})
          /\ Known(file, Apply(lastQueued, ch), Taken \cup {ch.id})
      BY <1>2, <3>1, JoinedSound
    <3>3. QED
      BY <1>1, <2>2, <3>2
  <2>3. QED
    BY <1>1, <2>1, <2>2
<1>5. \A x \in Items : lastQueued'[x] = IF x \in ch.items THEN ch.id ELSE lastQueued[x]
  BY DEF Apply
<1>6. \A x \in Items : lastQueued'[x] \in Taken' \cup {0}
  BY <1>1, <1>2, <1>5
<1>7. /\ Len(pending') = Len(pending) + 1 /\ Len(pending) \in Nat
      /\ \A k \in 1..Len(pending) : pending'[k] = pending[k]
  BY <1>1, <1>2, AppendProperties
<1>8. ASSUME NEW x \in Items PROVE Won(x)'
  <2>1. CASE x \in ch.items
    BY <1>5, <2>1 DEF Winning, Won
  <2>2. CASE x \notin ch.items
    <3>1. Won(x) /\ lastQueued'[x] = lastQueued[x]
      BY <1>5, <2>2 DEF Winning
    <3>2. \A k \in 1..Len(pending) : k \in 1..Len(pending')
      BY <1>7
    <3>3. QED
      BY <1>1, <1>7, <3>1, <3>2 DEF Won
  <2>3. QED
    BY <2>1, <2>2
<1>9. \A d \in Calls : Sending(d)' => Prefix(batch'[d], done'[d], pending')
  <2>1. ASSUME NEW d \in Calls, Sending(d)'
        PROVE  Prefix(batch[d], done[d], pending')
    <3>1. Prefix(batch[d], done[d], pending) /\ Len(batch[d]) \in Nat
      BY <2>1 DEF Winning, TypeOK
    <3>2. \A k \in 1..Len(batch[d]) : k \in 1..Len(pending)
      BY <1>7, <3>1 DEF Prefix
    <3>3. QED
      BY <1>7, <3>1, <3>2 DEF Prefix
  <2>2. QED
    BY <2>1
<1>10. delivered' \subseteq Taken'
  BY <1>1 DEF Winning
<1>11. QED
  BY <1>3, <1>4, <1>6, <1>8, <1>9, <1>10 DEF Winning

(* enqueue at the cap, with no flush under way: the oldest are pushed out. *)
LEMMA WinOverflow ==
  ASSUME TypeOK, Fresh, Winning, NEW ch \in Change, ch.id \notin Taken, Overflow(ch),
         accepted' = accepted \cup {ch.id}, lastQueued' = Apply(lastQueued, ch),
         UNCHANGED <<batch, done, server, delivered, refused>>,
         \A d \in Calls : ~Sending(d)'
  PROVE  Winning'
<1> DEFINE n == Len(pending) + 1 - MaxQueued
           q == DropFirst(pending, n)
<1>1. n \in 0..Len(pending) /\ pending \in Seq(Change)
  BY ConstantsAssumption DEF Overflow, Full, TypeOK
<1>2. /\ pending' = Append(q, ch) /\ file' = pending' /\ stray' = stray
      /\ pushed' = pushed \cup Oldest(n) /\ Taken' = Taken \cup {ch.id}
  BY DEF Overflow, Taken
<1> HIDE DEF n
<1>3. /\ q \in Seq(Change) /\ Len(q) = Len(pending) - n
      /\ \A k \in 1..(Len(pending) - n) : q[k] = pending[n + k]
  BY <1>1, DropFirstProperties
<1>4. Followed(q, lastQueued, stray) /\ Known(q, lastQueued, Taken)
  BY <1>1, DropSound DEF Winning
<1> HIDE DEF q
<1>5. lastQueued \in [Items -> Version] /\ \A x \in Items : lastQueued[x] \in Taken \cup {0}
  BY DEF TypeOK, Winning
<1>6. /\ Followed(pending', lastQueued', stray')
      /\ Known(pending', lastQueued', Taken')
  BY <1>2, <1>3, <1>4, <1>5, AppendSound
<1>7. \A x \in Items : lastQueued'[x] = IF x \in ch.items THEN ch.id ELSE lastQueued[x]
  BY DEF Apply
<1>8. \A x \in Items : lastQueued'[x] \in Taken' \cup {0}
  BY <1>2, <1>5, <1>7
<1>9. /\ Len(pending') = Len(q) + 1
      /\ \A k \in 1..Len(q) : pending'[k] = q[k]
  BY <1>2, <1>3, AppendProperties
<1>10. ASSUME NEW x \in Items PROVE Won(x)'
  <2>1. CASE x \in ch.items
    BY <1>7, <2>1 DEF Winning, Won
  <2>2. CASE x \notin ch.items
    <3>1. Won(x) /\ lastQueued'[x] = lastQueued[x]
      BY <1>7, <2>2 DEF Winning
    <3>2. ASSUME NEW k \in 1..Len(pending), pending[k].id \notin pushed'
          PROVE  k - n \in 1..Len(pending') /\ pending'[k - n] = pending[k]
      <4>1. k > n
        BY <1>1, <1>2, <3>2 DEF Oldest
      <4>2. k - n \in 1..(Len(pending) - n) /\ n + (k - n) = k /\ k - n \in 1..Len(q)
        BY <1>1, <1>3, <4>1
      <4>3. k - n \in 1..Len(pending')
        BY <1>1, <1>3, <1>9, <4>2
      <4>4. QED
        BY <1>3, <1>9, <4>2, <4>3
    <3>3. QED
      BY <1>2, <3>1, <3>2 DEF Won
  <2>3. QED
    BY <2>1, <2>2
<1>11. delivered' \subseteq Taken'
  BY <1>2 DEF Winning
<1>12. Followed(file', lastQueued', stray') /\ Known(file', lastQueued', Taken')
  BY <1>2, <1>6
<1>13. QED
  BY <1>6, <1>8, <1>10, <1>11, <1>12 DEF Winning

(* enqueue when the file does not close: the change has a line, and is out *)
(* of what the property says.                                              *)
LEMMA WinUnclosed ==
  ASSUME TypeOK, Winning, NEW ch \in Change, ch.id \notin Taken,
         file' = Append(file, ch), stray' = stray \cup {ch.id},
         lastQueued' = Apply(lastQueued, ch),
         UNCHANGED <<pending, batch, done, server, accepted, delivered, refused, pushed>>,
         \A d \in Calls : Sending(d)' => Sending(d)
  PROVE  Winning'
<1>1. Taken' = Taken \cup {ch.id}
  BY DEF Taken
<1>2. /\ lastQueued \in [Items -> Version] /\ pending \in Seq(Change) /\ file \in Seq(Change)
      /\ \A x \in Items : lastQueued[x] \in Taken \cup {0}
  BY DEF TypeOK, Winning
<1>3. Followed(pending', lastQueued', stray') /\ Known(pending', lastQueued', Taken')
  BY <1>1, <1>2, JoinedSound DEF Winning
<1>4. Followed(file', lastQueued', stray') /\ Known(file', lastQueued', Taken')
  BY <1>1, <1>2, AppendSound DEF Winning
<1>5. \A x \in Items : lastQueued'[x] = IF x \in ch.items THEN ch.id ELSE lastQueued[x]
  BY DEF Apply
<1>6. \A x \in Items : lastQueued'[x] \in Taken' \cup {0}
  BY <1>1, <1>2, <1>5
<1>7. ASSUME NEW x \in Items PROVE Won(x)'
  <2>1. CASE x \in ch.items
    BY <1>5, <2>1 DEF Won
  <2>2. CASE x \notin ch.items
    <3>1. Won(x) /\ lastQueued'[x] = lastQueued[x]
      BY <1>5, <2>2 DEF Winning
    <3>2. QED
      BY <3>1 DEF Won
  <2>3. QED
    BY <2>1, <2>2
<1>8. QED
  BY <1>1, <1>3, <1>4, <1>6, <1>7 DEF Winning

LEMMA WinStep ==
  ASSUME TypeOK, OneFlusher, Fresh, ~spoiled', Winning, NEW c \in Calls, Step(c)
  PROVE  Winning'
<1>1. CASE Clone(c)
  BY <1>1, WinClone
<1>2. CASE Send(c)
  BY <1>2, WinSend
<1>3. CASE Settle(c)
  BY <1>3, WinSettle
<1>4. CASE Enqueue(c)
  <2> DEFINE ch == req[c].change
  <2>1. ch \in Change /\ ch.id \notin Taken
    BY <1>4 DEF Enqueue, Unsent, TypeOK, Request, Fresh, Taken
  <2>2. /\ accepted' = accepted \cup {ch.id} /\ lastQueued' = Apply(lastQueued, ch)
        /\ UNCHANGED <<batch, done, server, delivered, refused>>
        /\ \A d \in Calls : Sending(d)' => Sending(d)
        /\ Append1(ch) \/ Overflow(ch)
    BY <1>4 DEF Enqueue, Return, Sending, TypeOK, remote
  <2>3. Overflow(ch) => \A d \in Calls : ~Sending(d)
    BY DEF Overflow, Sending
  <2> HIDE DEF ch
  <2>4. QED
    BY <2>1, <2>2, <2>3, WinAppend, WinOverflow
<1>4a. CASE EnqueueUnclosed(c)
  <2> DEFINE ch == req[c].change
  <2>1. ch \in Change /\ ch.id \notin Taken
    BY <1>4a DEF EnqueueUnclosed, Unsent, TypeOK, Request, Fresh
  <2>2. /\ UNCHANGED <<pending, batch, done, server, accepted, delivered, refused, pushed>>
        /\ \A d \in Calls : Sending(d)' => Sending(d)
    BY <1>4a DEF EnqueueUnclosed, Return, Sending, TypeOK, memory, remote
  <2>3. CASE torn
    BY <1>4a, <2>2, <2>3, WinQuiet DEF EnqueueUnclosed
  <2>4. CASE ~torn
    <3>1. /\ file' = Append(file, ch) /\ stray' = stray \cup {ch.id}
          /\ lastQueued' = Apply(lastQueued, ch)
      BY <1>4a, <2>4 DEF EnqueueUnclosed
    <3> HIDE DEF ch
    <3>2. QED
      BY <2>1, <2>2, <3>1, WinUnclosed
  <2>5. QED
    BY <2>3, <2>4
<1>5. ~EnqueueUnwritten(c)
  BY DEF EnqueueUnwritten
<1>6. CASE \/ Answered(c) \/ AnsweredCancelled(c) \/ Drain(c) \/ SendsOver(c)
           \/ Unflag(c) \/ FinishRead(c) \/ FinishPlain(c) \/ EnqueueTorn(c)
           \/ SyncState(c) \/ SyncRead(c) \/ FinishSyncRead(c) \/ SyncEnd(c)
  <2>1. UNCHANGED <<pending, file, batch, done, server, accepted, delivered, refused,
                    lastQueued, stray, pushed>>
    BY <1>6 DEF Answered, AnsweredCancelled, Drain, SendsOver, Unflag, FinishRead,
                FinishPlain, EnqueueTorn, SyncState, SyncRead, FinishSyncRead, SyncEnd,
                memory, disk, remote, history
  <2>2. \A d \in Calls : Sending(d)' => Sending(d)
    BY <1>6 DEF Answered, AnsweredCancelled, Drain, SendsOver, Unflag, FinishRead,
                FinishPlain, EnqueueTorn, SyncState, SyncRead, FinishSyncRead, SyncEnd,
                Return, Sending, TypeOK
  <2>3. QED
    BY <2>1, <2>2, WinQuiet
<1>7. QED
  BY <1>1, <1>2, <1>3, <1>4, <1>4a, <1>5, <1>6 DEF Step

(* Wrap starts from the files: what was accepted and is owed is in them.   *)
LEMMA WinRestart ==
  ASSUME TypeOK, Durable, Winning, Restart
  PROVE  Winning'
<1>1. /\ pending' = file
      /\ UNCHANGED <<file, server, accepted, delivered, refused, lastQueued, stray, pushed>>
      /\ \A d \in Calls : ~Sending(d)'
  BY DEF Restart, disk, remote, Sending
<1>2. ASSUME NEW x \in Items PROVE Won(x)'
  <2>1. Won(x)
    BY DEF Winning
  <2>2. ASSUME NEW k \in 1..Len(pending), pending[k].id \notin stray
        PROVE  \E m \in 1..Len(file) : file[m].id = pending[k].id
    BY <2>2 DEF Winning, Known, Durable, Taken, InQueue
  <2>3. QED
    BY <1>1, <2>1, <2>2 DEF Won
<1>3. QED
  BY <1>1, <1>2 DEF Winning, Taken

LEMMA WinNext ==
  ASSUME TypeOK, OneFlusher, Fresh, Durable, spoiled \/ Winning, [Next]_vars
  PROVE  (spoiled \/ Winning)'
<1>1. spoiled => spoiled'
  <2>1. ASSUME NEW c \in Calls, Start(c) PROVE spoiled' = spoiled
    BY <2>1 DEF Start, Write, Read, Other, StartSync, history
  <2>2. ASSUME NEW c \in Calls, Step(c), spoiled PROVE spoiled'
    <3>1. CASE Enqueue(c)
      BY <2>2, <3>1 DEF Enqueue, Append1, Overflow
    <3>2. CASE EnqueueUnwritten(c)
      BY <3>2 DEF EnqueueUnwritten
    <3>2a. CASE EnqueueUnclosed(c)
      BY <2>2, <3>2a DEF EnqueueUnclosed
    <3>3. CASE ~Enqueue(c) /\ ~EnqueueUnwritten(c) /\ ~EnqueueUnclosed(c)
      BY <2>2, <3>3
      DEF Step, Answered, AnsweredCancelled, Drain, Clone, Send, SendsOver, Settle,
          Unflag, FinishRead, FinishPlain, EnqueueTorn, SyncState, SyncRead,
          FinishSyncRead, SyncEnd, history
    <3>4. QED
      BY <3>1, <3>2, <3>2a, <3>3
  <2>3. Restart \/ Outage \/ UNCHANGED vars => spoiled' = spoiled
    BY DEF Restart, Outage, vars, history
  <2>4. QED
    BY <2>1, <2>2, <2>3 DEF Next
<1> SUFFICES ASSUME ~spoiled', Winning PROVE Winning'
  BY <1>1
<1>2. ASSUME NEW c \in Calls, Start(c) \/ Step(c) PROVE Winning'
  BY <1>2, WinStart, WinStep
<1>3. CASE Restart
  BY <1>3, WinRestart
<1>4. CASE Outage \/ UNCHANGED vars
  <2>1. UNCHANGED <<pending, file, batch, done, server, accepted, delivered, refused,
                    lastQueued, stray, pushed, pc>>
    BY <1>4 DEF Outage, vars, memory, calls, disk, remote, history
  <2>2. \A d \in Calls : Sending(d)' => Sending(d)
    BY <2>1 DEF Sending
  <2>3. QED
    BY <2>1, <2>2, WinQuiet
<1>5. QED
  BY <1>2, <1>3, <1>4 DEF Next

(* Once nothing is queued for an item whose last queued change was         *)
(* delivered, the server has that change or a later one, whatever was      *)
(* replayed, again and in part, whatever writes failed and wherever the    *)
(* process ended (flush, queue.sent, queue.rewrite, Wrap), but for what    *)
(* OfflineWritesWin excepts.                                               *)
THEOREM NewestChangeWins == Spec => []OfflineWritesWin
<1>1. Init => Fresh /\ (spoiled \/ Winning)
  <2> SUFFICES ASSUME Init PROVE Fresh /\ Winning
    OBVIOUS
  <2>1. Fresh
    BY DEF Init, Fresh, Taken, Nothing
  <2>2. QED
    BY <2>1, EmptySeq DEF Init, Winning, Taken, Known, Followed, Won, InQueue, Sending
<1>2. /\ TypeOK /\ OneFlusher /\ Durable /\ Fresh /\ (spoiled \/ Winning) /\ [Next]_vars
      => Fresh' /\ (spoiled \/ Winning)'
  BY FreshNext, WinNext
<1>3. spoiled \/ Winning => OfflineWritesWin
  BY DEF Winning, Won, Known, OfflineWritesWin
<1>4. QED
  BY <1>1, <1>2, <1>3, TypeCorrect, FlushIsExclusive, AcceptedIsDurable, PTL DEF Spec
-----------------------------------------------------------------------------
(***************************************************************************)
(* Losses are counted, and the store implements the outbox, while the      *)
(* files can be written.                                                   *)
(*                                                                         *)
(* The hard case is an overflow while a flush is between its clone and its *)
(* end: the queue has then moved under the clone, and the end of the flush *)
(* takes from the front changes that were never sent.  The invariant says  *)
(* how far the queue has moved (e below), that the changes still in step   *)
(* are, and that the count of losses is ahead of the losses by as much.    *)
(* The order needs less: nothing is owed ahead of a change of the clone    *)
(* but what the clone holds ahead of it.                                   *)
(***************************************************************************)

Writable == Faults \cap {"torn", "close", "rewrite", "halfsave"} = {}

Settled == delivered \cup refused
Left(q) == accepted \ (Settled \cup InQueue(pending) \cup InQueue(q))

(* Since call c cloned the queue, e of its changes were pushed out.        *)
Shifted(c, e) ==
    /\ Len(batch[c]) - e <= Len(pending)
    /\ \A k \in 1..(Len(batch[c]) - e) : pending[k] = batch[c][k + e]
    /\ Cardinality(Left(batch[c])) + e <= dropped + told

InFlight(c) ==
    /\ done[c] <= Len(batch[c])
    /\ \A k \in 1..done[c] : batch[c][k].id \in Settled
    /\ \E e \in 0..Len(batch[c]) : Shifted(c, e)

(* A sync has the store to itself, and has seen the losses it will clear.  *)
SyncAlone(c) ==
    /\ req[c].op = "sync" => pc[c] # "idle" /\ \A d \in Calls \ {c} : pc[d] = "idle"
    /\ pc[c] = "next" => req[c].op = "sync"
    /\ req[c].op = "sync" /\ (pc[c] = "next" \/ req[c].view > 0)
         => req[c].report = dropped

Mirrored == file = pending /\ ~torn /\ savedDropped = dropped

Counted ==
    /\ \A c \in Calls : Sending(c) => InFlight(c)
    /\ (\A c \in Calls : ~Sending(c)) => EveryLossIsAdmitted

-----------------------------------------------------------------------------
(* Counting *)

LEMMA SubsetCount ==
  ASSUME NEW T, IsFiniteSet(T), NEW S \in SUBSET T
  PROVE  /\ IsFiniteSet(S)
         /\ Cardinality(S) \in Nat /\ Cardinality(T) \in Nat
         /\ Cardinality(S) <= Cardinality(T)
BY FS_Subset, FS_CardinalityType

LEMMA LeftFinite ==
  ASSUME TypeOK
  PROVE  /\ IsFiniteSet(accepted) /\ IsFiniteSet(Lost) /\ Cardinality(Lost) \in Nat
         /\ \A q : IsFiniteSet(Left(q)) /\ Cardinality(Left(q)) \in Nat
<1>1. IsFiniteSet(accepted)
  <2>1. MaxChanges \in Int /\ accepted \in SUBSET (1..MaxChanges)
    BY ConstantsAssumption DEF TypeOK, Ids
  <2>2. IsFiniteSet(1..MaxChanges)
    BY <2>1, FS_Interval
  <2>3. QED
    BY <2>1, <2>2, FS_Subset
<1>2. \A q : Left(q) \in SUBSET accepted
  BY DEF Left
<1>3. Lost \in SUBSET accepted
  BY DEF Lost
<1>4. QED
  BY <1>1, <1>2, <1>3, SubsetCount

(* A set that n positions of a sequence cover, beside a set L.             *)
LEMMA CoverCount ==
  ASSUME NEW L, IsFiniteSet(L), NEW a \in Nat, NEW n \in Nat, NEW f,
         NEW X, \A x \in X : x \in L \/ \E k \in (a + 1)..(a + n) : x = f[k]
  PROVE  Cardinality(X) \in Nat /\ Cardinality(X) <= Cardinality(L) + n
<1> DEFINE D == (a + 1)..(a + n)
           I == {f[k] : k \in D}
           g == [k \in D |-> f[k]]
<1>1. IsFiniteSet(D) /\ Cardinality(D) = n
  BY FS_Interval
<1>2. g \in Surjection(D, I)
  BY DEF Surjection
<1>3. IsFiniteSet(I) /\ Cardinality(I) <= n
  BY <1>1, <1>2, FS_Surjection
<1>4. /\ IsFiniteSet(L \cup I)
      /\ Cardinality(L \cup I) = Cardinality(L) + Cardinality(I) - Cardinality(L \cap I)
  BY <1>3, FS_Union
<1>5. Cardinality(L) \in Nat /\ Cardinality(I) \in Nat /\ Cardinality(L \cap I) \in Nat
  BY <1>3, FS_CardinalityType, FS_Intersection
<1>6. X \in SUBSET (L \cup I)
  OBVIOUS
<1>7. /\ Cardinality(X) \in Nat /\ Cardinality(L \cup I) \in Nat
      /\ Cardinality(X) <= Cardinality(L \cup I)
  BY <1>4, <1>6, SubsetCount
<1> HIDE DEF D, I, g
<1>8. QED
  BY <1>3, <1>4, <1>5, <1>7

(* While a flush is under way the count already covers what it may lose.   *)
LEMMA InFlightAdmits ==
  ASSUME TypeOK, NEW c \in Calls, InFlight(c)
  PROVE  EveryLossIsAdmitted
<1> DEFINE b == batch[c]
           f == [k \in 1..Len(b) |-> b[k].id]
<1>1. PICK e \in 0..Len(b) : Shifted(c, e)
  BY DEF InFlight
<1>2. ASSUME NEW x \in Lost PROVE x \in Left(b) \/ \E k \in (0 + 1)..(0 + e) : x = f[k]
  <2>1. SUFFICES ASSUME x \notin Left(b) PROVE \E k \in 1..e : x = f[k]
    OBVIOUS
  <2>2. PICK k \in 1..Len(b) : x = b[k].id
    BY <1>2, <2>1 DEF Lost, Left, Settled, InQueue
  <2>3. CASE k <= e
    BY <2>2, <2>3
  <2>4. CASE k > e
    <3>1. k - e \in 1..(Len(b) - e) /\ (k - e) + e = k
      BY <2>4, <1>1
    <3>2. pending[k - e] = b[k] /\ k - e \in 1..Len(pending)
      BY <3>1, <1>1 DEF Shifted, TypeOK
    <3>3. QED
      BY <1>2, <2>2, <3>2 DEF Lost, InQueue
  <2>5. k <= e \/ k > e
    BY <1>1, <2>2 DEF TypeOK
  <2>6. QED
    BY <2>3, <2>4, <2>5
<1>3. e \in Nat /\ Len(b) \in Nat /\ dropped \in Nat /\ told \in Nat
  BY <1>1 DEF TypeOK
<1>4. Cardinality(Lost) \in Nat /\ Cardinality(Lost) <= Cardinality(Left(b)) + e
  <2> HIDE DEF f
  <2>1. QED
    BY <1>2, <1>3, LeftFinite, CoverCount
<1>5. QED
  BY <1>1, <1>3, <1>4, LeftFinite DEF Shifted, EveryLossIsAdmitted

LEMMA CountedAdmits ==
  ASSUME TypeOK, Counted
  PROVE  EveryLossIsAdmitted
BY InFlightAdmits DEF Counted
-----------------------------------------------------------------------------
(* The steps that change the queue, a clone or the count *)

(* A step that leaves the queue, the clones and the sum of the counts.     *)
LEMMA QuietCount ==
  ASSUME TypeOK, Counted,
         UNCHANGED <<pending, batch, done, accepted, delivered, refused>>,
         dropped' + told' = dropped + told,
         \A d \in Calls : Sending(d)' => Sending(d)
  PROVE  Counted'
<1>1. EveryLossIsAdmitted
  BY CountedAdmits
<1>2. EveryLossIsAdmitted'
  BY <1>1 DEF EveryLossIsAdmitted, Lost, InQueue
<1>3. ASSUME NEW d \in Calls, Sending(d)' PROVE InFlight(d)'
  <2>1. InFlight(d)
    BY <1>3 DEF Counted
  <2>2. QED
    BY <2>1 DEF InFlight, Shifted, Left, Settled, InQueue
<1>4. QED
  BY <1>2, <1>3 DEF Counted

LEMMA CloneCount ==
  ASSUME TypeOK, OneFlusher, Counted, NEW c \in Calls, Clone(c)
  PROVE  Counted'
<1>1. Flushing(c) /\ ~Sending(c)
  BY DEF Clone, Flushing, Sending
<1>2. \A d \in Calls : ~Sending(d)
  BY <1>1, OneSender
<1>3. \A d \in Calls : Sending(d)' => d = c
  BY <1>2 DEF Clone, Sending, TypeOK
<1>4. Sending(c)'
  BY DEF Clone, Sending, TypeOK
<1>5. InFlight(c)'
  <2>1. /\ batch'[c] = pending /\ pending' = pending /\ done'[c] = 0
        /\ dropped' = dropped /\ told' = told
        /\ accepted' = accepted /\ Settled' = Settled
    BY DEF Clone, TypeOK, memory, history, Settled
  <2>2. Left(batch[c])' = Lost
    BY <2>1 DEF Left, Lost, Settled, InQueue
  <2>3. Cardinality(Lost) <= dropped + told /\ Cardinality(Lost) \in Nat
    BY <1>2, LeftFinite DEF Counted, EveryLossIsAdmitted
  <2>4. dropped \in Nat /\ told \in Nat /\ Len(pending) \in Nat
    BY DEF TypeOK
  <2>5. Shifted(c, 0)'
    BY <2>1, <2>2, <2>3, <2>4 DEF Shifted
  <2>6. QED
    BY <2>1, <2>4, <2>5 DEF InFlight
<1>6. QED
  BY <1>3, <1>4, <1>5 DEF Counted

LEMMA SendCount ==
  ASSUME TypeOK, OneFlusher, Counted, NEW c \in Calls, Send(c)
  PROVE  Counted'
<1> DEFINE b  == batch[c]
           ch == b[done[c] + 1]
<1>1. Sending(c) /\ Flushing(c)
  BY DEF Send, Sending, Flushing
<1>2. \A d \in Calls : Sending(d) => d = c
  BY <1>1, OneSender
<1>3. \A d \in Calls : Sending(d)' => d = c
  BY <1>2 DEF Send, Sending, TypeOK
<1>4. Sending(c)'
  BY DEF Send, Sending, TypeOK
<1>5. InFlight(c)
  BY <1>1 DEF Counted
<1>6. /\ UNCHANGED <<pending, batch, accepted, dropped, told>>
      /\ Settled \subseteq Settled'
      /\ \/ done'[c] = done[c]
         \/ done'[c] = done[c] + 1 /\ ch.id \in Settled'
      /\ done[c] < Len(b)
  BY DEF Send, Settled, TypeOK
<1>7. InFlight(c)'
  <2>1. done'[c] <= Len(b) /\ \A k \in 1..done'[c] : b[k].id \in Settled'
    BY <1>5, <1>6 DEF InFlight, TypeOK
  <2>2. PICK e \in 0..Len(b) : Shifted(c, e)
    BY <1>5 DEF InFlight
  <2>3. Left(b)' \in SUBSET Left(b)
    BY <1>6 DEF Left, InQueue
  <2>4. Cardinality(Left(b)') \in Nat /\ Cardinality(Left(b)') <= Cardinality(Left(b))
    BY <2>3, LeftFinite, SubsetCount
  <2>5. Cardinality(Left(b)) \in Nat /\ e \in Nat /\ dropped \in Nat /\ told \in Nat
    BY <2>2, LeftFinite DEF TypeOK
  <2>6. Left(batch[c])' = Left(b)'
    BY <1>6 DEF Left, InQueue
  <2>7. Shifted(c, e)'
    BY <1>6, <2>2, <2>4, <2>5, <2>6 DEF Shifted
  <2>8. QED
    BY <1>6, <2>1, <2>7 DEF InFlight
<1>8. QED
  BY <1>3, <1>4, <1>7 DEF Counted

(* The end of a flush: of the changes that leave the queue, those that     *)
(* were not sent stand in e positions of the clone and what follows it.    *)
LEMMA SettleCount ==
  ASSUME TypeOK, OneFlusher, Counted, NEW c \in Calls, Settle(c)
  PROVE  Counted'
<1> DEFINE b == batch[c]
           d == done[c]
           n == MinOf(d, Len(pending))
<1>1. Sending(c) /\ Flushing(c)
  BY DEF Settle, Sending, Flushing
<1>2. \A x \in Calls : ~Sending(x)'
  BY <1>1, OneSender DEF Settle, Sending, TypeOK
<1>3. InFlight(c)
  BY <1>1 DEF Counted
<1>4. PICK e \in 0..Len(b) : Shifted(c, e)
  BY <1>3 DEF InFlight
<1>5. /\ e \in Nat /\ d \in Nat /\ Len(b) \in Nat /\ Len(pending) \in Nat
      /\ dropped \in Nat /\ told \in Nat /\ e <= Len(b) /\ d <= Len(b)
  BY <1>3, <1>4 DEF TypeOK, InFlight
<1>6. n \in 0..Len(pending) /\ n <= d /\ (n = d \/ n = Len(pending))
  BY <1>5 DEF MinOf
<1>7. /\ pending' = DropFirst(pending, n)
      /\ accepted' = accepted /\ Settled' = Settled /\ dropped' = dropped /\ told' = told
  BY DEF Settle, history, Settled
<1>8. /\ Len(pending') = Len(pending) - n
      /\ \A k \in 1..(Len(pending) - n) : pending'[k] = pending[n + k]
  BY <1>6, <1>7, DropFirstProperties DEF TypeOK
<1> DEFINE f == [k \in (d + 1)..(d + e) |->
                   IF k <= Len(b) THEN b[k].id ELSE pending[k - e].id]
<1> HIDE DEF n, d, b, f
<1>9. ASSUME NEW j \in 1..Len(pending), pending[j].id \notin InQueue(pending)'
      PROVE  j <= d
  <2>1. SUFFICES ASSUME j > n PROVE FALSE
    BY <1>5, <1>6
  <2>2. j - n \in 1..(Len(pending) - n) /\ n + (j - n) = j /\ j - n \in 1..Len(pending')
    BY <1>5, <1>6, <1>8, <2>1
  <2>3. pending'[j - n] = pending[j]
    BY <1>8, <2>2
  <2>4. QED
    BY <1>9, <2>2, <2>3 DEF InQueue
<1>10. ASSUME NEW x \in Lost', NEW k \in 1..Len(b), x = b[k].id
       PROVE  k \in (d + 1)..(d + e)
  <2>1. x \in accepted /\ x \notin Settled /\ x \notin InQueue(pending)'
    BY <1>7, <1>10 DEF Lost, Settled
  <2>2. k > d
    BY <1>3, <1>5, <1>10, <2>1 DEF InFlight, b, d
  <2>3. CASE k > e
    <3>1. k - e \in 1..(Len(b) - e) /\ (k - e) + e = k /\ k - e \in 1..Len(pending)
      BY <1>4, <1>5, <2>3 DEF Shifted, b
    <3>2. pending[k - e] = b[k]
      BY <1>4, <3>1 DEF Shifted, b
    <3>3. k - e <= d
      BY <1>9, <1>10, <2>1, <3>1, <3>2
    <3>4. QED
      BY <1>5, <2>2, <3>1, <3>3
  <2>4. QED
    BY <1>5, <2>2, <2>3
<1>11. ASSUME NEW x \in Lost'
       PROVE  x \in Left(b) \/ \E k \in (d + 1)..(d + e) : x = f[k]
  <2>1. x \in accepted /\ x \notin Settled /\ x \notin InQueue(pending)'
    BY <1>7, <1>11 DEF Lost, Settled
  <2>2. CASE \E k \in 1..Len(b) : x = b[k].id
    <3>1. PICK k \in 1..Len(b) : x = b[k].id
      BY <2>2
    <3>2. k \in (d + 1)..(d + e)
      BY <1>10, <1>11, <3>1
    <3>3. f[k] = b[k].id
      BY <1>5, <3>1, <3>2 DEF f
    <3>4. QED
      BY <3>1, <3>2, <3>3
  <2>3. CASE x \notin InQueue(b) /\ x \in InQueue(pending)
    <3>1. PICK j \in 1..Len(pending) : x = pending[j].id
      BY <2>3 DEF InQueue
    <3>2. j <= d
      BY <1>9, <2>1, <3>1
    <3>3. CASE j + e <= Len(b)
      <4>1. j \in 1..(Len(b) - e) /\ j + e \in 1..Len(b)
        BY <1>5, <3>1, <3>3
      <4>2. pending[j] = b[j + e]
        BY <1>4, <4>1 DEF Shifted, b
      <4>3. QED
        BY <2>3, <3>1, <4>1, <4>2 DEF InQueue
    <3>4. CASE j + e > Len(b)
      <4>1. j + e \in (d + 1)..(d + e) /\ (j + e) - e = j
        BY <1>5, <3>1, <3>2, <3>4
      <4>2. f[j + e] = pending[j].id
        BY <1>5, <3>4, <4>1 DEF f
      <4>3. QED
        BY <3>1, <4>1, <4>2
    <3>5. j + e <= Len(b) \/ j + e > Len(b)
      BY <1>5, <3>1
    <3>6. QED
      BY <3>3, <3>4, <3>5
  <2>4. CASE x \notin InQueue(b) /\ x \notin InQueue(pending)
    BY <2>1, <2>4 DEF Left
  <2>5. QED
    BY <2>2, <2>3, <2>4 DEF InQueue
<1>12. Cardinality(Lost') \in Nat /\ Cardinality(Lost') <= Cardinality(Left(b)) + e
  <2>1. IsFiniteSet(Left(b)) /\ d \in Nat /\ e \in Nat
    BY <1>5, LeftFinite
  <2>2. QED
    BY <1>11, <2>1, CoverCount
<1>13. EveryLossIsAdmitted'
  <2>1. Cardinality(Left(b)) \in Nat /\ Cardinality(Left(b)) + e <= dropped + told
    BY <1>4, LeftFinite DEF Shifted, b
  <2>2. Cardinality(Lost') <= dropped' + told'
    BY <1>5, <1>7, <1>12, <2>1
  <2>3. QED
    BY <2>2 DEF EveryLossIsAdmitted
<1>14. QED
  BY <1>2, <1>13 DEF Counted

(* A change joins the queue below the cap. *)
LEMMA AppendCount ==
  ASSUME TypeOK, Counted, NEW ch \in Change,
         pending' = Append(pending, ch), accepted' = accepted \cup {ch.id},
         UNCHANGED <<batch, done, delivered, refused, dropped, told>>,
         \A d \in Calls : Sending(d)' => Sending(d)
  PROVE  Counted'
<1>1. InQueue(pending)' = InQueue(pending) \cup {ch.id}
  BY InQueueAppend DEF TypeOK, InQueue
<1>2. Settled' = Settled /\ dropped \in Nat /\ told \in Nat
  BY DEF Settled, TypeOK
<1>3. EveryLossIsAdmitted'
  <2>1. Lost' \in SUBSET Lost
    BY <1>1, <1>2 DEF Lost, Settled
  <2>2. Cardinality(Lost') \in Nat /\ Cardinality(Lost') <= Cardinality(Lost)
    BY <2>1, LeftFinite, SubsetCount
  <2>3. Cardinality(Lost) \in Nat /\ Cardinality(Lost) <= dropped + told
    BY CountedAdmits, LeftFinite DEF EveryLossIsAdmitted
  <2>4. QED
    BY <1>2, <2>2, <2>3 DEF EveryLossIsAdmitted
<1>4. ASSUME NEW d \in Calls, Sending(d)' PROVE InFlight(d)'
  <2> DEFINE b == batch[d]
  <2>1. InFlight(d)
    BY <1>4 DEF Counted
  <2>2. PICK e \in 0..Len(b) : Shifted(d, e)
    BY <2>1 DEF InFlight
  <2>3. Left(batch[d])' \in SUBSET Left(b)
    BY <1>1, <1>2 DEF Left, InQueue
  <2>4. /\ Cardinality(Left(batch[d])') \in Nat
        /\ Cardinality(Left(batch[d])') <= Cardinality(Left(b))
    BY <2>3, LeftFinite, SubsetCount
  <2>5. Cardinality(Left(b)) \in Nat /\ e \in Nat /\ Len(b) \in Nat /\ Len(pending) \in Nat
    BY <2>2, LeftFinite DEF TypeOK
  <2>6. Cardinality(Left(batch[d])') + e <= dropped' + told'
    BY <1>2, <2>2, <2>4, <2>5 DEF Shifted
  <2>7. /\ Len(pending') = Len(pending) + 1
        /\ \A k \in 1..Len(pending) : pending'[k] = pending[k]
    BY AppendProperties DEF TypeOK
  <2>8. Len(b) - e <= Len(pending) /\ \A k \in 1..(Len(b) - e) : pending[k] = b[k + e]
    BY <2>2 DEF Shifted
  <2>9. /\ Len(b) - e <= Len(pending')
        /\ \A k \in 1..(Len(b) - e) : pending'[k] = b[k + e]
    BY <2>5, <2>7, <2>8
  <2>10. Shifted(d, e)'
    BY <2>6, <2>9 DEF Shifted
  <2>11. QED
    BY <1>2, <2>1, <2>10 DEF InFlight
<1>5. QED
  BY <1>3, <1>4 DEF Counted

(* A change joins a full queue: the oldest leaves it and is counted.       *)
LEMMA OverflowCount ==
  ASSUME TypeOK, Counted, NEW ch \in Change, Len(pending) >= 1,
         pending' = Append(DropFirst(pending, 1), ch), dropped' = dropped + 1,
         accepted' = accepted \cup {ch.id},
         UNCHANGED <<batch, done, delivered, refused, told>>,
         \A d \in Calls : Sending(d)' => Sending(d)
  PROVE  Counted'
<1> DEFINE q    == DropFirst(pending, 1)
           head == pending[1].id
<1>1. /\ q \in Seq(Change) /\ Len(q) = Len(pending) - 1 /\ Len(pending) \in Nat
      /\ \A k \in 1..(Len(pending) - 1) : q[k] = pending[1 + k]
  BY DropFirstProperties DEF TypeOK
<1>2. /\ Len(pending') = Len(pending)
      /\ \A k \in 1..(Len(pending) - 1) : pending'[k] = pending[1 + k]
  <2> HIDE DEF q
  <2>1. pending' = Append(q, ch)
    BY DEF q
  <2>2. QED
    BY <1>1, <2>1, AppendProperties
<1>3. /\ ch.id \in InQueue(pending')
      /\ InQueue(pending) \subseteq InQueue(pending') \cup {head}
  <2>1. InQueue(pending') = InQueue(q) \cup {ch.id}
    BY <1>1, InQueueAppend
  <2>2. ASSUME NEW k \in 1..Len(pending) PROVE pending[k].id \in InQueue(q) \cup {head}
    <3>1. CASE k = 1
      BY <3>1
    <3>2. CASE k # 1
      <4>1. k - 1 \in 1..(Len(pending) - 1) /\ 1 + (k - 1) = k
        BY <1>1, <3>2
      <4>2. q[k - 1] = pending[k]
        BY <1>1, <4>1
      <4>3. QED
        BY <1>1, <4>1, <4>2 DEF InQueue
    <3>3. QED
      BY <3>1, <3>2
  <2>3. QED
    BY <2>1, <2>2 DEF InQueue
<1> HIDE DEF q, head
<1>4. Settled' = Settled /\ dropped \in Nat /\ told \in Nat
  BY DEF Settled, TypeOK
<1>5. ASSUME NEW L, IsFiniteSet(L), NEW X \in SUBSET (L \cup {head})
      PROVE  Cardinality(X) \in Nat /\ Cardinality(X) <= Cardinality(L) + 1
  <2>1. Cardinality(L) \in Nat
    BY <1>5, FS_CardinalityType
  <2>2. /\ IsFiniteSet(L \cup {head})
        /\ Cardinality(L \cup {head}) = IF head \in L THEN Cardinality(L)
                                       ELSE Cardinality(L) + 1
    BY <1>5, FS_AddElement
  <2>3. /\ Cardinality(X) \in Nat /\ Cardinality(L \cup {head}) \in Nat
        /\ Cardinality(X) <= Cardinality(L \cup {head})
    BY <1>5, <2>2, SubsetCount
  <2>4. QED
    BY <2>1, <2>2, <2>3
<1>6. EveryLossIsAdmitted'
  <2>1. Lost' \in SUBSET (Lost \cup {head})
    BY <1>3, <1>4 DEF Lost, Settled
  <2>2. Cardinality(Lost') \in Nat /\ Cardinality(Lost') <= Cardinality(Lost) + 1
    BY <1>5, <2>1, LeftFinite
  <2>3. Cardinality(Lost) \in Nat /\ Cardinality(Lost) <= dropped + told
    BY CountedAdmits, LeftFinite DEF EveryLossIsAdmitted
  <2>4. Cardinality(Lost') <= dropped' + told'
    BY <1>4, <2>2, <2>3
  <2>5. QED
    BY <2>4 DEF EveryLossIsAdmitted
<1>7. ASSUME NEW d \in Calls, Sending(d)' PROVE InFlight(d)'
  <2> DEFINE b == batch[d]
  <2>1. InFlight(d) /\ Len(b) \in Nat
    BY <1>7 DEF Counted, TypeOK
  <2>2. PICK e \in 0..Len(b) : Shifted(d, e)
    BY <2>1 DEF InFlight
  <2>3. /\ Len(b) - e <= Len(pending) /\ \A k \in 1..(Len(b) - e) : pending[k] = b[k + e]
        /\ Cardinality(Left(b)) + e <= dropped + told
    BY <2>2 DEF Shifted
  <2>4. IsFiniteSet(Left(b)) /\ Cardinality(Left(b)) \in Nat /\ e \in Nat
    BY <2>2, LeftFinite
  <2>5. Left(batch[d])' \in SUBSET (Left(b) \cup {head})
    BY <1>3, <1>4 DEF Left, InQueue
  <2>6. CASE e = Len(b)
    <3>1. /\ Cardinality(Left(batch[d])') \in Nat
          /\ Cardinality(Left(batch[d])') <= Cardinality(Left(b)) + 1
      BY <1>5, <2>4, <2>5
    <3>2. Cardinality(Left(batch[d])') + e <= dropped' + told'
      BY <1>4, <2>3, <2>4, <3>1
    <3>3. Shifted(d, e)'
      BY <1>1, <1>2, <2>1, <2>6, <3>2 DEF Shifted
    <3>4. QED
      BY <1>4, <2>1, <3>3 DEF InFlight
  <2>7. CASE e < Len(b)
    <3>1. 1 \in 1..(Len(b) - e) /\ pending[1] = b[e + 1] /\ e + 1 \in 1..Len(b)
      BY <2>1, <2>3, <2>4, <2>7
    <3>2. head \in InQueue(b)
      BY <3>1 DEF head, InQueue
    <3>3. Left(batch[d])' \in SUBSET Left(b)
      BY <1>4, <2>5, <3>2 DEF Left, InQueue
    <3>4. /\ Cardinality(Left(batch[d])') \in Nat
          /\ Cardinality(Left(batch[d])') <= Cardinality(Left(b))
      BY <2>4, <3>3, SubsetCount
    <3>5. Cardinality(Left(batch[d])') + (e + 1) <= dropped' + told'
      BY <1>4, <2>3, <2>4, <3>4
    <3>6. ASSUME NEW k \in 1..(Len(b) - (e + 1)) PROVE pending'[k] = b[k + (e + 1)]
      <4>1. /\ k \in 1..(Len(pending) - 1) /\ 1 + k \in 1..(Len(b) - e)
            /\ (1 + k) + e = k + (e + 1)
        BY <1>1, <2>1, <2>3, <2>4
      <4>2. QED
        BY <1>2, <2>3, <4>1
    <3>7. Len(b) - (e + 1) <= Len(pending')
      BY <1>1, <1>2, <2>1, <2>3, <2>4
    <3>8. Shifted(d, e + 1)'
      BY <3>5, <3>6, <3>7 DEF Shifted
    <3>9. e + 1 \in 0..Len(b)
      BY <2>1, <2>4, <2>7
    <3>10. QED
      BY <1>4, <2>1, <3>8, <3>9 DEF InFlight
  <2>8. QED
    BY <2>1, <2>2, <2>6, <2>7
<1>8. QED
  BY <1>6, <1>7 DEF Counted

-----------------------------------------------------------------------------
(* What the count rests on: the files mirror the memory, and a sync is     *)
(* alone and has seen the losses it is about to clear.                     *)

Ready == Mirrored /\ Len(pending) <= MaxQueued /\ \A c \in Calls : SyncAlone(c)

LEMMA MirrorStep ==
  ASSUME TypeOK, Mirrored, Writable, NEW c \in Calls, Step(c)
  PROVE  Mirrored'
<1>1. /\ "torn" \notin Faults /\ "close" \notin Faults
      /\ "rewrite" \notin Faults /\ "halfsave" \notin Faults
  BY DEF Writable
<1>2. CASE Settle(c)
  BY <1>1, <1>2 DEF Settle, Rewrite, Mirrored
<1>3. CASE FinishRead(c)
  BY <1>1, <1>3 DEF FinishRead, Update, SaveSnap, Mirrored
<1>4. CASE FinishSyncRead(c)
  BY <1>1, <1>4 DEF FinishSyncRead, Update, SaveSnap, Mirrored
<1>5. CASE SyncEnd(c)
  BY <1>1, <1>5 DEF SyncEnd, SaveSnap, Mirrored
<1>6. CASE Enqueue(c)
  BY <1>1, <1>6 DEF Enqueue, Append1, Overflow, SaveSnap, Mirrored
<1>7. CASE UNCHANGED <<pending, dropped, disk>>
  BY <1>7 DEF Mirrored, disk
<1>8. QED
  BY <1>1, <1>2, <1>3, <1>4, <1>5, <1>6, <1>7
  DEF Step, Answered, AnsweredCancelled, Drain, Clone, Send, SendsOver, Unflag,
      FinishPlain, EnqueueTorn, EnqueueUnclosed, EnqueueUnwritten, SyncState, SyncRead, memory

LEMMA SyncStart ==
  ASSUME TypeOK, \A d \in Calls : SyncAlone(d), NEW c \in Calls, Start(c)
  PROVE  \A d \in Calls : SyncAlone(d)'
<1>1. CASE StartSync(c)
  BY <1>1 DEF StartSync, SyncAlone, Nothing, TypeOK, memory
<1>2. CASE \E xs \in Targets : Write(c, xs)
  BY <1>2 DEF Write, Plain, NoSync, SyncAlone, Nothing, TypeOK, memory
<1>3. CASE \E i \in 1..Len(Views) : Read(c, i)
  BY <1>3 DEF Read, Plain, NoSync, SyncAlone, Nothing, TypeOK, memory
<1>4. CASE Other(c)
  BY <1>4 DEF Other, Plain, NoSync, SyncAlone, Nothing, TypeOK, memory
<1>5. QED
  BY <1>1, <1>2, <1>3, <1>4 DEF Start

(* The one call that moves inside the store while a sync is under way is   *)
(* that sync.                                                              *)
LEMMA SyncStep ==
  ASSUME TypeOK, \A d \in Calls : SyncAlone(d), NEW c \in Calls, Step(c)
  PROVE  \A d \in Calls : SyncAlone(d)'
<1>1. pc[c] # "idle" /\ \A d \in Calls \ {c} : req[d].op # "sync"
  BY DEF Step, Answered, AnsweredCancelled, Drain, Clone, Send, SendsOver, Settle,
         Unflag, FinishRead, FinishPlain, Enqueue, EnqueueTorn, EnqueueUnclosed, EnqueueUnwritten,
         Unsent, SyncState, SyncRead, FinishSyncRead, SyncEnd, SyncAlone
<1>2. \A d \in Calls \ {c} : pc'[d] = pc[d] /\ req'[d] = req[d]
  BY DEF Step, Answered, AnsweredCancelled, Drain, Clone, Send, SendsOver, Settle,
         Unflag, FinishRead, FinishPlain, Enqueue, EnqueueTorn, EnqueueUnclosed, EnqueueUnwritten,
         Return, SyncState, SyncRead, FinishSyncRead, SyncEnd, TypeOK
<1>3. \A d \in Calls \ {c} : SyncAlone(d)'
  BY <1>1, <1>2 DEF SyncAlone
<1>4. SyncAlone(c)'
  <2>1. CASE Return(c)
    BY <2>1 DEF Return, Nothing, SyncAlone, TypeOK
  <2>2. CASE SyncState(c)
    BY <1>2, <2>2 DEF SyncState, SyncAlone, memory, TypeOK, Request, Asked
  <2>3. CASE SyncRead(c)
    BY <1>2, <2>3 DEF SyncRead, SyncAlone, memory, TypeOK, Request, Asked
  <2>4. CASE FinishSyncRead(c) /\ ~Return(c)
    BY <1>2, <2>4 DEF FinishSyncRead, SyncAlone, TypeOK
  <2>5. CASE AnsweredCancelled(c)
    BY <1>2, <2>5 DEF AnsweredCancelled, SyncAlone, memory, TypeOK, Request, Asked
  <2>6. CASE \/ Answered(c) \/ Drain(c) \/ Clone(c) \/ Send(c) \/ SendsOver(c)
             \/ Settle(c) \/ Unflag(c)
    BY <1>2, <2>6 DEF Answered, Drain, Clone, Send, SendsOver, Settle, Unflag,
                      SyncAlone, memory, TypeOK
  <2>7. QED
    BY <2>1, <2>2, <2>3, <2>4, <2>5, <2>6
    DEF Step, FinishRead, FinishPlain, Enqueue, EnqueueTorn, EnqueueUnclosed, EnqueueUnwritten, SyncEnd
<1>5. QED
  BY <1>3, <1>4

-----------------------------------------------------------------------------
(* The theorem *)

LossInv == Ready /\ Counted

LEMMA CountStart ==
  ASSUME TypeOK, Counted, NEW c \in Calls, Start(c)
  PROVE  Counted'
<1>1. UNCHANGED <<pending, batch, done, accepted, delivered, refused, dropped, told>>
  BY DEF Start, Write, Read, Other, StartSync, memory, history
<1>2. \A d \in Calls : Sending(d)' => Sending(d)
  BY DEF Start, Write, Read, Other, StartSync, Sending, TypeOK
<1>3. QED
  BY <1>1, <1>2, QuietCount

LEMMA CountStep ==
  ASSUME TypeOK, OneFlusher, LossInv, Writable, NEW c \in Calls, Step(c)
  PROVE  Counted'
<1>1. CASE Clone(c)
  BY <1>1, CloneCount DEF LossInv
<1>2. CASE Send(c)
  BY <1>2, SendCount DEF LossInv
<1>3. CASE Settle(c)
  BY <1>3, SettleCount DEF LossInv
<1>4. CASE Enqueue(c)
  <2> DEFINE ch == req[c].change
  <2>1. ch \in Change
    BY <1>4 DEF Enqueue, Unsent, TypeOK, Request
  <2>2. /\ accepted' = accepted \cup {ch.id}
        /\ UNCHANGED <<batch, done, delivered, refused, told>>
        /\ \A d \in Calls : Sending(d)' => Sending(d)
    BY <1>4 DEF Enqueue, Return, Sending, TypeOK
  <2>3. CASE Append1(ch)
    <3>1. pending' = Append(pending, ch) /\ dropped' = dropped
      BY <2>3 DEF Append1
    <3> HIDE DEF ch
    <3>2. QED
      BY <2>1, <2>2, <3>1, AppendCount DEF LossInv
  <2>4. CASE Overflow(ch)
    <3>1. Len(pending) = MaxQueued /\ Len(pending) >= 1
      BY <2>4, ConstantsAssumption DEF Overflow, Full, LossInv, Ready, TypeOK
    <3>2. Len(pending) + 1 - MaxQueued = 1 /\ dropped + Len(pending) + 1 - MaxQueued = dropped + 1
      BY <3>1, ConstantsAssumption DEF TypeOK
    <3>3. pending' = Append(DropFirst(pending, 1), ch) /\ dropped' = dropped + 1
      BY <2>4, <3>1, <3>2 DEF Overflow
    <3> HIDE DEF ch
    <3>4. QED
      BY <2>1, <2>2, <3>1, <3>3, OverflowCount DEF LossInv
  <2>5. QED
    BY <1>4, <2>3, <2>4 DEF Enqueue
<1>5. CASE SyncEnd(c)
  <2>1. req[c].op = "sync" /\ req[c].report = dropped
    BY <1>5 DEF SyncEnd, LossInv, Ready, SyncAlone
  <2>2. dropped' + told' = dropped + told
    BY <1>5, <2>1 DEF SyncEnd, TypeOK
  <2>3. UNCHANGED <<pending, batch, done, accepted, delivered, refused>>
    BY <1>5 DEF SyncEnd
  <2>4. \A d \in Calls : Sending(d)' => Sending(d)
    BY <1>5 DEF SyncEnd, Return, Sending, TypeOK
  <2>5. QED
    BY <2>2, <2>3, <2>4, QuietCount DEF LossInv
<1>6. CASE \/ Answered(c) \/ AnsweredCancelled(c) \/ Drain(c) \/ SendsOver(c)
           \/ Unflag(c) \/ FinishRead(c) \/ FinishPlain(c) \/ SyncState(c)
           \/ SyncRead(c) \/ FinishSyncRead(c)
  <2>1. UNCHANGED <<pending, batch, done, accepted, delivered, refused, dropped, told>>
    BY <1>6 DEF Answered, AnsweredCancelled, Drain, SendsOver, Unflag, FinishRead,
                FinishPlain, SyncState, SyncRead, FinishSyncRead, memory, history
  <2>2. \A d \in Calls : Sending(d)' => Sending(d)
    BY <1>6 DEF Answered, AnsweredCancelled, Drain, SendsOver, Unflag, FinishRead,
                FinishPlain, SyncState, SyncRead, FinishSyncRead, Return, Sending,
                TypeOK
  <2>3. QED
    BY <2>1, <2>2, QuietCount DEF LossInv
<1>7. ~EnqueueTorn(c) /\ ~EnqueueUnclosed(c) /\ ~EnqueueUnwritten(c)
  BY DEF Writable, EnqueueTorn, EnqueueUnclosed, EnqueueUnwritten
<1>8. QED
  BY <1>1, <1>2, <1>3, <1>4, <1>5, <1>6, <1>7 DEF Step

LEMMA LossInit == Init => LossInv
<1> SUFFICES ASSUME Init PROVE LossInv
  OBVIOUS
<1>1. Ready
  BY EmptySeq, ConstantsAssumption
  DEF Init, Ready, Mirrored, SyncAlone, Nothing
<1>2. \A c \in Calls : ~Sending(c)
  BY DEF Init, Sending
<1>3. EveryLossIsAdmitted
  <2>1. Lost = {} /\ dropped = 0 /\ told = 0
    BY DEF Init, Lost
  <2>2. QED
    BY <2>1, FS_EmptySet DEF EveryLossIsAdmitted
<1>4. QED
  BY <1>1, <1>2, <1>3 DEF LossInv, Counted

LEMMA LossNext ==
  ASSUME TypeOK, OneFlusher, LossInv, Writable, [Next]_vars
  PROVE  LossInv'
<1>1. ASSUME NEW c \in Calls, Start(c) PROVE LossInv'
  <2>1. Mirrored' /\ (Len(pending) <= MaxQueued)'
    <3>1. UNCHANGED <<pending, dropped, file, torn, savedDropped>>
      BY <1>1 DEF Start, Write, Read, Other, StartSync, memory, disk
    <3>2. QED
      BY <3>1 DEF LossInv, Ready, Mirrored
  <2>2. QED
    BY <1>1, <2>1, SyncStart, CountStart DEF LossInv, Ready
<1>2. ASSUME NEW c \in Calls, Step(c) PROVE LossInv'
  <2>1. Mirrored' /\ (\A d \in Calls : SyncAlone(d)') /\ Counted'
    BY <1>2, MirrorStep, SyncStep, CountStep DEF LossInv, Ready
  <2>2. CapInv /\ Faults \cap {"rewrite", "close"} = {}
    BY DEF LossInv, Ready, Mirrored, CapInv, Writable, TypeOK
  <2>3. CapInv'
    BY <1>2, <2>2, CapStep
  <2>4. QED
    BY <2>1, <2>3 DEF CapInv, LossInv, Ready
<1>3. CASE Restart
  <2>1. EveryLossIsAdmitted
    BY CountedAdmits DEF LossInv
  <2>2. UNCHANGED <<pending, dropped, file, torn, savedDropped, accepted, delivered,
                    refused, told>>
    BY <1>3 DEF Restart, disk, LossInv, Ready, Mirrored
  <2>3. EveryLossIsAdmitted'
    BY <2>1, <2>2 DEF EveryLossIsAdmitted, Lost, InQueue
  <2>4. \A d \in Calls : ~Sending(d)' /\ SyncAlone(d)'
    BY <1>3 DEF Restart, Sending, SyncAlone, Nothing
  <2>5. QED
    BY <2>2, <2>3, <2>4 DEF LossInv, Ready, Mirrored, Counted
<1>4. CASE Outage \/ UNCHANGED vars
  <2>1. UNCHANGED <<memory, calls, disk, history>>
    BY <1>4 DEF Outage, vars
  <2>2. Ready'
    BY <2>1 DEF memory, calls, disk, LossInv, Ready, Mirrored, SyncAlone
  <2>3. \A d \in Calls : Sending(d)' => Sending(d)
    BY <2>1 DEF calls, Sending
  <2>4. UNCHANGED <<pending, batch, done, accepted, delivered, refused, dropped, told>>
    BY <2>1 DEF memory, calls, history
  <2>5. QED
    BY <2>2, <2>3, <2>4, QuietCount DEF LossInv
<1>5. QED
  BY <1>1, <1>2, <1>3, <1>4 DEF Next

(* Every change the store took and no longer holds was settled with the    *)
(* server or is in the count of losses (flush, queue.sent, enqueue, Sync), *)
(* whatever calls overlap and whenever the process ends, as long as the    *)
(* queue file and the snapshot are written when the code writes them.      *)
THEOREM LossesAreAdmitted == Writable => (Spec => []EveryLossIsAdmitted)
<1> SUFFICES ASSUME Writable PROVE Spec => []EveryLossIsAdmitted
  OBVIOUS
<1>1. Init => LossInv
  BY LossInit
<1>2. TypeOK /\ OneFlusher /\ LossInv /\ [Next]_vars => LossInv'
  BY LossNext
<1>3. TypeOK /\ LossInv => EveryLossIsAdmitted
  BY CountedAdmits DEF LossInv
<1>4. QED
  BY <1>1, <1>2, <1>3, TypeCorrect, FlushIsExclusive, PTL DEF Spec

-----------------------------------------------------------------------------
(* The order *)

(* Nothing is queued twice.                                                *)
Distinct(q) == \A j, k \in 1..Len(q) : q[j].id = q[k].id => j = k

(* What the queue q holds ahead of a change of the clone b is in the       *)
(* clone, ahead of it.                                                     *)
InStep(q, b) ==
    \A k \in 1..Len(b) : \A m \in 1..Len(q) :
      q[m].id = b[k].id => \A j \in 1..(m - 1) : \E i \in 1..(k - 1) : q[j].id = b[i].id

InOrder ==
    /\ InQueue(pending) \subseteq accepted
    /\ Distinct(pending)
    /\ \A c \in Calls : Sending(c) => InQueue(batch[c]) \subseteq accepted /\ InStep(pending, batch[c])

-----------------------------------------------------------------------------
(* The queue without its oldest, and with one more *)

LEMMA DropInOrder ==
  ASSUME NEW q \in Seq(Change), NEW n \in 0..Len(q), Distinct(q)
  PROVE  Distinct(DropFirst(q, n))
<1>1. /\ Len(DropFirst(q, n)) = Len(q) - n /\ Len(q) \in Nat
      /\ \A k \in 1..(Len(q) - n) : DropFirst(q, n)[k] = q[n + k]
  BY DropFirstProperties
<1>2. \A k \in 1..(Len(q) - n) : n + k \in 1..Len(q)
  BY <1>1
<1>3. QED
  BY <1>1, <1>2 DEF Distinct

LEMMA AppendInOrder ==
  ASSUME NEW q \in Seq(Change), NEW ch \in Change, Distinct(q), ch.id \notin InQueue(q)
  PROVE  Distinct(Append(q, ch))
<1>1. /\ Len(Append(q, ch)) = Len(q) + 1 /\ Len(q) \in Nat
      /\ \A k \in 1..Len(q) : Append(q, ch)[k] = q[k]
      /\ Append(q, ch)[Len(q) + 1] = ch
  BY AppendProperties
<1>2. \A k \in 1..Len(q) : q[k].id # ch.id
  BY DEF InQueue
<1>3. \A k \in 1..(Len(q) + 1) : k \in 1..Len(q) \/ k = Len(q) + 1
  BY <1>1
<1>4. QED
  BY <1>1, <1>2, <1>3 DEF Distinct

(* The oldest n leave the queue and a change the clone does not hold joins. *)
LEMMA MoveInStep ==
  ASSUME NEW q \in Seq(Change), NEW b \in Seq(Change), InStep(q, b),
         NEW n \in 0..Len(q), NEW ch \in Change, ch.id \notin InQueue(b)
  PROVE  InStep(Append(DropFirst(q, n), ch), b)
<1> DEFINE r == DropFirst(q, n)
           s == Append(r, ch)
<1>1. /\ r \in Seq(Change) /\ Len(r) = Len(q) - n
      /\ \A k \in 1..(Len(q) - n) : r[k] = q[n + k]
  BY DropFirstProperties
<1> HIDE DEF r
<1>2. /\ Len(s) = Len(r) + 1
      /\ \A k \in 1..Len(r) : s[k] = r[k]
      /\ s[Len(r) + 1] = ch
  BY <1>1, AppendProperties
<1>3. Len(q) \in Nat /\ Len(r) \in Nat
  BY <1>1
<1> HIDE DEF s
<1>4. SUFFICES ASSUME NEW k \in 1..Len(b), NEW m \in 1..Len(s),
                      s[m].id = b[k].id, NEW j \in 1..(m - 1)
               PROVE  \E i \in 1..(k - 1) : s[j].id = b[i].id
  BY DEF InStep, r, s
<1>5. m # Len(r) + 1
  BY <1>2, <1>4 DEF InQueue
<1>6. m \in 1..Len(r)
  BY <1>2, <1>5, <1>3
<1>7. j \in 1..Len(r)
  BY <1>6, <1>3
<1>8. /\ s[m] = q[n + m] /\ s[j] = q[n + j]
      /\ n + m \in 1..Len(q) /\ n + j \in 1..((n + m) - 1)
  BY <1>1, <1>2, <1>6, <1>7, <1>3
<1>9. QED
  BY <1>4, <1>8 DEF InStep

LEMMA OrderStart ==
  ASSUME TypeOK, InOrder, NEW c \in Calls, Start(c)
  PROVE  InOrder'
<1>1. UNCHANGED <<pending, batch, accepted>>
  BY DEF Start, Write, Read, Other, StartSync, memory, history
<1>2. \A d \in Calls : Sending(d)' => Sending(d)
  BY DEF Start, Write, Read, Other, StartSync, Sending, TypeOK
<1>3. QED
  BY <1>1, <1>2 DEF InOrder, Distinct, InQueue

LEMMA OrderStep ==
  ASSUME TypeOK, OneFlusher, Fresh, Ready, Writable, InOrder, NEW c \in Calls, Step(c)
  PROVE  InOrder'
<1>1. CASE Clone(c)
  <2>1. /\ UNCHANGED <<pending, accepted>> /\ batch'[c] = pending
        /\ \A d \in Calls \ {c} : batch'[d] = batch[d] /\ (Sending(d)' => Sending(d))
    BY <1>1 DEF Clone, Sending, TypeOK, memory, history
  <2>2. InStep(pending, batch[c])'
    <3>1. Len(pending) \in Nat
      BY DEF TypeOK
    <3>2. \A k, m \in 1..Len(pending) : pending[m].id = pending[k].id => m = k
      BY DEF InOrder, Distinct
    <3>3. QED
      BY <2>1, <3>1, <3>2 DEF InStep
  <2>3. \A d \in Calls \ {c} : Sending(d)' =>
           InQueue(batch[d])' \subseteq accepted' /\ InStep(pending, batch[d])'
    BY <2>1 DEF InOrder, InQueue
  <2>4. InQueue(batch[c])' \subseteq accepted'
    BY <2>1 DEF InOrder, InQueue
  <2>5. QED
    BY <2>1, <2>2, <2>3, <2>4 DEF InOrder, Distinct, InQueue
<1>2. CASE Settle(c)
  <2> DEFINE n == MinOf(done[c], Len(pending))
  <2>1. n \in 0..Len(pending) /\ pending \in Seq(Change)
    BY DEF MinOf, TypeOK
  <2>2. pending' = DropFirst(pending, n) /\ accepted' = accepted
    BY <1>2 DEF Settle, history
  <2>3. Distinct(pending') /\ InQueue(pending') \subseteq accepted'
    BY <2>1, <2>2, DropInOrder, InQueueDropFirst DEF InOrder
  <2>4. \A d \in Calls : ~Sending(d)'
    BY <1>2, OneSender DEF Settle, Sending, Flushing, TypeOK
  <2>5. QED
    BY <2>3, <2>4 DEF InOrder, Distinct, InQueue
<1>3. CASE Enqueue(c)
  <2> DEFINE ch == req[c].change
  <2>1. ch \in Change /\ ch.id \notin accepted
    BY <1>3 DEF Enqueue, Unsent, TypeOK, Request, Fresh, Taken
  <2>2. /\ accepted' = accepted \cup {ch.id} /\ batch' = batch
        /\ \A d \in Calls : Sending(d)' => Sending(d)
    BY <1>3 DEF Enqueue, Return, Sending, TypeOK
  <2>3. PICK n \in 0..Len(pending) : pending' = Append(DropFirst(pending, n), ch)
    <3>1. CASE Append1(ch)
      <4>1. DropFirst(pending, 0) = pending
        BY DropFirstProperties, SeqEqual DEF TypeOK
      <4>2. pending' = Append(DropFirst(pending, 0), ch) /\ 0 \in 0..Len(pending)
        BY <3>1, <4>1 DEF Append1, TypeOK
      <4>3. QED
        BY <4>2
    <3>2. CASE Overflow(ch)
      <4> DEFINE n == Len(pending) + 1 - MaxQueued
      <4>1. n \in 0..Len(pending)
        BY <3>2, ConstantsAssumption DEF Overflow, Full, TypeOK
      <4>2. pending' = Append(DropFirst(pending, n), ch)
        BY <3>2 DEF Overflow
      <4>3. QED
        BY <4>1, <4>2
    <3>3. QED
      BY <1>3, <3>1, <3>2 DEF Enqueue
  <2> HIDE DEF ch
  <2>4. /\ DropFirst(pending, n) \in Seq(Change) /\ Distinct(DropFirst(pending, n))
        /\ InQueue(DropFirst(pending, n)) \subseteq accepted
    BY DropFirstProperties, DropInOrder, InQueueDropFirst DEF TypeOK, InOrder
  <2>5. ch.id \notin InQueue(DropFirst(pending, n))
    BY <2>1, <2>4
  <2>6. Distinct(pending')
    BY <2>1, <2>3, <2>4, <2>5, AppendInOrder
  <2>7. InQueue(pending') \subseteq accepted'
    BY <2>1, <2>2, <2>3, <2>4, InQueueAppend
  <2>8. ASSUME NEW d \in Calls, Sending(d)'
        PROVE  InQueue(batch[d])' \subseteq accepted' /\ InStep(pending, batch[d])'
    <3>1. InQueue(batch[d]) \subseteq accepted /\ InStep(pending, batch[d])
      BY <2>2, <2>8 DEF InOrder
    <3>2. InStep(pending, batch[d])'
      BY <2>1, <2>2, <2>3, <3>1, MoveInStep DEF TypeOK
    <3>3. QED
      BY <2>2, <3>1, <3>2 DEF InQueue
  <2>9. QED
    BY <2>6, <2>7, <2>8 DEF InOrder, Distinct, InQueue
<1>4. CASE /\ UNCHANGED <<pending, batch, accepted>>
           /\ \A d \in Calls : Sending(d)' => Sending(d)
  BY <1>4 DEF InOrder, Distinct, InQueue
<1>5. CASE Send(c)
  <2>1. UNCHANGED <<pending, batch, accepted>>
    BY <1>5 DEF Send
  <2>2. \A d \in Calls : Sending(d)' => Sending(d)
    BY <1>5 DEF Send, Sending, TypeOK
  <2>3. QED
    BY <1>4, <2>1, <2>2
<1>6. CASE \/ Answered(c) \/ AnsweredCancelled(c) \/ Drain(c) \/ SendsOver(c)
           \/ Unflag(c) \/ FinishRead(c) \/ FinishPlain(c) \/ SyncState(c)
           \/ SyncRead(c) \/ FinishSyncRead(c) \/ SyncEnd(c)
  <2>1. UNCHANGED <<pending, batch, accepted>>
    BY <1>6 DEF Answered, AnsweredCancelled, Drain, SendsOver, Unflag, FinishRead,
                FinishPlain, SyncState, SyncRead, FinishSyncRead, SyncEnd, memory, history
  <2>2. \A d \in Calls : Sending(d)' => Sending(d)
    BY <1>6 DEF Answered, AnsweredCancelled, Drain, SendsOver, Unflag, FinishRead,
                FinishPlain, SyncState, SyncRead, FinishSyncRead, SyncEnd, Return,
                Sending, TypeOK
  <2>3. QED
    BY <1>4, <2>1, <2>2
<1>7. ~EnqueueTorn(c) /\ ~EnqueueUnclosed(c) /\ ~EnqueueUnwritten(c)
  BY DEF Writable, EnqueueTorn, EnqueueUnclosed, EnqueueUnwritten
<1>8. QED
  BY <1>1, <1>2, <1>3, <1>5, <1>6, <1>7 DEF Step

LEMMA OrderNext ==
  ASSUME TypeOK, OneFlusher, Fresh, Ready, Writable, InOrder, [Next]_vars
  PROVE  InOrder'
<1>1. ASSUME NEW c \in Calls, Start(c) \/ Step(c) PROVE InOrder'
  BY <1>1, OrderStart, OrderStep
<1>2. CASE Restart
  <2>1. UNCHANGED <<pending, accepted>> /\ \A d \in Calls : ~Sending(d)'
    BY <1>2 DEF Restart, Sending, Ready, Mirrored
  <2>2. QED
    BY <2>1 DEF InOrder, Distinct, InQueue
<1>3. CASE Outage \/ UNCHANGED vars
  <2>1. UNCHANGED <<pending, batch, pc, accepted>>
    BY <1>3 DEF Outage, vars, memory, calls, history
  <2>2. \A d \in Calls : Sending(d)' => Sending(d)
    BY <2>1 DEF Sending
  <2>3. QED
    BY <2>1, <2>2 DEF InOrder, Distinct, InQueue
<1>4. QED
  BY <1>1, <1>2, <1>3 DEF Next

-----------------------------------------------------------------------------
(* The mapping.  BoxOf(pending) is the box the outbox sees.                *)

BoxOf(q) == [k \in 1..Len(q) |-> q[k].id]

LEMMA BoxType ==
  ASSUME NEW q \in Seq(Change)
  PROVE  /\ BoxOf(q) \in Seq(Ids) /\ Len(BoxOf(q)) = Len(q) /\ Len(q) \in Nat
         /\ \A k \in 1..Len(q) : BoxOf(q)[k] = q[k].id
<1>1. Len(q) \in Nat /\ \A k \in 1..Len(q) : q[k].id \in Ids
  <2>1. Len(q) \in Nat /\ \A k \in 1..Len(q) : q[k] \in Change
    BY ElementOfSeq
  <2>2. QED
    BY <2>1 DEF Change
<1>2. BoxOf(q) \in [1..Len(q) -> Ids]
  BY <1>1 DEF BoxOf
<1>3. BoxOf(q) \in Seq(Ids)
  BY <1>1, <1>2, SeqDef
<1>4. QED
  BY <1>1, <1>2, <1>3, LenProperties DEF BoxOf

LEMMA BoxAppend ==
  ASSUME NEW q \in Seq(Change), NEW ch \in Change
  PROVE  BoxOf(Append(q, ch)) = Append(BoxOf(q), ch.id)
<1> DEFINE s == BoxOf(Append(q, ch))
           t == Append(BoxOf(q), ch.id)
<1>1. /\ Append(q, ch) \in Seq(Change) /\ Len(Append(q, ch)) = Len(q) + 1
      /\ Append(q, ch)[Len(q) + 1] = ch
      /\ \A k \in 1..Len(q) : Append(q, ch)[k] = q[k]
  BY AppendProperties
<1>2. /\ s \in Seq(Ids) /\ Len(s) = Len(q) + 1 /\ s[Len(q) + 1] = ch.id
      /\ \A k \in 1..Len(q) : s[k] = q[k].id
  <2>1. /\ s \in Seq(Ids) /\ Len(s) = Len(Append(q, ch)) /\ Len(q) \in Nat
        /\ \A k \in 1..Len(Append(q, ch)) : s[k] = Append(q, ch)[k].id
    BY <1>1, BoxType
  <2> HIDE DEF s
  <2>2. QED
    BY <1>1, <2>1
<1>3. ch.id \in Ids
  BY DEF Change
<1>4. BoxOf(q) \in Seq(Ids) /\ Len(BoxOf(q)) = Len(q) /\ Len(q) \in Nat
      /\ \A k \in 1..Len(q) : BoxOf(q)[k] = q[k].id
  BY BoxType
<1>5. /\ t \in Seq(Ids) /\ Len(t) = Len(q) + 1 /\ t[Len(q) + 1] = ch.id
      /\ \A k \in 1..Len(q) : t[k] = q[k].id
  BY <1>3, <1>4, AppendProperties
<1> HIDE DEF s, t
<1>6. \A k \in 1..Len(s) : s[k] = t[k]
  BY <1>2, <1>4, <1>5
<1>7. s = t
  BY <1>2, <1>5, <1>6, SeqEqual
<1>8. QED
  BY <1>7 DEF s, t

LEMMA BoxDrop ==
  ASSUME NEW q \in Seq(Change), NEW n \in 0..Len(q)
  PROVE  BoxOf(DropFirst(q, n)) = SubSeq(BoxOf(q), n + 1, Len(q))
<1> DEFINE b == BoxOf(q)
           s == BoxOf(DropFirst(q, n))
           t == SubSeq(b, n + 1, Len(q))
<1>1. b \in Seq(Ids) /\ Len(b) = Len(q) /\ Len(q) \in Nat
      /\ \A k \in 1..Len(q) : b[k] = q[k].id /\ b[k] \in Ids
  <2>1. b \in Seq(Ids) /\ Len(b) = Len(q) /\ Len(q) \in Nat
        /\ \A k \in 1..Len(q) : b[k] = q[k].id
    BY BoxType
  <2> HIDE DEF b
  <2>2. QED
    BY <2>1, ElementOfSeq
<1>2. /\ DropFirst(q, n) \in Seq(Change) /\ Len(DropFirst(q, n)) = Len(q) - n
      /\ \A k \in 1..(Len(q) - n) : DropFirst(q, n)[k] = q[n + k]
  BY DropFirstProperties
<1>3. /\ s \in Seq(Ids) /\ Len(s) = Len(q) - n
      /\ \A k \in 1..(Len(q) - n) : s[k] = q[n + k].id
  BY <1>2, BoxType
<1> HIDE DEF b, s
<1>4. \A i \in (n + 1)..Len(q) : b[i] \in Ids
  BY <1>1
<1>5. /\ t \in Seq(Ids)
      /\ Len(t) = IF n + 1 <= Len(q) THEN Len(q) - (n + 1) + 1 ELSE 0
      /\ \A i \in 1..(Len(q) - (n + 1) + 1) : t[i] = b[(n + 1) + i - 1]
  BY <1>1, <1>4, SubSeqProperties
<1> HIDE DEF t
<1>6. Len(t) = Len(q) - n
  BY <1>1, <1>5
<1>7. ASSUME NEW k \in 1..(Len(q) - n) PROVE t[k] = s[k]
  <2>1. k \in 1..(Len(q) - (n + 1) + 1) /\ (n + 1) + k - 1 = n + k /\ n + k \in 1..Len(q)
    BY <1>1
  <2>2. t[k] = b[n + k]
    BY <1>5, <2>1
  <2>3. QED
    BY <1>1, <1>3, <2>1, <2>2
<1>8. s = t
  BY <1>3, <1>5, <1>6, <1>7, SeqEqual
<1>9. QED
  BY <1>8 DEF s, t, b

(* What the box holds, and how the outbox counts.                          *)
LEMMA BoxHolds ==
  ASSUME NEW q \in Seq(Change)
  PROVE  Box!InBox(BoxOf(q)) = InQueue(q)
  BY BoxType DEF Box!InBox, InQueue

LEMMA BoxCount ==
  ASSUME NEW S
  PROVE  Box!Cardinality(S) = Cardinality(S)
  BY DEF Box!Cardinality, Cardinality

-----------------------------------------------------------------------------
(* Each step of the store, as the outbox sees it *)

(* A step that leaves the queue and the sum of the counts is a stutter.    *)
LEMMA BoxQuiet ==
  ASSUME UNCHANGED <<pending, accepted, delivered, refused>>, dropped' + told' = dropped + told
  PROVE  UNCHANGED Box!vars
  BY DEF Box!vars

(* enqueue: a change no write before it had is taken.                      *)
LEMMA EnqueueTakes ==
  ASSUME TypeOK, Fresh, Ready, NEW c \in Calls, Enqueue(c)
  PROVE  Box!Next
<1> DEFINE ch == req[c].change
<1>1. ch \in Change /\ ch.id \notin accepted /\ ch.id \in Ids
  BY DEF Enqueue, Unsent, TypeOK, Request, Fresh, Taken, Change
<1>2. /\ accepted' = accepted \cup {ch.id} /\ UNCHANGED <<delivered, refused, told>>
      /\ Append1(ch) \/ Overflow(ch)
  BY DEF Enqueue
<1>3. /\ pending \in Seq(Change) /\ Len(pending) \in Nat /\ Len(BoxOf(pending)) = Len(pending)
      /\ dropped \in Nat /\ told \in Nat /\ MaxQueued \in Nat \ {0}
  BY BoxType, ConstantsAssumption DEF TypeOK
<1> HIDE DEF ch
<1>4. PICK x \in Ids : x = ch.id
  BY <1>1
<1>5. CASE Append1(ch)
  <2>1. pending' = Append(pending, ch) /\ dropped' = dropped /\ Len(pending) < MaxQueued
    BY <1>3, <1>5 DEF Append1, Full
  <2>2. BoxOf(pending') = Append(BoxOf(pending), ch.id)
    BY <1>1, <1>3, <2>1, BoxAppend
  <2>3. Box!Take(x)
    BY <1>1, <1>2, <1>3, <1>4, <2>1, <2>2 DEF Box!Take, BoxOf
  <2>4. QED
    BY <2>3 DEF Box!Next
<1>6. CASE Overflow(ch)
  <2>1. Len(pending) = MaxQueued /\ Len(pending) + 1 - MaxQueued = 1 /\ 1 \in 0..Len(pending)
    BY <1>3, <1>6 DEF Overflow, Full, Ready
  <2>2. pending' = Append(DropFirst(pending, 1), ch) /\ dropped' = dropped + 1
    <3>1. dropped' = dropped + (Len(pending) + 1 - MaxQueued)
      BY <1>6 DEF Overflow
    <3>2. QED
      BY <1>6, <2>1, <3>1 DEF Overflow
  <2>3. DropFirst(pending, 1) \in Seq(Change)
    BY <1>3, <2>1, DropFirstProperties
  <2>4. BoxOf(pending') = Append(BoxOf(DropFirst(pending, 1)), ch.id)
    BY <1>1, <2>2, <2>3, BoxAppend
  <2>5. BoxOf(DropFirst(pending, 1)) = Tail(BoxOf(pending))
    <3>1. BoxOf(DropFirst(pending, 1)) = SubSeq(BoxOf(pending), 2, Len(BoxOf(pending)))
      BY <1>3, <2>1, BoxDrop
    <3>2. BoxOf(pending) \in Seq(Ids) /\ BoxOf(pending) # <<>>
      BY <1>3, <2>1, BoxType, EmptySeq
    <3>3. QED
      BY <3>1, <3>2, TailIsSubSeq
  <2>6. Box!Take(x)
    <3>1. BoxOf(pending') = Append(Tail(BoxOf(pending)), x)
      BY <1>4, <2>4, <2>5
    <3>2. (dropped + told)' = dropped + told + 1 /\ (delivered \cup refused)' = delivered \cup refused
      BY <1>2, <1>3, <2>2
    <3>3. x \notin accepted /\ accepted' = accepted \cup {x}
      BY <1>1, <1>2, <1>4
    <3>4. Len(BoxOf(pending)) = MaxQueued
      BY <1>3, <2>1
    <3>5. QED
      BY <3>1, <3>2, <3>3, <3>4 DEF Box!Take, BoxOf
  <2>7. QED
    BY <2>6 DEF Box!Next
<1>7. QED
  BY <1>2, <1>5, <1>6

(* flush: what is sent next is no longer owed, or all that is owed ahead   *)
(* of it is settled.                                                       *)
LEMMA SendSettles ==
  ASSUME TypeOK, Counted, InOrder, NEW c \in Calls, Send(c)
  PROVE  Box!Next \/ UNCHANGED Box!vars
<1> DEFINE b  == batch[c]
           d  == done[c]
           ch == b[d + 1]
<1>1. /\ b \in Seq(Change) /\ d \in Nat /\ Len(b) \in Nat /\ d + 1 \in 1..Len(b)
      /\ Sending(c)
  BY DEF Send, Sending, TypeOK
<1>2. /\ UNCHANGED <<pending, accepted, dropped, told>>
      /\ \/ Settled' = Settled \cup {ch.id}
         \/ UNCHANGED <<delivered, refused>>
  BY DEF Send, Settled
<1>3. CASE UNCHANGED <<delivered, refused>>
  BY <1>2, <1>3, BoxQuiet
<1>4. CASE Settled' = Settled \cup {ch.id}
  <2>1. ch.id \in accepted /\ ch.id \in Ids
    BY <1>1 DEF InOrder, InQueue, TypeOK
  <2>2. \A k \in 1..d : b[k].id \in Settled
    BY <1>1 DEF Counted, InFlight
  <2>3. InStep(pending, b)
    BY <1>1 DEF InOrder
  <2>4. /\ Len(BoxOf(pending)) = Len(pending) /\ Len(pending) \in Nat
        /\ \A k \in 1..Len(pending) : BoxOf(pending)[k] = pending[k].id
    BY BoxType DEF TypeOK
  <2> HIDE DEF b, d, ch
  <2>5. ASSUME NEW m \in 1..Len(pending), pending[m].id = ch.id, NEW j \in 1..(m - 1)
        PROVE  pending[j].id \in Settled
    <3>1. \E i \in 1..((d + 1) - 1) : pending[j].id = b[i].id
      BY <1>1, <2>3, <2>5 DEF InStep, ch
    <3>2. QED
      BY <1>1, <2>2, <3>1
  <2>6. \/ ch.id \notin Box!InBox(BoxOf(pending))
        \/ \E m \in 1..Len(BoxOf(pending)) :
              BoxOf(pending)[m] = ch.id /\ \A j \in 1..(m - 1) : BoxOf(pending)[j] \in Settled
    <3>1. CASE \E m \in 1..Len(pending) : pending[m].id = ch.id
      <4>1. PICK m \in 1..Len(pending) : pending[m].id = ch.id
        BY <3>1
      <4>2. \A j \in 1..(m - 1) : j \in 1..Len(pending) /\ pending[j].id \in Settled
        BY <2>4, <2>5, <4>1
      <4>3. QED
        BY <2>4, <4>1, <4>2
    <3>2. CASE ~\E m \in 1..Len(pending) : pending[m].id = ch.id
      <4>1. ch.id \notin InQueue(pending)
        BY <3>2 DEF InQueue
      <4>2. QED
        BY <4>1, BoxHolds DEF TypeOK
    <3>3. QED
      BY <3>1, <3>2
  <2>7. Box!Settle(ch.id)
    BY <1>2, <1>4, <2>1, <2>6 DEF Box!Settle, BoxOf, Settled
  <2>8. QED
    BY <2>1, <2>7 DEF Box!Next
<1>5. QED
  BY <1>2, <1>3, <1>4

(* queue.sent: what leaves the queue is settled, or counted.               *)
LEMMA SettleReleases ==
  ASSUME TypeOK, EveryLossIsAdmitted', NEW c \in Calls, Settle(c)
  PROVE  Box!Next \/ UNCHANGED Box!vars
<1> DEFINE n == MinOf(done[c], Len(pending))
<1>1. n \in 0..Len(pending) /\ pending \in Seq(Change) /\ Len(pending) \in Nat
  BY DEF MinOf, TypeOK
<1>2. /\ pending' = DropFirst(pending, n)
      /\ UNCHANGED <<accepted, delivered, refused, dropped, told>>
  BY DEF Settle, history
<1> HIDE DEF n
<1>3. PICK m \in 0..Len(pending) : m = n
  BY <1>1
<1>4. CASE n = 0
  <2>1. DropFirst(pending, 0) = pending
    BY <1>1, DropFirstProperties, SeqEqual
  <2>2. QED
    BY <1>2, <1>4, <2>1, BoxQuiet
<1>5. CASE n # 0
  <2>1. Len(BoxOf(pending)) = Len(pending)
    BY <1>1, BoxType
  <2>2. BoxOf(pending') = SubSeq(BoxOf(pending), n + 1, Len(BoxOf(pending)))
    BY <1>1, <1>2, <2>1, BoxDrop
  <2>3. pending' \in Seq(Change)
    BY <1>1, <1>2, DropFirstProperties
  <2>4. Box!Cardinality(accepted \ ((delivered \cup refused) \cup Box!InBox(BoxOf(pending'))))
          <= dropped + told
    <3>1. Box!InBox(BoxOf(pending')) = InQueue(pending')
      BY <2>3, BoxHolds
    <3>2. accepted \ ((delivered \cup refused) \cup InQueue(pending')) = Lost'
      BY <1>2 DEF Lost, InQueue
    <3>3. QED
      BY <1>2, <3>1, <3>2, BoxCount DEF EveryLossIsAdmitted
  <2>5. Box!Release(m)
    BY <1>2, <1>3, <2>2, <2>4 DEF Box!Release, BoxOf
  <2>6. m \in 1..Len(BoxOf(pending))
    BY <1>1, <1>5, <1>3, <2>1
  <2>7. QED
    BY <2>5, <2>6 DEF Box!Next, BoxOf
<1>6. QED
  BY <1>4, <1>5

LEMMA BoxStep ==
  ASSUME Writable, TypeOK, Fresh, LossInv, InOrder, EveryLossIsAdmitted',
         NEW c \in Calls, Step(c)
  PROVE  Box!Next \/ UNCHANGED Box!vars
<1>1. CASE Enqueue(c)
  BY <1>1, EnqueueTakes DEF LossInv
<1>2. CASE Send(c)
  BY <1>2, SendSettles DEF LossInv
<1>3. CASE Settle(c)
  BY <1>3, SettleReleases
<1>4. CASE SyncEnd(c)
  <2>1. req[c].op = "sync" /\ req[c].report = dropped
    BY <1>4 DEF SyncEnd, LossInv, Ready, SyncAlone
  <2>2. dropped' + told' = dropped + told
    BY <1>4, <2>1 DEF SyncEnd, TypeOK
  <2>3. UNCHANGED <<pending, accepted, delivered, refused>>
    BY <1>4 DEF SyncEnd
  <2>4. QED
    BY <2>2, <2>3, BoxQuiet
<1>5. CASE UNCHANGED <<pending, accepted, delivered, refused, dropped, told>>
  BY <1>5, BoxQuiet
<1>6. ~EnqueueTorn(c) /\ ~EnqueueUnclosed(c) /\ ~EnqueueUnwritten(c)
  BY DEF Writable, EnqueueTorn, EnqueueUnclosed, EnqueueUnwritten
<1>7. QED
  BY <1>1, <1>2, <1>3, <1>4, <1>5, <1>6
  DEF Step, Answered, AnsweredCancelled, Drain, Clone, SendsOver, Unflag, FinishRead,
      FinishPlain, SyncState, SyncRead, FinishSyncRead, memory, history

LEMMA BoxNext ==
  ASSUME Writable, TypeOK, Fresh, LossInv, InOrder, EveryLossIsAdmitted', [Next]_vars
  PROVE  [Box!Next]_(Box!vars)
<1>1. ASSUME NEW c \in Calls, Step(c) PROVE Box!Next \/ UNCHANGED Box!vars
  BY <1>1, BoxStep
<1>2. ASSUME UNCHANGED <<pending, accepted, delivered, refused, dropped, told>>
      PROVE  UNCHANGED Box!vars
  BY <1>2, BoxQuiet
<1>3. ASSUME NEW c \in Calls, Start(c)
      PROVE  UNCHANGED <<pending, accepted, delivered, refused, dropped, told>>
  BY <1>3 DEF Start, Write, Read, Other, StartSync, memory, history
<1>4. ASSUME Restart \/ Outage \/ UNCHANGED vars
      PROVE  UNCHANGED <<pending, accepted, delivered, refused, dropped, told>>
  BY <1>4 DEF Restart, Outage, vars, memory, history, LossInv, Ready, Mirrored
<1>5. QED
  BY <1>1, <1>2, <1>3, <1>4 DEF Next

LEMMA BoxInit == Init => Box!Init
<1> SUFFICES ASSUME Init PROVE Box!Init
  OBVIOUS
<1>1. pending = <<>> /\ accepted = {} /\ delivered \cup refused = {} /\ dropped + told = 0
  BY DEF Init
<1>2. BoxOf(<<>>) = <<>>
  <2>1. BoxOf(<<>>) \in Seq(Ids) /\ Len(BoxOf(<<>>)) = 0
    BY EmptySeq, BoxType
  <2>2. QED
    BY <2>1, EmptySeq
<1>3. QED
  BY <1>1, <1>2 DEF Box!Init, BoxOf

(* Every step of the store, whatever calls overlap, sends fail, changes    *)
(* are pushed out and restarts come between, is a step of the outbox:      *)
(* changes reach the server in the order the store owes them, and none     *)
(* leaves the queue unsettled and uncounted (flush, queue.add, queue.sent, *)
(* enqueue, Sync), as long as the files are written when the code writes   *)
(* them.                                                                   *)
THEOREM QueueIsAnOutbox == Writable => (Spec => ImplementsOutbox)
<1> SUFFICES ASSUME Writable PROVE Spec => ImplementsOutbox
  OBVIOUS
<1>1. Init => Box!Init /\ Fresh /\ LossInv /\ InOrder
  <2>1. Init => Fresh
    BY DEF Init, Fresh, Taken, Nothing
  <2>2. Init => InOrder
    BY EmptySeq DEF Init, InOrder, InQueue, Distinct, Sending
  <2>3. QED
    BY <2>1, <2>2, BoxInit, LossInit
<1>2. TypeOK /\ OneFlusher /\ Fresh /\ LossInv /\ InOrder /\ [Next]_vars
        => Fresh' /\ LossInv' /\ InOrder'
  BY FreshNext, LossNext, OrderNext DEF LossInv
<1>3. /\ TypeOK /\ Fresh /\ LossInv /\ InOrder /\ EveryLossIsAdmitted' /\ [Next]_vars
      => [Box!Next]_(Box!vars)
  BY BoxNext
<1>4. QED
  BY <1>1, <1>2, <1>3, TypeCorrect, FlushIsExclusive, LossesAreAdmitted, PTL
  DEF Spec, ImplementsOutbox, Box!Spec

=============================================================================
