---------------------------- MODULE OfflineOutbox ----------------------------
(***************************************************************************)
(* The offline store implements the outbox: the box is the queue in        *)
(* memory, and the losses admitted are those counted in the snapshot and   *)
(* those a sync has already reported.                                      *)
(***************************************************************************)
EXTENDS OfflineStore

Box == INSTANCE Outbox WITH
    Id       <- Ids,
    Cap      <- MaxQueued,
    box      <- [k \in 1..Len(pending) |-> pending[k].id],
    taken    <- accepted,
    settled  <- delivered \cup refused,
    admitted <- dropped + told

(* Every step of the store, with its overlapping calls, its failed sends,  *)
(* its overflows and its restarts, is a step of the outbox or leaves it as *)
(* it was: changes reach the server in the order the store owes them, and *)
(* none leaves the queue unsettled and uncounted (flush, queue.add,        *)
(* queue.sent, enqueue, Sync).                                             *)
ImplementsOutbox == Box!Spec

=============================================================================
