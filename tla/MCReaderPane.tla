---------------------------- MODULE MCReaderPane ----------------------------
(* The feed pane on small instances.                                       *)
EXTENDS ReaderPane

(* The first two feeds have the same name.                                 *)
MCNameOf == [f \in Feeds |-> IF f = 1 THEN 2 ELSE f]

(* In the catalog the second is in another category than the others.      *)
MCCategoryOf == [f \in Feeds |-> 1 + (f % 2)]

(* The reader was left with its folders closed, but for the last one, and  *)
(* at most two feeds are followed.                                         *)
MCInit == Init /\ expanded = {Root} /\ Cardinality(DOMAIN follows) <= 2
MCSpec == MCInit /\ [][Next]_vars

=============================================================================
