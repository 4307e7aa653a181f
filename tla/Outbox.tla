------------------------------- MODULE Outbox -------------------------------
(***************************************************************************)
(* What the offline store promises about the changes it takes while the    *)
(* server is away, with nothing said of calls, clones, files or snapshots. *)
(* The box holds the changes owed.  They go to the server oldest first, a  *)
(* change may go more than once, one may be pushed out of a full box, and  *)
(* whatever leaves the box unsettled is in the number the user is told.    *)
(***************************************************************************)
EXTENDS Integers, Sequences, FiniteSets

CONSTANTS
    Id,     \* the changes
    Cap     \* how many the box holds

VARIABLES
    box,        \* the changes owed, in the order they were taken
    taken,      \* every change ever taken
    settled,    \* those the server has, or said it will never have
    admitted    \* losses counted so far

vars == <<box, taken, settled, admitted>>

InBox(b) == {b[k] : k \in 1..Len(b)}

Init ==
    /\ box = <<>>
    /\ taken = {}
    /\ settled = {}
    /\ admitted = 0

Take(x) ==
    /\ x \notin taken
    /\ taken' = taken \cup {x}
    /\ \/ /\ Len(box) < Cap
          /\ box' = Append(box, x)
          /\ UNCHANGED admitted
       \/ /\ Len(box) = Cap
          /\ box' = Append(Tail(box), x)
          /\ admitted' = admitted + 1
    /\ UNCHANGED settled

(* x reaches the server: nothing that is owed and older is still waiting.  *)
Settle(x) ==
    /\ x \in taken
    /\ \/ x \notin InBox(box)
       \/ \E k \in 1..Len(box) : box[k] = x /\ \A j \in 1..(k - 1) : box[j] \in settled
    /\ settled' = settled \cup {x}
    /\ UNCHANGED <<box, taken, admitted>>

(* The oldest leave the box, settled ones or ones the count already covers. *)
Release(n) ==
    /\ box' = SubSeq(box, n + 1, Len(box))
    /\ Cardinality(taken \ (settled \cup InBox(box'))) <= admitted
    /\ UNCHANGED <<taken, settled, admitted>>

Next ==
    \/ \E x \in Id : Take(x) \/ Settle(x)
    \/ \E n \in 1..Len(box) : Release(n)

Spec == Init /\ [][Next]_vars

=============================================================================
