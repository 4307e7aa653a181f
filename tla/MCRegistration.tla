--------------------------- MODULE MCRegistration ---------------------------
(* Registration on small instances: what the runs share.                   *)
EXTENDS Registration, TLC

AllSymmetry == Permutations(Requests) \cup Permutations(Invites)
               \cup Permutations(Names)

=============================================================================
