----------------------------- MODULE MCSession -----------------------------
(* Two servers, two names, two terminals.                                  *)
EXTENDS Session, TLC

AllSymmetry == Permutations(Procs) \cup Permutations(Servers) \cup Permutations(Names)

=============================================================================
