---------------------------- MODULE MCReaderMarks ---------------------------
(* What is shown about posts, on small instances.                          *)
EXTENDS ReaderMarks, TLC

PostSymmetry == Permutations(Posts)

(* No full text is stored at first, and what is read is what is saved.     *)
MCInit == Init /\ stored.text = {} /\ stored.save = stored.read
MCSpec == MCInit /\ [][Next]_vars

=============================================================================
