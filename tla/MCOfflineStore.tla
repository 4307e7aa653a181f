--------------------------- MODULE MCOfflineStore ---------------------------
(* The offline store on small instances: what the runs share.              *)
EXTENDS OfflineOutbox, TLC

CONSTANTS c1, c2, star, folder, account

(* One item, fetched by one read. *)
OneView == <<{star}>>

=============================================================================
