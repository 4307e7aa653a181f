---------------------------- MODULE MCReaderList ----------------------------
(* The list of posts on small instances: what the runs share.              *)
EXTENDS ReaderList

(* The reader was left showing the unread posts, of every feed or of one   *)
(* the user no longer follows.                                             *)
MCInit ==
    /\ Init
    /\ view.read = "unread" /\ view.order = "desc"
    /\ follows = IF view.feed = AnyFeed THEN Feeds ELSE {}

MCSpec == MCInit /\ [][Next]_vars /\ WF_vars(Answer)

=============================================================================
