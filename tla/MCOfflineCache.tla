--------------------------- MODULE MCOfflineCache ---------------------------
(* Two feeds, three posts, two of one time; lists of every shape the       *)
(* clients ask for, names and words that are patterns to the server.       *)
EXTENDS OfflineCache

FeedOfPosts  == <<1, 1, 2>>
TimeOfPosts  == <<1, 2, 2>>
NameOfFeeds  == <<<<"a", "b">>, <<"b", "_">>>>
TextsOfPosts == <<{<<"a">>}, {<<"b">>, <<"_">>}, {<<"a", "b">>}>>
InCollation  == <<1, 2>>
InLowerCase  == <<1, 2>>

Shapes == [feed : {0, 1}, name : {<<>>, <<"_">>, <<"b">>}, word : {<<>>},
          read : {"all", "unread", "read"}, since : {0, 2},
          dir : {"asc", "desc"}, perFeed : {0, 1}, limit : {2},
          offset : {0, 1}]

OnePage == {[Everything EXCEPT !.limit = 1]}

AskedQueries ==
    {q \in Shapes :
        /\ q.name # <<>> => /\ q.feed = 0 /\ q.read = "all"
                            /\ q.since = 0 /\ q.offset = 0
        /\ q.since # 0   => q.feed = 0 /\ q.read = "all"
        /\ q.perFeed > 0 => /\ q.feed = 0 /\ q.dir = "desc"
                            /\ q.since = 0 /\ q.read # "read"
        /\ q.offset # 0  => q.read # "read"}
    \cup {[Everything EXCEPT !.word = word] :
             word \in {<<"a">>, <<Underscore>>, <<Backslash, "b">>}}

=============================================================================
