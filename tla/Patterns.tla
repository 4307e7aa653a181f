------------------------------ MODULE Patterns ------------------------------
(***************************************************************************)
(* What a name or a word asked for finds.  The database matches it with    *)
(* ILIKE '%' || word || '%', where _ % and \ are no letters of their own   *)
(* (internal/database/posts.sql.go); the snapshot with strings.Contains    *)
(* (internal/store/offline/filter.go).  A text is a sequence of letters;   *)
(* the upper and the lower case of one are one letter, on both sides.      *)
(***************************************************************************)
EXTENDS Integers, Sequences

Text == Seq(STRING)

Percent    == "%"
Underscore == "_"
Backslash  == "\\"

NoEscape(word) == \A i \in DOMAIN word : word[i] # Backslash
Plain(word)    ==
    \A i \in DOMAIN word : word[i] \notin {Percent, Underscore, Backslash}

(* strings.Contains *)
Holds(text, word) ==
    \E k \in 0..(Len(text) - Len(word)) :
        \A i \in DOMAIN word : text[k + i] = word[i]

(* A letter of a pattern stands for itself after an odd number of          *)
(* backslashes.                                                            *)
Escaped(pattern, i) ==
    \E k \in 0..(i - 1) :
        /\ (i - 1 - k) % 2 = 1
        /\ \A j \in (k + 1)..(i - 1) : pattern[j] = Backslash
        /\ k > 0 => pattern[k] # Backslash

(* at[i] letters of the text are matched by the first i of the pattern. *)
Matched(text, at, letter, i) ==
    CASE letter = Percent    -> at[i] >= at[i - 1]
      [] letter = Underscore -> at[i] = at[i - 1] + 1
      [] letter = Backslash  -> at[i] = at[i - 1]
      [] OTHER -> at[i] = at[i - 1] + 1 /\ text[at[i]] = letter

Like(text, pattern) ==
    \E at \in [0..Len(pattern) -> 0..Len(text)] :
        /\ at[0] = 0
        /\ at[Len(pattern)] = Len(text)
        /\ \A i \in DOMAIN pattern :
              Matched(text, at, IF Escaped(pattern, i) THEN "" ELSE pattern[i], i)

ILike(text, word) == Like(text, <<Percent>> \o word \o <<Percent>>)

=============================================================================
