------------------------- MODULE MCSyntaxHighlight -------------------------
(***************************************************************************)
(* Three kinds of languages: the comments and quotes of C, a language with  *)
(* line comments only, and SQL with one quote and keywords in any case.     *)
(* The only keyword is "i", which the letter "I" is in SQL only.            *)
(***************************************************************************)
EXTENDS SyntaxHighlight

CLike == [keywords |-> {<<"i">>}, lineComment |-> <<"slash", "slash">>,
          blockComment |-> <<<<"slash", "star">>, <<"star", "slash">>>>,
          stringChars |-> {"quote", "apostrophe"}, caseInsensitive |-> FALSE]
HashLike == [keywords |-> {<<"i">>}, lineComment |-> <<"star">>,
             blockComment |-> None,
             stringChars |-> {"quote", "apostrophe"}, caseInsensitive |-> FALSE]
SqlLike == [keywords |-> {<<"i">>}, lineComment |-> <<"dash", "dash">>,
            blockComment |-> <<<<"slash", "star">>, <<"star", "slash">>>>,
            stringChars |-> {"apostrophe"}, caseInsensitive |-> TRUE]

AllLanguages == {CLike, HashLike, SqlLike}
AllLetters   == {"i", "I", "x"}
OneDigit     == {"1"}
ToLower      == [c \in {"i", "I", "x", "1"} |-> IF c = "I" THEN "i" ELSE c]

\* Every sign that the comments, strings and numbers of C and of HashLike are
\* made of, one letter and one digit.
AllSigns == {"I", "1", "dot", "slash", "star", "quote", "apostrophe",
             "backslash", "newline"}
OneWord  == {<<"x">>}
=============================================================================
