-------------------------- MODULE MCWindowScanner --------------------------
(* Model-checking instance of WindowScanner: three runes and lexicons that *)
(* exercise a longer key overriding a shorter one ("ab"/"abc", the spec's   *)
(* own example), a key that is only a prefix of the text ("abca" vs "abcb") *)
(* and single-rune keys inside longer ones.  Both scanners run on each;   *)
(* NGram.Scan with every subset of the keys blocked.                       *)
EXTENDS WindowScanner

MCAlphabet == {"a", "b", "c"}

MCLexicons ==
  { {<<"a", "b">>, <<"a", "b", "c">>},
    {<<"a", "b">>, <<"a", "b", "c", "a">>, <<"c">>},
    {<<"a">>, <<"b", "a">>, <<"a", "a", "b">>} }
=============================================================================
