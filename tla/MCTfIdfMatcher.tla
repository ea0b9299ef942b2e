-------------------------- MODULE MCTfIdfMatcher ---------------------------
(* Two matchers sharing one dictionary path.  The vocabulary holds a word  *)
(* that is a prefix of another ("ab"/"abc") and a single rune; the samples *)
(* repeat a word ("abab"), put a shorter word after a longer one ("abcb") *)
(* and match nothing ("c").                                                *)
(* A builder's dump holds a phrase outside the vocabulary ("bc"), which  *)
(* the samples also contain.                                             *)
EXTENDS TfIdfMatcher

MCNGramDicts == {[docs |-> 1, rows |-> (<<"b", "c">> :> 1)]}

MCVocabulary == {<<"a", "b">>, <<"a", "b", "c">>, <<"b">>}
MCSamples == {<<"a", "b", "a", "b">>, <<"a", "b", "c", "b">>, <<"c">>}
=============================================================================
