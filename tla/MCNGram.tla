------------------------------- MODULE MCNGram -------------------------------
(* Model values for NGram: runes a, b, c and the digit 1; tokens of one or *)
(* two runes, so that a span's word can equal a single token ("ab" from   *)
(* a+b and from ab); "c" is a stop word; "1" is all symbols.               *)
EXTENDS NGram, TLC

MCStopWords == {<<"c">>}
MCSymbols == {"1"}

A == <<"a">>
B == <<"b">>
AB == <<"a", "b">>
C == <<"c">>
One == <<"1">>

\* Scanning "abab" commits ab twice (the rewind restarts at the second a).
MCScanTexts == { <<"a", "b", "a", "b">>, <<"a", "c", "b">> }

\* The builders are interchangeable: none is special in Init or Next.
MCSymmetry == Permutations(Builders)

MCDocuments ==
  { [title |-> <<A, B>>, content |-> <<A, B, AB>>],
    [title |-> <<AB>>, content |-> <<One, A, C, B, AB>>] }

=============================================================================
