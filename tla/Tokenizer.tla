----------------------------- MODULE Tokenizer -----------------------------
(***************************************************************************)
(* Abstract specification of what the window scanner of nlp/tfidf and     *)
(* nlp/ngram promises its callers (AddSample, Match, NGram.Scan): it       *)
(* reports matches from left to right; every match is a lexicon key that *)
(* occurs in the text at the reported rune offset; it is the longest key  *)
(* that occurs at that offset; a match starts at or after the end of the  *)
(* previous one, so matches never overlap; and the scan ends.             *)
(*                                                                         *)
(* It does NOT promise that every key occurrence outside a reported match *)
(* is reported: the dead-window skip of scanner.go:79 can jump over a key *)
(* that starts inside the window, so the code does not satisfy that       *)
(* stronger, greedy reading, and it is not stated.                        *)
(***************************************************************************)
EXTENDS Naturals, Sequences, SequencesExt

CONSTANTS
  Alphabet,   \* the runes texts are made of
  MaxLen,     \* the longest text considered
  Lexicons    \* the lexicons (sets of non-empty rune sequences) considered

VARIABLES
  text,       \* the document being scanned
  keys,       \* the lexicon it is scanned against
  emitted,    \* the matches reported so far, as [pos, word] records
  finished    \* the scan has returned

avars == <<text, keys, emitted, finished>>

Texts == UNION {[1..n -> Alphabet] : n \in 1..MaxLen}

\* The key w occurs in t starting at rune offset p (0-based).
Occurs(t, p, w) == p + Len(w) <= Len(t) /\ SubSeq(t, p + 1, p + Len(w)) = w

\* w is the longest key of ks occurring in t at offset p.
LongestAt(t, ks, p, w) ==
  /\ w \in ks
  /\ Occurs(t, p, w)
  /\ \A k \in ks : Occurs(t, p, k) => Len(k) <= Len(w)

\* The rune offset just after the last reported match.
EndOf(ms) == IF ms = <<>> THEN 0 ELSE Last(ms).pos + Len(Last(ms).word)

\* The matches that may be reported next.
Admissible ==
  { m \in [pos : EndOf(emitted)..(Len(text) - 1), word : keys] :
      LongestAt(text, keys, m.pos, m.word) }

Init ==
  /\ text \in Texts
  /\ keys \in Lexicons
  /\ emitted = <<>>
  /\ finished = FALSE

Report ==
  /\ ~finished
  /\ \E m \in Admissible : emitted' = Append(emitted, m)
  /\ UNCHANGED <<text, keys, finished>>

\* Returning may report one last match in the same step.
Finish ==
  /\ ~finished
  /\ finished' = TRUE
  /\ \/ emitted' = emitted
     \/ \E m \in Admissible : emitted' = Append(emitted, m)
  /\ UNCHANGED <<text, keys>>

Next == Report \/ Finish

Spec == Init /\ [][Next]_avars /\ WF_avars(Finish)

=============================================================================
