--------------------------- MODULE WindowScanner ---------------------------
(***************************************************************************)
(* The greedy window scanner: Scanner.Scan in src/nlp/tfidf/scanner.go   *)
(* and its copy NGram.Scan in src/nlp/ngram/scanner.go, which skips      *)
(* blocked entries (stop words) as matches but not as prefixes.  Both     *)
(* collect the matches in a result (Scanner.add, ScanResult.add): a total *)
(* and a count per distinct word.  ScanResult keeps the trie's own *Meta *)
(* and counts in its Freq, so for NGram.Scan `cnt` is the lexicon's Freq. *)
(*                                                                         *)
(* One step of this state machine is one pass of the body of the         *)
(* `for left < L` loop, ScanLoop!Iterate, over one text and one lexicon. *)
(* The Matcher and NGram modules run the same loop body to completion    *)
(* (ScanLoop!ScanMatches) inside the action that calls Scan.             *)
(***************************************************************************)
EXTENDS ScanLoop, FiniteSets

CONSTANTS
  Alphabet,   \* the runes texts are made of
  MaxLen,     \* the longest text considered
  Lexicons,   \* the lexicons considered
  CorpusFreq  \* the Freq an NGram lexicon entry holds before Scan

VARIABLES
  text, keys,     \* the arguments of Scan
  left, right,    \* the window [left, right) over runes
  meta,           \* the pending (longest so far) match, or NoMatch
  out,            \* the matches committed by ts.add, in order
  done,           \* the loop left through `break` (right > L)
  kind,           \* "tfidf" (Scanner.Scan) or "ngram" (NGram.Scan)
  blocked,        \* the lexicon's blocked entries (none in tfidf)
  seen,           \* the words of the result map (ts.words, sr.data)
  cnt,            \* cnt[w]: Word.Count (tfidf) or the trie Meta's Freq (ngram)
  total           \* ts.count / sr.freq

vars == <<text, keys, left, right, meta, out, done, kind, blocked, seen, cnt, total>>

\* Non-empty texts: on an empty one the loop body never runs.
Texts == UNION {[1..n -> Alphabet] : n \in 1..MaxLen}

-----------------------------------------------------------------------------
(* The loop as a state machine over one Scan call.                         *)

St == [left |-> left, right |-> right, meta |-> meta, out |-> out, done |-> done]

\* NewScanner() / `sr := &ScanResult{...}` over a trie whose entries hold
\* their corpus Freq, some of them blocked in ngram.  (NGram.Scan returns
\* at once on an empty text; Texts has none.)
Init ==
  /\ text \in Texts
  /\ keys \in Lexicons
  /\ left = 0 /\ right = 0 /\ meta = NoMatch /\ out = <<>> /\ done = FALSE
  /\ kind \in {"tfidf", "ngram"}
  /\ blocked \in IF kind = "ngram" THEN SUBSET keys ELSE {{}}
  /\ seen = {}
  /\ cnt = [w \in keys |-> IF kind = "ngram" THEN CorpusFreq ELSE 0]
  /\ total = 0

\* Mutant: the `!v.blocked` test dropped.
UnblockedIgnored == keys

\* The keys NGram.Scan takes as a match: g.find(str) succeeds and
\* `!v.blocked`.
Unblocked == keys \ blocked

\* Mutant: the first occurrence counts on from the Meta's Freq
\* (`meta.Freq++` for `meta.Freq = 1`).
AddKeepFreq(w) ==
  /\ total' = total + 1
  /\ IF w \in seen THEN cnt' = [cnt EXCEPT ![w] = @ + 1] /\ UNCHANGED seen
     ELSE seen' = seen \cup {w} /\ cnt' = [cnt EXCEPT ![w] = @ + 1]

\* ScanResult.add(meta) (and Scanner.add): count the occurrence; a repeat
\* increments the word's counter, a first occurrence sets it to 1 (in
\* ngram, `meta.Freq = 1` on the trie's Meta) and enters the map.
Add(w) ==
  /\ total' = total + 1
  /\ IF w \in seen THEN cnt' = [cnt EXCEPT ![w] = @ + 1] /\ UNCHANGED seen
     ELSE seen' = seen \cup {w} /\ cnt' = [cnt EXCEPT ![w] = 1]

\* One pass of the loop body with the given match candidates; a commit
\* calls add.
StepWith(cands) ==
  /\ Scanning(text, St)
  /\ LET n == Iterate(text, keys, cands, St)
     IN /\ left' = n.left /\ right' = n.right /\ meta' = n.meta
        /\ out' = n.out /\ done' = n.done
        /\ IF Len(n.out) > Len(out) THEN Add(Last(n.out).word)
           ELSE UNCHANGED <<seen, cnt, total>>
  /\ UNCHANGED <<text, keys, kind, blocked>>

\* Scanner.Scan: every key found is a candidate.
Step == kind = "tfidf" /\ StepWith(keys)

\* NGram.Scan: a blocked key extends the window but never becomes `meta`.
NGramStep == kind = "ngram" /\ StepWith(Unblocked)

Next == Step \/ NGramStep

\* A single-threaded loop: it keeps running while its condition holds.
Spec == Init /\ [][Next]_vars /\ WF_vars(Next)

Finished == ~Scanning(text, St)

-----------------------------------------------------------------------------
(* Properties.                                                             *)

\* The loop's variables keep their types, and a blocked entry of the
\* NGram lexicon is never the pending match nor a committed one.
TypeOK ==
  /\ text \in Texts
  /\ left \in 0..MaxLen /\ right \in 0..(MaxLen + 1)
  /\ meta \in {NoMatch} \cup [pos : 0..MaxLen, word : keys \ blocked]
  /\ out \in Seq([pos : 0..MaxLen, word : keys \ blocked])
  /\ done \in BOOLEAN
  /\ blocked \subseteq keys /\ seen \subseteq keys
  /\ cnt \in [keys -> Nat] /\ total \in Nat

\* Scan implements the Tokenizer promise: the matches committed by ts.add
\* are ordered, non-overlapping, each the longest key at its offset, and
\* the loop `for left < L` ends.  NGram.Scan implements it for the
\* lexicon of its unblocked keys, though blocked keys still extend the
\* window.
Abs == INSTANCE Tokenizer WITH emitted <- out, finished <- Finished,
                               keys <- Unblocked,
                               Lexicons <- UNION {{l \ b : b \in SUBSET l} : l \in Lexicons}
RefinesTokenizer == Abs!Spec

\* The result counts what was committed, however the window rewound:
\* GetCount / GetTotalFrequency is the number of matches, the map holds
\* exactly the matched words, and each word's counter is its number of
\* matches.  For NGram.Scan the counter is the lexicon's Meta.Freq: the
\* scan replaces the corpus Freq of every word it matches by the word's
\* count in this text (entries not matched keep CorpusFreq).
ScanResultCounts ==
  /\ total = Len(out)
  /\ seen = {out[i].word : i \in DOMAIN out}
  /\ \A w \in seen : cnt[w] = Cardinality({i \in DOMAIN out : out[i].word = w})
  /\ \A w \in keys \ seen : kind = "ngram" => cnt[w] = CorpusFreq

=============================================================================
