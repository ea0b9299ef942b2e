-------------------------------- MODULE NGram --------------------------------
(***************************************************************************)
(* The N-Gram dictionary builder of src/nlp/ngram: New (stop words),       *)
(* Sample (match + merge), LoadDict (ReadDict's stream merged into the    *)
(* trie), Dump (prefix-redundancy pruning and the threshold policy) and  *)
(* Scan, whose ScanResult writes through the trie's own Meta pointers.   *)
(*                                                                         *)
(* The segmenter (jieba) is outside the model: a document is given as the *)
(* token sequences Cut returns for its title and its content, each token  *)
(* a rune sequence; a word is the concatenation of its tokens.  Only the  *)
(* length of Meta.Token is ever used (merge, Dump, the threshold), so an  *)
(* entry keeps that length.  Several builders share the dictionary paths, *)
(* so that one worker's dump can be loaded into another (spec section 5). *)
(***************************************************************************)
EXTENDS Naturals, Sequences, SequencesExt, Functions, ScanLoop

CONSTANTS
  Builders,    \* the NGram instances
  StopWords,   \* the words of the stop-word file (rune sequences)
  N,           \* the n of New(n, ...): the longest span, in tokens
  Threshold,   \* NGram.threshold; nothing in the package ever sets it
  Symbols,     \* the runes of the onlySymbolNumerals character class
  Documents,   \* [title, content] token sequences Sample may be given
  ScanTexts,   \* the texts (non-empty rune sequences) Scan may be given
  Paths,       \* the dictionary file paths
  NoFile,      \* model value: nothing dumped at a path yet
  MaxDocs      \* bound on a builder's corpus document counter

ASSUME N \in 2..4

VARIABLES
  lex,     \* lex[b]: the trie of b, word -> [freq, docs, tok, blocked]
  docs,    \* docs[b]: NGram.docs, the corpus document count
  freq,    \* freq[b]: NGram.freq, the running corpus frequency total
  files    \* files[p]: the dictionary dumped at path p, or NoFile

vars == <<lex, docs, freq, files>>

Entry(f, d, t, blk) == [freq |-> f, docs |-> d, tok |-> t, blocked |-> blk]

\* onlySymbolNumerals.MatchString(s): one or more runes, all of the class.
SymbolsOnly(s) == Len(s) > 0 /\ \A i \in 1..Len(s) : s[i] \in Symbols

\* g.find(w) succeeds on an entry marked blocked.
IsBlocked(b, w) == w \in DOMAIN lex[b] /\ lex[b][w].blocked

\* The word of the span of k tokens starting at token i (s += w).
SpanWord(t, i, k) == FlattenSeq(SubSeq(t, i, i + k - 1))

SumFreq(in) == MapThenSumSet(LAMBDA w : in[w].freq, DOMAIN in)

\* Mutant: the window bound `j := i + g.n` one token too wide.
ValidSpansWide(b, t) ==
  { x \in [i : 1..Len(t), k : 1..(N + 1)] :
      /\ x.i + x.k - 1 <= Len(t)
      /\ \A q \in x.i..(x.i + x.k - 1) : ~IsBlocked(b, t[q])
      /\ ~SymbolsOnly(SpanWord(t, x.i, x.k)) }

\* Mutant: the symbol check made on s before the token is appended.
ValidSpansCheckBeforeAppend(b, t) ==
  { x \in [i : 1..Len(t), k : 1..N] :
      /\ x.i + x.k - 1 <= Len(t)
      /\ \A q \in x.i..(x.i + x.k - 1) : ~IsBlocked(b, t[q])
      /\ ~SymbolsOnly(SpanWord(t, x.i, x.k - 1)) }

\* The loops of match(text): from every start i a window of up to n tokens
\* (cut at the end of the text), grown one token at a time and broken at
\* the first blocked token; the span of k tokens is recorded unless its
\* word, s after `s += w`, is all symbols/digits.
ValidSpans(b, t) ==
  { x \in [i : 1..Len(t), k : 1..N] :
      /\ x.i + x.k - 1 <= Len(t)
      /\ \A q \in x.i..(x.i + x.k - 1) : ~IsBlocked(b, t[q])
      /\ ~SymbolsOnly(SpanWord(t, x.i, x.k)) }

\* The map tf that match returns: per span word, the number of recorded
\* spans (Freq) and the token count kept, the longer one on each repeat
\* (`if len(meta.Token) < len(token)`).
MatchSpans(b, t) ==
  LET sp == ValidSpans(b, t)
      at(s) == {x \in sp : SpanWord(t, x.i, x.k) = s}
  IN [s \in {SpanWord(t, x.i, x.k) : x \in sp} |->
        [freq |-> Cardinality(at(s)), tok |-> Max({x.k : x \in at(s)})]]

\* Meta.merge: add the counts, keep the shorter breakdown, stay blocked.
MergeMeta(m, v) ==
  Entry(m.freq + v.freq, m.docs + v.docs,
        IF v.tok < m.tok THEN v.tok ELSE m.tok, m.blocked \/ v.blocked)

\* g.merge(v) for every incoming entry (distinct words, so in any order):
\* merge into the existing entry or insert it; the corpus total grows by
\* v.Freq on both paths.
Merged(L, F, in) ==
  [lex |-> [w \in DOMAIN L \cup DOMAIN in |->
              IF w \notin DOMAIN in THEN L[w]
              ELSE IF w \in DOMAIN L THEN MergeMeta(L[w], in[w]) ELSE in[w]],
   freq |-> F + SumFreq(in)]

\* The spans of one Sample call that are merged, as match records:
\* content spans at or above the threshold, then title spans of more than
\* one token that also occur in the content (the others were deleted from
\* the title map).
SampleSpans(b, d) ==
  LET mt == MatchSpans(b, d.title)
      mc == MatchSpans(b, d.content)
      fromContent == {s \in DOMAIN mc : mc[s].freq >= Threshold}
      fromTitle == {s \in DOMAIN mt \ fromContent : s \in DOMAIN mc /\ mt[s].tok > 1}
  IN [s \in fromContent \cup fromTitle |-> IF s \in fromContent THEN mc[s] ELSE mt[s]]

\* The Metas Sample merges: each with Docs = 1 (`merged` is empty for a
\* string the first time it is merged in a call, which is every time).
Incoming(b, d) ==
  LET sp == SampleSpans(b, d)
  IN [s \in DOMAIN sp |-> Entry(sp[s].freq, 1, sp[s].tok, FALSE)]

Init ==
  /\ lex = [b \in Builders |-> [w \in StopWords |-> Entry(0, 0, 0, TRUE)]]
  /\ docs = [b \in Builders |-> 0]
  /\ freq = [b \in Builders |-> 0]
  /\ files = [p \in Paths |-> NoFile]

\* Sample(title, content): merge the document's spans, count the document.
Sample(b, d) ==
  /\ docs[b] < MaxDocs
  /\ LET r == Merged(lex[b], freq[b], Incoming(b, d))
     IN /\ lex' = [lex EXCEPT ![b] = r.lex]
        /\ freq' = [freq EXCEPT ![b] = r.freq]
  /\ docs' = [docs EXCEPT ![b] = @ + 1]
  /\ UNCHANGED files

\* The rows of a dump in one fixed order (the trie's traversal order).
RECURSIVE RowOrder(_)
RowOrder(S) ==
  IF S = {} THEN <<>>
  ELSE LET w == CHOOSE x \in S : TRUE IN <<w>> \o RowOrder(S \ {w})

\* Mutant: LoadDict forgetting to add the file's document count.
LoadDictNoTotal(b, p, n) ==
  LET f == files[p]
      read == {RowOrder(DOMAIN f.rows)[i] : i \in 1..n}
      r == Merged(lex[b], freq[b],
                  [w \in read |-> Entry(f.rows[w].freq, f.rows[w].docs, 0, FALSE)])
  IN /\ f # NoFile
     /\ n \in 0..Cardinality(DOMAIN f.rows)
     /\ docs[b] + f.docs <= MaxDocs
     /\ lex' = [lex EXCEPT ![b] = r.lex]
     /\ freq' = [freq EXCEPT ![b] = r.freq]
     /\ UNCHANGED <<docs, files>>

\* LoadDict(ctx, path): ReadDict parses the header, LoadDict adds it to the
\* corpus count, then merges the records the producer goroutine streams
\* until end of file, a parse error or cancellation: the first n rows.
\* ReadDict drops tokenLen, so a loaded Meta has no Token (length 0).
LoadDict(b, p, n) ==
  LET f == files[p]
      read == {RowOrder(DOMAIN f.rows)[i] : i \in 1..n}
      r == Merged(lex[b], freq[b],
                  [w \in read |-> Entry(f.rows[w].freq, f.rows[w].docs, 0, FALSE)])
  IN /\ f # NoFile
     /\ n \in 0..Cardinality(DOMAIN f.rows)
     /\ docs[b] + f.docs <= MaxDocs
     /\ docs' = [docs EXCEPT ![b] = @ + f.docs]
     /\ lex' = [lex EXCEPT ![b] = r.lex]
     /\ freq' = [freq EXCEPT ![b] = r.freq]
     /\ UNCHANGED files

\* dumpTrieNode's redundancy test: a longer entry with the same docs and
\* freq, or longer entries whose freqs add up to this entry's freq.
IsPrefixRedundant(L, w) ==
  LET longer == {v \in DOMAIN L : IsStrictPrefix(w, v)}
  IN \/ \E v \in longer : L[v].docs = L[w].docs /\ L[v].freq = L[w].freq
     \/ MapThenSumSet(LAMBDA v : L[v].freq, longer) = L[w].freq

\* DefaultDumpThreshold in integers: f/F > 0.1 is 10f > F, d/D <= 0.1 is
\* 10d <= D, 2 < f/d < 10 is 2d < f < 10d, d/D < 0.001 is 1000d < D.  A
\* zero divisor follows float64: f/0 is +Inf when f > 0 and NaN (every
\* comparison false) when f = 0.
DefaultDumpThreshold(D, F, m) ==
  /\ D >= 1
  /\ ~(IF F = 0 THEN m.freq > 0 ELSE 10 * m.freq > F)
  /\ \/ /\ 10 * m.docs <= D /\ m.docs > 0
        /\ 2 * m.docs < m.freq /\ m.freq < 10 * m.docs
        /\ (m.docs > 2 \/ m.freq > 15)
     \/ /\ 1000 * m.docs < D /\ m.docs > 2 /\ m.freq > m.docs /\ m.tok < 2

\* Dump(path, threshold): the corpus count, then every entry that is not
\* blocked, has at least two runes, is not prefix-redundant and passes the
\* threshold (nil, or DefaultDumpThreshold), with its freq, docs and
\* token count.
Dump(b, p, useDefault) ==
  LET L == lex[b]
      kept == {w \in DOMAIN L :
                 /\ ~L[w].blocked /\ Len(w) >= 2
                 /\ ~IsPrefixRedundant(L, w)
                 /\ useDefault => DefaultDumpThreshold(docs[b], freq[b], L[w])}
  IN /\ files' = [files EXCEPT ![p] =
                    [docs |-> docs[b],
                     rows |-> [w \in kept |-> [freq |-> L[w].freq, docs |-> L[w].docs,
                                               tok |-> L[w].tok]]]]
     /\ UNCHANGED <<lex, docs, freq>>

\* Scan(s): the window loop over the trie (every key, blocked ones too, for
\* HasKeysWithPrefix; only unblocked entries become the pending meta),
\* committing through ScanResult.add.  The committed meta IS the trie's
\* *Meta: its first commit sets meta.Freq = 1 and each repeat does
\* w.Freq++, so every matched entry's corpus Freq becomes its count in s.
\* g.freq and g.docs are only read (dataToWords).
Scan(b, t) ==
  LET L == lex[b]
      ms == ScanMatches(t, DOMAIN L, {w \in DOMAIN L : ~L[w].blocked})
      hits == {ms[i].word : i \in 1..Len(ms)}
      count(w) == Cardinality({i \in 1..Len(ms) : ms[i].word = w})
  IN /\ lex' = [lex EXCEPT ![b] =
                  [w \in DOMAIN L |-> IF w \in hits THEN [L[w] EXCEPT !.freq = count(w)]
                                     ELSE L[w]]]
     /\ UNCHANGED <<docs, freq, files>>

Next ==
  \/ \E b \in Builders, d \in Documents : Sample(b, d)
  \/ \E b \in Builders, t \in ScanTexts : Scan(b, t)
  \/ \E b \in Builders, p \in Paths : files[p] # NoFile /\
       \E n \in 0..Cardinality(DOMAIN files[p].rows) : LoadDict(b, p, n)
  \/ \E b \in Builders, p \in Paths, u \in BOOLEAN : Dump(b, p, u)

Spec == Init /\ [][Next]_vars

-----------------------------------------------------------------------------
(* Properties.                                                             *)

TypeOK ==
  /\ \A b \in Builders : \A w \in DOMAIN lex[b] :
       lex[b][w] \in [freq : Nat, docs : Nat, tok : 0..N, blocked : BOOLEAN]
  /\ docs \in [Builders -> 0..MaxDocs]
  /\ freq \in [Builders -> Nat]
  /\ \A p \in Paths : files[p] = NoFile \/ files[p].docs \in 0..MaxDocs

\* No entry was seen in more documents than the corpus has (d <= D), over
\* any mix of Sample, Dump and full or interrupted LoadDict of any
\* builder's dump: what makes idf = d/D of the threshold and GetIDF of
\* Match meaningful.
DocsWithinCorpus ==
  \A b \in Builders : \A w \in DOMAIN lex[b] : lex[b][w].docs <= docs[b]

\* Spec section 8: a span made only of digits, punctuation and symbols is
\* never recorded, whatever tokens surround it.
NoSymbolOnlyEntries ==
  \A b \in Builders : \A w \in DOMAIN lex[b] : ~lex[b][w].blocked => ~SymbolsOnly(w)

=============================================================================
