---------------------------- MODULE TfIdfMatcher ----------------------------
(***************************************************************************)
(* The TF-IDF Matcher of src/nlp/tfidf/matcher.go: a vocabulary trie whose *)
(* entries carry a document frequency (Meta.Docs, the d of IDF) and a      *)
(* corpus document counter (Matcher.docs, the D of IDF), fed by AddSample *)
(* and by loading dictionary files that Save wrote.                       *)
(*                                                                         *)
(* Several matchers share a set of file paths, so that a dictionary saved *)
(* by one can be loaded, once or repeatedly, into any of them: the        *)
(* composition of per-worker matchers that spec section 5 describes.      *)
(* The gzip wrapper of SaveToFile/LoadFromFile changes the bytes, not the *)
(* records, and is not distinguished.                                     *)
(*                                                                         *)
(* A path may also hold a dictionary that NGram.Dump wrote (the spec's    *)
(* data flow feeds it to a Matcher): its header is the same one integer,  *)
(* its rows are `word\tfreq\tdocs\ttokenLen`.  Of those rows only the     *)
(* words and docs are kept here.                                          *)
(***************************************************************************)
EXTENDS ScanLoop, Functions

CONSTANTS
  Matchers,     \* the Matcher instances
  Vocabulary,   \* the words AddWord may be given (rune sequences)
  Samples,      \* the documents AddSample may be given (rune sequences)
  Paths,        \* the dictionary file paths
  NoFile,       \* model value: nothing saved at a path yet
  NGramDicts,   \* the [docs, rows] dictionaries NGram.Dump may have written
  MaxDocs       \* bound on a matcher's corpus document counter

VARIABLES
  lex,      \* lex[m]: the trie of m, a function word -> Meta.Docs
  docs,     \* docs[m]: Matcher.docs of m, the corpus document count
  files     \* files[p]: [fmt, docs, rows] at path p ("csv": Save, "tsv":
            \* NGram.Dump), or NoFile

vars == <<lex, docs, files>>

\* A dictionary file as Save writes it: the header (total docs) and one
\* `word,docs` row per trie entry.
IsSnapshot(f) ==
  /\ f.docs \in 0..MaxDocs
  /\ DOMAIN f.rows \subseteq Vocabulary
  /\ \A w \in DOMAIN f.rows : f.rows[w] \in Nat

\* The set of distinct words a scan of t against m's trie commits: the
\* `words` map that AddSample's handler fills.
MatchedWords(m, t) ==
  LET ks == DOMAIN lex[m] IN {x.word : x \in Range(ScanMatches(t, ks, ks))}

\* The number of times w is committed in a scan of t (Word.Count in Match).
Occurrences(m, t, w) ==
  LET ks == DOMAIN lex[m]
      ms == ScanMatches(t, ks, ks)
  IN Cardinality({i \in DOMAIN ms : ms[i].word = w})

Init ==
  /\ lex = [m \in Matchers |-> [w \in {} |-> 0]]
  /\ docs = [m \in Matchers |-> 0]
  /\ files = [p \in Paths |-> NoFile]

\* AddWord (and New, for each non-empty line of its word lists): tr.Add
\* with a fresh Meta, replacing any entry the word had.
AddWord(m, w) ==
  /\ lex' = [lex EXCEPT ![m] = [x \in DOMAIN @ \cup {w} |-> IF x = w THEN 0 ELSE @[x]]]
  /\ UNCHANGED <<docs, files>>

\* RemoveWord: tr.Remove, a no-op for a word that is not there.
RemoveWord(m, w) ==
  /\ lex' = [lex EXCEPT ![m] = Restrict(@, DOMAIN @ \ {w})]
  /\ UNCHANGED <<docs, files>>

\* Mutant: addDoc once per committed occurrence instead of once per
\* distinct word (calling meta.addDoc() in the handler itself).
AddSampleCounting(m, t) ==
  /\ docs[m] < MaxDocs
  /\ lex' = [lex EXCEPT ![m] = [x \in DOMAIN @ |-> @[x] + Occurrences(m, t, x)]]
  /\ docs' = [docs EXCEPT ![m] = @ + 1]
  /\ UNCHANGED files

\* AddSample: scan the document, add one document to every distinct word
\* matched, and count the document whether or not anything matched.
AddSample(m, t) ==
  /\ docs[m] < MaxDocs
  /\ lex' = [lex EXCEPT ![m] =
               [x \in DOMAIN @ |-> IF x \in MatchedWords(m, t) THEN @[x] + 1 ELSE @[x]]]
  /\ docs' = [docs EXCEPT ![m] = @ + 1]
  /\ UNCHANGED files

\* Save / SaveToFile: the header with Matcher.docs, then one row per trie
\* entry (a pre-order traversal; row order does not matter to Load).  A
\* write that fails part-way leaves a prefix of the file, which Load below
\* reads as a file whose reading fails part-way.
Save(m, p) ==
  /\ files' = [files EXCEPT ![p] = [fmt |-> "csv", docs |-> docs[m], rows |-> lex[m]]]
  /\ UNCHANGED <<lex, docs>>

\* NGram.Dump(path, threshold) of some builder writes the path: os.Create
\* truncates it, then the header and the rows.
NGramDump(p, d) ==
  /\ files' = [files EXCEPT ![p] = [fmt |-> "tsv", docs |-> d.docs, rows |-> d.rows]]
  /\ UNCHANGED <<lex, docs>>

\* The rows Load can read before its first error.  cr.Read with
\* FieldsPerRecord = bodyColumns (2) returns ErrFieldCount on a row of
\* NGram.Dump whose word has no comma: it is one field.  Load returns that
\* error at the first row; the header, a single field, was already read
\* and counted.  (A dumped word with exactly one comma would make a
\* two-field row, loaded as the text before the comma with docs 0; the
\* dumps the model writes have no comma in their words.)
Readable(f) == IF f.fmt = "csv" THEN DOMAIN f.rows ELSE {}

\* Mutant: the header count added once more for every row read (the
\* `m.docs += docs` placed inside the row loop as well).
LoadHeaderPerRow(m, p, read) ==
  LET f == files[p] IN
  /\ f # NoFile
  /\ read \subseteq Readable(f)
  /\ docs[m] + f.docs <= MaxDocs
  /\ docs' = [docs EXCEPT ![m] = @ + f.docs * (1 + Cardinality(read))]
  /\ lex' = [lex EXCEPT ![m] =
               [x \in DOMAIN @ \cup read |->
                  (IF x \in DOMAIN @ THEN @[x] ELSE 0) + (IF x \in read THEN f.rows[x] ELSE 0)]]
  /\ UNCHANGED files

\* Load / LoadFromFile of the file at p, of which the rows in `read` are
\* read before the reader stops (end of file, a csv error, an empty word):
\* the header adds its count when it parses to a positive number; each row
\* adds its docs to an existing entry or creates a new one.  The rows read
\* before an error stay loaded.
Load(m, p, read) ==
  LET f == files[p] IN
  /\ f # NoFile
  /\ read \subseteq Readable(f)
  /\ docs[m] + f.docs <= MaxDocs
  /\ docs' = [docs EXCEPT ![m] = IF f.docs > 0 THEN @ + f.docs ELSE @]
  /\ lex' = [lex EXCEPT ![m] =
               [x \in DOMAIN @ \cup read |->
                  (IF x \in DOMAIN @ THEN @[x] ELSE 0) + (IF x \in read THEN f.rows[x] ELSE 0)]]
  /\ UNCHANGED files

Next ==
  \/ \E m \in Matchers, w \in Vocabulary : AddWord(m, w) \/ RemoveWord(m, w)
  \/ \E m \in Matchers, t \in Samples : AddSample(m, t)
  \/ \E m \in Matchers, p \in Paths : Save(m, p)
  \/ \E m \in Matchers, p \in Paths :
       files[p] # NoFile /\ \E read \in SUBSET Readable(files[p]) : Load(m, p, read)
  \/ \E p \in Paths, d \in NGramDicts : NGramDump(p, d)

Spec == Init /\ [][Next]_vars

-----------------------------------------------------------------------------
(* Properties.                                                             *)

\* The counters are numbers, the trie holds vocabulary words, and a file
\* at a path is a Save of some matcher or a dump of a builder.
TypeOK ==
  /\ \A m \in Matchers : \A w \in DOMAIN lex[m] : lex[m][w] \in Nat
  /\ \A m \in Matchers : DOMAIN lex[m] \subseteq Vocabulary
  /\ docs \in [Matchers -> 0..MaxDocs]
  /\ \A p \in Paths : \/ files[p] = NoFile
                      \/ files[p].fmt = "csv" /\ IsSnapshot(files[p])
                      \/ files[p].fmt = "tsv" /\ [docs |-> files[p].docs, rows |-> files[p].rows] \in NGramDicts

\* No word is in more documents than the corpus has: d <= D for every
\* entry of every matcher, through any mix of AddSample (which must count a
\* document once per distinct word, however often the scanner commits it),
\* AddWord/RemoveWord, Save and repeated or partial Loads.  It is what
\* keeps IDF = log10(D/d) of GetIDF finite and non-negative.
DocsWithinCorpus ==
  \A m \in Matchers : \A w \in DOMAIN lex[m] : lex[m][w] <= docs[m]

=============================================================================
