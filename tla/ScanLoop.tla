------------------------------ MODULE ScanLoop ------------------------------
(***************************************************************************)
(* The loop of Scanner.Scan (src/nlp/tfidf/scanner.go) and NGram.Scan      *)
(* (src/nlp/ngram/scanner.go) as pure operators: Iterate is one pass of   *)
(* the loop body, RunScan the loop run to completion.                     *)
(*                                                                         *)
(* A text is a sequence of runes (utf8string addresses runes, never bytes)*)
(* and a lexicon is a set of rune sequences: HasKeysWithPrefix and Find of *)
(* the trie are set membership tests over it.  A pending match `meta` is  *)
(* recorded with the offset `left` it was found at; `left` does not move  *)
(* while a match is pending, so that is the offset the code commits.      *)
(* `cands` are the keys that may become the pending match: every key in   *)
(* tfidf, the keys that are not blocked in ngram.                         *)
(***************************************************************************)
EXTENDS Naturals, Sequences, SequencesExt

CONSTANT NoMatch   \* model value: no pending match (meta == nil)

\* text.Slice(l, r): runes l .. r-1.
Slice(t, l, r) == SubSeq(t, l + 1, r)

\* tr.HasKeysWithPrefix(s)
HasKeysWithPrefix(ks, s) == \E k \in ks : IsPrefix(s, k)

\* ts.add(meta) (and the handler) for a pending match, if any.
Commit(o, m) == IF m = NoMatch THEN o ELSE Append(o, m)

ScanStart == [left |-> 0, right |-> 0, meta |-> NoMatch, out |-> <<>>, done |-> FALSE]

\* The loop condition `for left < L` (and the break).
Scanning(t, st) == ~st.done /\ st.left < Len(t)

\* Mutant: a found key only becomes the pending match when none is pending
\* (`if meta == nil { meta = v }`), i.e. the shortest match wins.
IterateKeepFirst(t, ks, cands, st) ==
  LET r == st.right + 1
      s == Slice(t, st.left, r)
  IN CASE r > Len(t) ->
            [st EXCEPT !.right = r, !.meta = NoMatch,
                       !.out = Commit(st.out, st.meta), !.done = TRUE]
       [] ~HasKeysWithPrefix(ks, s) /\ st.meta # NoMatch ->
            [left |-> r - 1, right |-> r - 1, meta |-> NoMatch,
             out |-> Commit(st.out, st.meta), done |-> FALSE]
       [] ~HasKeysWithPrefix(ks, s) ->
            [st EXCEPT !.left = r, !.right = r]
       [] OTHER ->
            [st EXCEPT !.right = r,
                       !.meta = IF s \in cands /\ st.meta = NoMatch
                                THEN [pos |-> st.left, word |-> s] ELSE st.meta]

\* One pass of the loop body of Scan: grow the window by one rune; past the
\* end, commit the pending match and break; when no key extends the window,
\* skip past it, and if a match was pending commit it and rewind by one rune
\* (left = right; left--; right--); otherwise an exact key becomes the
\* pending match, overwriting a shorter one.
Iterate(t, ks, cands, st) ==
  LET r == st.right + 1
      s == Slice(t, st.left, r)
  IN CASE r > Len(t) ->
            [st EXCEPT !.right = r, !.meta = NoMatch,
                       !.out = Commit(st.out, st.meta), !.done = TRUE]
       [] ~HasKeysWithPrefix(ks, s) /\ st.meta # NoMatch ->
            [left |-> r - 1, right |-> r - 1, meta |-> NoMatch,
             out |-> Commit(st.out, st.meta), done |-> FALSE]
       [] ~HasKeysWithPrefix(ks, s) ->
            [st EXCEPT !.left = r, !.right = r]
       [] OTHER ->
            [st EXCEPT !.right = r,
                       !.meta = IF s \in cands THEN [pos |-> st.left, word |-> s]
                                ELSE st.meta]

\* The whole call Scan(tr, text, handler): the loop run to completion.
RECURSIVE RunScan(_, _, _, _)
RunScan(t, ks, cands, st) ==
  IF Scanning(t, st) THEN RunScan(t, ks, cands, Iterate(t, ks, cands, st)) ELSE st

\* The matches Scan commits, in order.
ScanMatches(t, ks, cands) == RunScan(t, ks, cands, ScanStart).out

=============================================================================
