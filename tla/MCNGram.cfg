\* Sample, LoadDict (whole or interrupted) and Dump of two builders that
\* share one dictionary path, and NGram.Scan writing through the trie's
\* Metas in between (its loop alone is checked in MCWindowScanner.cfg).
CONSTANTS
  Builders = {b1, b2}
  Paths = {p1}
  NoFile = NoFile
  NoMatch = NoMatch
  N = 2
  Threshold = 0
  MaxDocs = 2
  StopWords <- MCStopWords
  Symbols <- MCSymbols
  Documents <- MCDocuments
  ScanTexts <- MCScanTexts
SPECIFICATION Spec
SYMMETRY MCSymmetry
INVARIANT TypeOK DocsWithinCorpus NoSymbolOnlyEntries
