CONSTANTS
  Alphabet <- MCAlphabet
  Lexicons <- MCLexicons
  MaxLen = 5
  CorpusFreq = 3
  NoMatch = NoMatch
SPECIFICATION Spec
INVARIANT TypeOK ScanResultCounts
PROPERTY RefinesTokenizer
\* Scan returns; the final state has no successor.
CHECK_DEADLOCK FALSE
