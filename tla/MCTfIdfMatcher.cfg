CONSTANTS
  Matchers = {m1, m2}
  Vocabulary <- MCVocabulary
  Samples <- MCSamples
  Paths = {p1}
  NoFile = NoFile
  NGramDicts <- MCNGramDicts
  NoMatch = NoMatch
  MaxDocs = 2
SPECIFICATION Spec
INVARIANT TypeOK DocsWithinCorpus
