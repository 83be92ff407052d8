\* An analysis that fails in parts, then another one that succeeds.
CONSTANTS
  Documents <- MCDocuments
  WordLength <- MCWordLength
  ThreadCounts = {1, 2, 3}
  ReportedWords = 2
  MaxAnalyses = 2
  MaxSilent = 0
SPECIFICATION Spec
INVARIANT PhraseFilesHoldResults
