\* Two analyses of a run directory, by one to three threads each.
CONSTANTS
  Documents <- MCDocuments
  WordLength <- MCWordLength
  ThreadCounts = {1, 2, 3}
  ReportedWords = 2
  MaxAnalyses = 2
  MaxSilent = 1
SPECIFICATION Spec
INVARIANTS
  TypeOK
  PartsPartition
  MatchesSerial
  TempDirRemoved
