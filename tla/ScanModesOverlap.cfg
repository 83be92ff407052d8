\* The earliest-then-longest policy over all of results.json.
CONSTANTS
  Inputs <- MCInputs
  Files <- MCFiles
SPECIFICATION ScanSpec
INVARIANT NoOverlapInResults
