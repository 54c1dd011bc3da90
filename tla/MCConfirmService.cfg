\* Two batches, on one pallet or two, or of no scans, with the other stations at work.
CONSTANTS
  milk = milk
  early = early
  r1 = r1
  r2 = r2
  Products <- MCProducts
  Expiries <- MCExpiries
  Requests <- TwoRequests
  Quantities = {2}
  MaxVariants = 1
  MaxPallet = 2
  MaxEntries = 2
  ScanCounts = {0, 2}
  MaxScans = 1
  MaxCorrections = 1
SPECIFICATION ServiceSpec
INVARIANTS
  ServiceTypeOK
  ScansAccountedFor
  GuardStopsOnlyFirstScan
PROPERTIES
  ShortBatchLeavesNothing
  RequestsEnd
