\* The overview at work: partial confirmations, backups of an earlier shift, and
\* one thing that goes wrong.
CONSTANTS
  milk = milk
  early = early
  s1 = s1
  s2 = s2
  Products <- MCProducts
  Expiries <- MCExpiries
  Quantities = {1}
  MaxVariants = 1
  MaxPallet = 2
  MaxEntries = 2
  Slots <- TwoSlots
  ScanCounts = {1, 2}
  RecentEntries = 1
  Backups <- EarlierShift
  Numbers <- PrintedNumbers
  Disturbances <- PossibleDisturbances
  MaxDisturbances = 1
SPECIFICATION PageSpec
INVARIANTS
  PageTypeOK
  BoardTruthful
  SuggestionStands
  LoadingHasALoad
  FieldsHoldWhatWasRead
  PalletScansAgree
  EquivalentScansGroup
PROPERTIES
  UndoesShownEntry
