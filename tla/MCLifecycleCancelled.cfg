\* SQLite: a restore may be cancelled between its copy and the last migration.
CONSTANTS
  milk = milk
  early = early
  late = late
  Products <- MCProducts
  Expiries <- MCExpiries
  Quantities = {2}
  MaxVariants = 1
  MaxPallet = 2
  MaxEntries = 2
  Providers <- SqliteOnly
  Interruptions <- PossibleInterruptions
  MaxBackups = 0
  MaxRestores = 1
  MaxCrashes = 1
SPECIFICATION LifeSpec
SYMMETRY MCSymmetry
PROPERTIES
  OlderFilesReusedSafely
CHECK_DEADLOCK FALSE
