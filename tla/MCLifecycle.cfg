\* Either repository: older files, backups and restores, crashes and cancellations; a
\* file left without its tables serves nothing, so the run may stop there.
CONSTANTS
  milk = milk
  early = early
  late = late
  Products <- MCProducts
  Expiries <- MCExpiries
  Quantities = {2}
  MaxVariants = 1
  MaxPallet = 1
  MaxEntries = 2
  Providers <- BothProviders
  Interruptions <- PossibleInterruptions
  MaxBackups = 1
  MaxRestores = 1
  MaxCrashes = 1
SPECIFICATION LifeSpec
INVARIANTS
  LifeTypeOK
  SoundWhenServing
PROPERTIES
  ServesAgain
  UpToDateTablesKept
  ImplementsLedgerWithBackups
CHECK_DEADLOCK FALSE
