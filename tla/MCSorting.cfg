\* A shift in which pages are left while waiting, responses are lost, other stations
\* work and awaited pallets are closed from the list, MaxDisturbances times in all.
CONSTANTS
  milk = milk
  bread = bread
  early = early
  s1 = s1
  s2 = s2
  Products <- MCProducts
  Expiries <- MCExpiries
  Slots <- TwoSlots
  Disturbances <- PossibleDisturbances
  MaxDisturbances = 2
  Quantities = {1}
  MaxVariants = 1
  MaxPallet = 3
  MaxEntries = 3
  MaxAbandoned = 1
SYMMETRY BothSymmetries
SPECIFICATION FlowSpec
INVARIANTS
  FlowTypeOK
  PageMatchesTables
  ConfirmStepHasPallet
  LockedWhileWaiting
