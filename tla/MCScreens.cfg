\* Two pallets, one change of what they hold, one thing that goes wrong.
CONSTANTS
  Pallets = {1, 2}
  MaxChanges = 1
  Disturbances <- PossibleDisturbances
  MaxDisturbances = 1
SPECIFICATION ScreensSpec
INVARIANTS
  ScreensTypeOK
  ViewsTruthful
  CardUpToDate
  SignedInMatchesSession
PROPERTIES
  ClosingOpensPrint
  CardLoadingEnds
