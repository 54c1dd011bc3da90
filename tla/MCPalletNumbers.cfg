\* What the comment on GetNextPalletNumberAsync says of pallet numbers.
CONSTANTS
  milk = milk
  bread = bread
  rice = rice
  early = early
  late = late
  Products <- MCProducts
  Expiries <- MCExpiries
  Quantities = {1}
  MaxVariants = 1
  MaxPallet = 2
  MaxEntries = 2
SYMMETRY MCSymmetry
SPECIFICATION Spec
PROPERTIES
  PalletIdsMonotonic
