\* The operator may also close the awaited pallet from the list.
CONSTANTS
  milk = milk
  bread = bread
  early = early
  s1 = s1
  s2 = s2
  Products <- MCProducts
  Expiries <- MCExpiries
  Slots <- OneSlot
  Disturbances <- ListClosing
  MaxDisturbances = 1
  Quantities = {1}
  MaxVariants = 1
  MaxPallet = 3
  MaxEntries = 3
  MaxAbandoned = 2
SYMMETRY ProductSymmetry
SPECIFICATION FlowSpec
PROPERTIES
  ResumesActiveStep
