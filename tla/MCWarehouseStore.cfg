\* Three products with two expiry dates each, pallets of at most two variants.
CONSTANTS
  milk = milk
  bread = bread
  rice = rice
  early = early
  late = late
  Products <- MCProducts
  Expiries <- MCExpiries
  Quantities = {1, 2}
  MaxVariants = 2
  MaxPallet = 3
  MaxEntries = 3
SYMMETRY MCSymmetry
SPECIFICATION Spec
INVARIANTS
  TypeOK
  Conservation
  PalletsFollowRules
  RowsHaveBookings
  ConfirmedWithinQuantity
PROPERTIES
  ClosedStaysClosed
  AuditAccountsForStock
  ImplementsLedger
