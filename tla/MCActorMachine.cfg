SPECIFICATION Spec
CONSTANT MaxQty = 2
INVARIANTS ShadowComplete FlatOnlyOnZeroHoldings OpenOnlyOnFill
PROPERTY InFlightDrains
