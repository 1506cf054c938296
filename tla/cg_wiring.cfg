SPECIFICATION GraphSpec
CONSTANTS
  ClfSpecs <- ManySpecs
  Alphabet <- NameOrder
  Numerals <- FirstNumerals
CHECK_DEADLOCK FALSE
INVARIANTS RecordsRouted FiltersInOrder NoDanglingInput
PROPERTY NothingReplaced
