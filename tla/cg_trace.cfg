SPECIFICATION GraphSpec
CONSTANTS
  ClfSpecs <- OtlpAfterLokiStack
  Alphabet <- NameOrder
  Numerals <- FirstNumerals
CHECK_DEADLOCK FALSE
INVARIANT TraceContextExtracted
