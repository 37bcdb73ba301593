CONSTANTS
  Scale = 4
  MaxSamples = 3
  NaN = NaN
  MaxTables = 5
SPECIFICATION Spec
INVARIANT SamplerIndexInRange
INVARIANT SamplerMatchesReference
