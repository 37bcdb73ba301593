CONSTANTS
  Scale = 10
  FloatGrid <- MCFloatGrid
  CountVals <- MCCountVals
  VarianceVals <- MCVarianceVals
  WidthVals <- MCWidthVals
  NaN = NaN
SPECIFICATION Spec
INVARIANT AcceptedMeetsContractOrNaN
INVARIANT DefaultsAccepted
