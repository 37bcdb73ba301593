--------------------------- MODULE MCIcebergCLI ---------------------------
(* An instance of IcebergCLI for TLC: counts on both sides of zero, floats *)
(* in tenths at both ends of [0,1], one step past each end and at the      *)
(* flag defaults, variances of each sign.                                  *)
EXTENDS IcebergCLI

MCFloatGrid == {-1, 0, 3, 5, 7, 10, 11}
MCCountVals == {-1, 0, 1}
MCVarianceVals == {-1, 0, 1}
MCWidthVals == {0, 1}
=============================================================================
