------------------------------ MODULE MCGpuDay ------------------------------
(* The coefficients of small instances, for TLC. *)
EXTENDS GpuDay

(* Both fits, the falling and the concave ones polyfit may return included. *)
AnyIntercept == {-3, 0, 2, 9, 20}
AnySlope == {-1, 0, 1, 3}
AnyCurvature == {-1, 0, 1}
=============================================================================
