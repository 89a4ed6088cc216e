----------------------------- MODULE MCPathMtu -----------------------------
(***************************************************************************)
(* PathMtu on the ladder of tests/test_ice_pmtu.cpp (floor 1200, rungs     *)
(* 1200, 1400, 1500).  The path widths put the true MTU at the floor,      *)
(* inside one granule above it, on a rung, between two rungs and at the    *)
(* top.                                                                    *)
(***************************************************************************)
EXTENDS PathMtu

MCSteps == {1200, 1400, 1500}
MCPaths == {1200, 1207, 1400, 1492, 1500}
=============================================================================
