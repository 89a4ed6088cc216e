---------------------------- MODULE MCTurnRelay ----------------------------
(***************************************************************************)
(* TurnRelay with two servers, the first one reached over a stream.        *)
(***************************************************************************)
EXTENDS TurnRelay

CONSTANTS pa, pb
=============================================================================
