----------------------------- MODULE MCTakeover -----------------------------
(***************************************************************************)
(* Two devices with a page open on each.                                   *)
(***************************************************************************)
EXTENDS Takeover

CONSTANTS laptop, tablet
=============================================================================
