--------------------------- MODULE MCClientQueue ---------------------------
(***************************************************************************)
(* One queue of the account's, one this device may start and one another   *)
(* may; edits of both, one of which takes what another edit needs, and a   *)
(* change of the repeat mode.                                              *)
(***************************************************************************)
EXTENDS ClientQueue

CONSTANTS first, older, mine, theirs, past, add, repeatAll, remove, again

MCBars == {<<remove, add>>}
=============================================================================
