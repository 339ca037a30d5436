------------------------------ MODULE MCHooks ------------------------------
(***************************************************************************)
(* A plugin that requires the scanFinished hook of library 1 and asks for  *)
(* the plays of one user there, delivered one at a time by one slot.       *)
(***************************************************************************)
EXTENDS Hooks

Scans(l) == [library |-> l, hook |-> "finished", user |-> None]
Changes(l) == [library |-> l, hook |-> "changed", user |-> None]
Plays(l) == [library |-> l, hook |-> "played", user |-> 1]

MCKey == {Scans(1), Plays(2)}
MCGrants == {{"finished", "played"}, {"played"}}
=============================================================================
