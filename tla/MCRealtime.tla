----------------------------- MODULE MCRealtime -----------------------------
(***************************************************************************)
(* A device that is signed in and one that may log in, with two            *)
(* connections between them and outboxes of two messages.                  *)
(***************************************************************************)
EXTENDS Realtime

CONSTANTS phone, desk

MCDevice == {phone, desk}

MCSignedIn == {phone}
=============================================================================
