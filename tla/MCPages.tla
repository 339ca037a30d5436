------------------------------ MODULE MCPages ------------------------------
(***************************************************************************)
(* What a user's pages do, in two parts that share nothing here and are    *)
(* checked side by side, in behaviours of one or of the other.             *)
(*                                                                         *)
(* The takeovers, as MCTakeover has them.                                  *)
(* A playlist of three tracks: a page makes any edit of it, and then adds  *)
(* a track or undoes, while other devices append to it and drop its first. *)
(***************************************************************************)
EXTENDS MCTakeover, Playlists

CONSTANTS song, tune, hymn, addable

VARIABLE part

MCFirst == <<song, tune, hymn>>
MCLaterOps == {Add(1, <<addable>>)}
MCOtherOps == {<<AddLast(<<tune>>)>>, <<Drop({1})>>}

SumInit == part \in {"players", "playlist"} /\ Init /\ PlaylistInit

SumNext ==
    \/ part = "players" /\ Next /\ UNCHANGED <<part, playlistVars>>
    \/ part = "playlist" /\ PlaylistNext /\ UNCHANGED <<part, vars>>

SumSpec == SumInit /\ [][SumNext]_<<part, vars, playlistVars>> /\ Fairness
=============================================================================
