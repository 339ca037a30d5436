----------------------------- MODULE MCAccount -----------------------------
(***************************************************************************)
(* What the server keeps in memory for an account, in two parts that share *)
(* nothing here and are checked side by side, in behaviours of one or of   *)
(* the other.                                                              *)
(*                                                                         *)
(* The player and its commands, as MCPlayers has them.                     *)
(* The queues: two, each started from a list of its own, one that is only  *)
(* moved through, and one that a list is added to and taken from.          *)
(***************************************************************************)
EXTENDS MCPlayers, QueueStore

CONSTANTS a, b, add, remove, step, shared, other, added, c1

VARIABLE part

MCQueue == {a, b}

MCList == {shared, other, added}

MCEdit == {add, remove, step}

MCClient == {c1}

MCBase == [q \in MCQueue |-> IF q = b THEN other ELSE shared]

MCOn == [e \in MCEdit |-> IF e = step THEN b ELSE a]

MCAdds == [e \in MCEdit |-> IF e = add THEN {added} ELSE {}]

MCDrops == [e \in MCEdit |-> IF e = remove THEN {added} ELSE {}]

MCAdjusting == [e \in MCEdit |-> e # step]

SumInit == part \in {"player", "queues"} /\ Init /\ QueuesInit

SumNext ==
    \/ part = "player" /\ Next /\ UNCHANGED <<part, queueVars>>
    \/ part = "queues" /\ QueuesNext /\ UNCHANGED <<part, vars>>

SumSpec == SumInit /\ [][SumNext]_<<part, vars, queueVars>>
=============================================================================
