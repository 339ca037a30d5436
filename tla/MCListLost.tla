----------------------------- MODULE MCListLost -----------------------------
(***************************************************************************)
(* Two queues, one of which an edit gives the list the other starts from.  *)
(***************************************************************************)
EXTENDS QueueStore

CONSTANTS a, b, add, step, shared, other, c1

MCQueue == {a, b}

MCList == {shared, other}

MCEdit == {add, step}

MCClient == {c1}

MCBase == [q \in MCQueue |-> IF q = b THEN other ELSE shared]

MCOn == [e \in MCEdit |-> IF e = step THEN b ELSE a]

MCAdds == [e \in MCEdit |-> IF e = add THEN {other} ELSE {}]

MCDrops == [e \in MCEdit |-> {}]

MCAdjusting == [e \in MCEdit |-> TRUE]
=============================================================================
