---------------------------- MODULE MCBackground ----------------------------
(***************************************************************************)
(* What a library's threads do in the background, in two parts that share  *)
(* nothing here and are checked side by side, in behaviours of one of them.*)
(*                                                                         *)
(* The scans, as MCScanRun has them.                                       *)
(* The decodes: two libraries on three threads, one with a file that       *)
(* decodes and may go away, with its root, and one that does not decode.   *)
(***************************************************************************)
EXTENDS MCScanRun, Jobs

VARIABLE part

MCLibraryOf == [j \in Job |-> j]
MCFilesOf   == [j \in Job |-> IF j = 0 THEN {1, 2} ELSE {}]
MCPlace     == {<<"file", 1>>, <<"root", 0>>}

\* The files there are at first: one in each folder, or in the lower one alone.
MCFiles == {Folder, {In(1, <<1>>)}}

SumInit ==
    /\ part \in {"scans", "jobs"} /\ Init /\ JobsInit
    /\ files \in (IF part = "scans" THEN MCFiles ELSE {{}})

SumNext ==
    \/ part = "scans" /\ Next /\ UNCHANGED <<part, jobVars>>
    \/ part = "jobs" /\ JobsNext /\ UNCHANGED <<part, vars>>

SumSpec == SumInit /\ [][SumNext]_<<part, vars, jobVars>>

=============================================================================
