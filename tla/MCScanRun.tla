----------------------------- MODULE MCScanRun -----------------------------
(***************************************************************************)
(* Scans of a library of two roots: root 1 holds a file and a folder with  *)
(* another, and in it one with a third, root 2 a file.                     *)
(***************************************************************************)
EXTENDS ScanRun

MCPath == {<<>>, <<1>>, <<1, 1>>}

In(r, p) == [root |-> r, path |-> p]

MCFolder == {In(1, <<>>), In(1, <<1>>), In(1, <<1, 1>>), In(2, <<>>)}

\* The whole library, and the files of one folder.
MCLibraryScans ==
    { <<RootScope(1), RootScope(2)>>,
      <<[root |-> 1, path |-> <<1>>, depth |-> "directory"]>> }

\* Scans of the whole library alone.
MCWholeScans == { <<RootScope(1), RootScope(2)>> }
=============================================================================
