---------------------------- MODULE MCScanQueue ----------------------------
(***************************************************************************)
(* The scan queue of a library of two roots, one with a folder, asked for  *)
(* work that overlaps: a root, and the folder's own files beside the other *)
(* root; the startup scan asks for both roots.                             *)
(***************************************************************************)
EXTENDS ScanQueue

MCPath == {<<>>, <<1>>}

Folder(depth) == [root |-> 1, path |-> <<1>>, depth |-> depth]

MCRequests ==
    { {RootScope(1)}, {Folder("directory"), RootScope(2)} }

-----------------------------------------------------------------------------
(***************************************************************************)
(* What the queue takes as Coalesce, the code computes by one sort and one *)
(* sweep.  The two are compared on every request of up to four scopes of   *)
(* two roots with folders two deep, once, in the first state.              *)
(***************************************************************************)
WidePath == {<<>>, <<1>>, <<1, 1>>, <<1, 2>>, <<2>>}
WideScope == [root : {1, 2}, path : WidePath, depth : {"subtree", "directory"}]

RequestsOfUpTo(n) == UNION {kSubset(k, WideScope) : k \in 0 .. n}

(* The sweep keeps exactly the scopes that no other scope of the request   *)
(* covers, each once: comparing with the last scope kept is enough, as the *)
(* comment in coalesce_scopes claims of its sort order.                    *)
SweepKeepsTheMaximal ==
    ~up /\ created = 0 /\ stops = 0 =>
        \A request \in RequestsOfUpTo(4) :
            LET kept == SweepCoalesce(request)
            IN  /\ ToSet(kept) = Coalesce(request)
                /\ Len(kept) = Cardinality(Coalesce(request))
=============================================================================
